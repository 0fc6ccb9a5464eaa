--------------------------- MODULE Shutdown_proofs ----------------------------
(***************************************************************************)
(* Theorems about the shutdown mode and the SIGINT handler, for any        *)
(* threads, any number of signals and any calls, however the signals       *)
(* strike and however deep their handlers nest.                            *)
(***************************************************************************)
EXTENDS Shutdown, SequenceTheorems, TLAPS

RoutineNames == MainRoutines \cup {"sigint"}

StepNames ==
  {"take", "release", "look", "begin", "take_signal", "release_signal", "read_original",
   "forward", "check_install", "save_original", "set_handler", "mark_installed",
   "check_restore", "reset_handler", "clear_installed"}

\* A frame's place is told by how many steps it has left.
StepsLeft(routine, n) ==
  SubSeq(Routines[routine], Len(Routines[routine]) - n + 1, Len(Routines[routine]))

StepAt(routine, n) == Routines[routine][Len(Routines[routine]) - n + 1]

LEMMA RoutinesAreSteps ==
  ASSUME NEW r \in RoutineNames
  PROVE  /\ Routines[r] \in Seq(StepNames)
         /\ r = "observe" => Len(Routines[r]) = 2
         /\ r \in {"drain", "abort"} => Len(Routines[r]) = 3
         /\ r = "sigint" => Len(Routines[r]) = 10
         /\ r = "install" => Len(Routines[r]) = 6
         /\ r = "restore" => Len(Routines[r]) = 5
  <1> USE DEF Routines, StepNames
  <1>1. CASE r = "observe"
    BY <1>1
  <1>2. CASE r = "drain"
    BY <1>2
  <1>3. CASE r = "abort"
    BY <1>3
  <1>4. CASE r = "sigint"
    BY <1>4
  <1>5. CASE r = "install"
    BY <1>5
  <1>6. CASE r = "restore"
    BY <1>6
  <1> QED
    BY <1>1, <1>2, <1>3, <1>4, <1>5, <1>6 DEF RoutineNames, MainRoutines

\* Taking a step off what is left.
LEMMA StepsLeftProperties ==
  ASSUME NEW r \in RoutineNames, NEW n \in 1 .. Len(Routines[r])
  PROVE  /\ StepsLeft(r, n) \in Seq(StepNames)
         /\ StepsLeft(r, n) # <<>>
         /\ Len(StepsLeft(r, n)) = n
         /\ Head(StepsLeft(r, n)) = StepAt(r, n)
         /\ Tail(StepsLeft(r, n)) = IF n = 1 THEN <<>> ELSE StepsLeft(r, n - 1)
  <1> DEFINE s == Routines[r]
             i == Len(s) - n + 1
  <1>1. s \in Seq(StepNames) /\ Len(s) \in Nat
    BY RoutinesAreSteps, LenProperties
  <1>2. i \in 1 .. Len(s) /\ Len(s) \in i .. Len(s)
    BY <1>1
  <1>3. /\ Head(SubSeq(s, i, Len(s))) = s[i]
        /\ Tail(SubSeq(s, i, Len(s))) = SubSeq(s, i + 1, Len(s))
    BY <1>1, <1>2, HeadTailOfSubSeq
  <1>4. SubSeq(s, i, Len(s)) \in Seq(StepNames) /\ Len(SubSeq(s, i, Len(s))) = n
    BY <1>1, <1>2
  <1>5. n = 1 => SubSeq(s, i + 1, Len(s)) = <<>>
    BY <1>1, SubSeqEmpty
  <1>6. StepsLeft(r, n) = SubSeq(s, i, Len(s)) /\ StepAt(r, n) = s[i]
    BY DEF StepsLeft, StepAt
  <1>7. StepsLeft(r, n - 1) = SubSeq(s, i + 1, Len(s))
    <2>1. Len(s) - (n - 1) + 1 = i + 1
      BY <1>1
    <2> QED
      BY <2>1 DEF StepsLeft
  <1> HIDE DEF s, i
  <1>8. SubSeq(s, i, Len(s)) # <<>>
    <2>1. Len(<<>>) = 0
      OBVIOUS
    <2>2. n # 0
      BY <1>1
    <2> QED
      BY <1>4, <2>1, <2>2
  <1> QED
    BY <1>3, <1>4, <1>5, <1>6, <1>7, <1>8

\* The steps of the handler.
LEMMA HandlerSteps ==
  /\ StepAt("sigint", 1) = "forward" /\ StepAt("sigint", 2) = "release_signal"
  /\ StepAt("sigint", 3) = "read_original" /\ StepAt("sigint", 4) = "take_signal"
  /\ StepAt("sigint", 5) = "release" /\ StepAt("sigint", 6) = "begin"
  /\ StepAt("sigint", 7) = "take" /\ StepAt("sigint", 8) = "release"
  /\ StepAt("sigint", 9) = "look" /\ StepAt("sigint", 10) = "take"
  <1>1. Len(Routines["sigint"]) = 10
    BY RoutinesAreSteps DEF RoutineNames
  <1> QED
    BY <1>1 DEF StepAt, Routines

LEMMA OtherSteps ==
  /\ StepAt("observe", 1) = "release"
  /\ \A r \in {"drain", "abort"} : StepAt(r, 1) = "release" /\ StepAt(r, 2) = "begin"
  /\ StepAt("install", 1) = "release_signal" /\ StepAt("install", 2) = "mark_installed"
  /\ StepAt("install", 3) = "set_handler" /\ StepAt("install", 4) = "save_original"
  /\ StepAt("install", 5) = "check_install"
  /\ StepAt("restore", 1) = "release_signal" /\ StepAt("restore", 2) = "clear_installed"
  /\ StepAt("restore", 3) = "reset_handler" /\ StepAt("restore", 4) = "check_restore"
  <1>1. /\ Len(Routines["observe"]) = 2 /\ Len(Routines["install"]) = 6
        /\ Len(Routines["restore"]) = 5
        /\ Len(Routines["drain"]) = 3 /\ Len(Routines["abort"]) = 3
    BY RoutinesAreSteps DEF RoutineNames, MainRoutines
  <1>2. \A r \in {"drain", "abort"} : StepAt(r, 1) = "release" /\ StepAt(r, 2) = "begin"
    BY <1>1 DEF StepAt, Routines
  <1> QED
    BY <1>1, <1>2 DEF StepAt, Routines

\* Where each step is taken.
LEMMA StepPlaces ==
  ASSUME NEW r \in RoutineNames, NEW n \in 1 .. Len(Routines[r])
  PROVE  /\ StepAt(r, n) = "take" <=>
              <<r, n>> \in {<<"observe", 2>>, <<"drain", 3>>, <<"abort", 3>>, <<"sigint", 10>>, <<"sigint", 7>>}
         /\ StepAt(r, n) = "release" <=>
              <<r, n>> \in {<<"observe", 1>>, <<"drain", 1>>, <<"abort", 1>>, <<"sigint", 8>>, <<"sigint", 5>>}
         /\ StepAt(r, n) = "look" <=> <<r, n>> = <<"sigint", 9>>
         /\ StepAt(r, n) = "begin" <=> <<r, n>> \in {<<"drain", 2>>, <<"abort", 2>>, <<"sigint", 6>>}
         /\ StepAt(r, n) = "take_signal" <=>
              <<r, n>> \in {<<"install", 6>>, <<"restore", 5>>, <<"sigint", 4>>}
         /\ StepAt(r, n) = "release_signal" <=>
              <<r, n>> \in {<<"install", 1>>, <<"restore", 1>>, <<"sigint", 2>>}
         /\ StepAt(r, n) = "read_original" <=> <<r, n>> = <<"sigint", 3>>
         /\ StepAt(r, n) = "forward" <=> <<r, n>> = <<"sigint", 1>>
         /\ StepAt(r, n) = "check_install" <=> <<r, n>> = <<"install", 5>>
         /\ StepAt(r, n) = "save_original" <=> <<r, n>> = <<"install", 4>>
         /\ StepAt(r, n) = "set_handler" <=> <<r, n>> = <<"install", 3>>
         /\ StepAt(r, n) = "mark_installed" <=> <<r, n>> = <<"install", 2>>
         /\ StepAt(r, n) = "check_restore" <=> <<r, n>> = <<"restore", 4>>
         /\ StepAt(r, n) = "reset_handler" <=> <<r, n>> = <<"restore", 3>>
         /\ StepAt(r, n) = "clear_installed" <=> <<r, n>> = <<"restore", 2>>
  <1>1. CASE r = "observe"
    <2>1. StepAt(r, 1) = "release" /\ StepAt(r, 2) = "take" /\ n \in 1 .. 2
      BY <1>1, RoutinesAreSteps DEF StepAt, Routines
    <2> QED
      BY <1>1, <2>1
  <1>2. ASSUME r \in {"drain", "abort"}, n \in 1 .. 3
        PROVE  /\ StepAt(r, n) = "release" <=> n = 1
               /\ StepAt(r, n) = "begin" <=> n = 2
               /\ StepAt(r, n) = "take" <=> n = 3
               /\ StepAt(r, n) \in {"release", "begin", "take"}
    <2>1. Routines[r] = <<"take", "begin", "release">> /\ Len(Routines[r]) = 3
      BY <1>2, RoutinesAreSteps DEF Routines
    <2>2. StepAt(r, 1) = "release" /\ StepAt(r, 2) = "begin" /\ StepAt(r, 3) = "take"
      BY <2>1 DEF StepAt
    <2> QED
      BY <1>2, <2>2
  <1>6. CASE r \in {"drain", "abort"}
    <2>1. n \in 1 .. 3
      BY <1>6, RoutinesAreSteps
    <2> QED
      BY <1>2, <1>6, <2>1
  <1>3. CASE r = "sigint"
    <2>1. n \in 1 .. 10
      BY <1>3, RoutinesAreSteps
    <2> QED
      BY <1>3, <2>1, HandlerSteps
  <1>4. CASE r = "install"
    <2>1. /\ StepAt(r, 1) = "release_signal" /\ StepAt(r, 2) = "mark_installed"
          /\ StepAt(r, 3) = "set_handler" /\ StepAt(r, 4) = "save_original"
          /\ StepAt(r, 5) = "check_install" /\ StepAt(r, 6) = "take_signal"
          /\ n \in 1 .. 6
      BY <1>4, RoutinesAreSteps DEF StepAt, Routines
    <2> QED
      BY <1>4, <2>1
  <1>5. CASE r = "restore"
    <2>1. /\ StepAt(r, 1) = "release_signal" /\ StepAt(r, 2) = "clear_installed"
          /\ StepAt(r, 3) = "reset_handler" /\ StepAt(r, 4) = "check_restore"
          /\ StepAt(r, 5) = "take_signal"
          /\ n \in 1 .. 5
      BY <1>5, RoutinesAreSteps DEF StepAt, Routines
    <2> QED
      BY <1>5, <2>1
  <1> QED
    BY <1>1, <1>3, <1>4, <1>5, <1>6 DEF RoutineNames, MainRoutines
-----------------------------------------------------------------------------
\* The shape of the stacks: every frame is in its routine, the main thread has
\* nothing but handlers above the first frame, a worker has one frame at most.
Frames ==
  [routine : RoutineNames, todo : Seq(StepNames),
   mode : {None, DRAIN, ABORT}, original : {None, Theirs, Ours}]

IsFrame(f) ==
  /\ f \in Frames
  /\ Len(f.todo) \in 1 .. Len(Routines[f.routine])
  /\ f.todo = StepsLeft(f.routine, Len(f.todo))

StacksOK ==
  /\ stack \in [Threads -> Seq(Frames)]
  /\ \A t \in Threads : \A d \in 1 .. Depth(t) : IsFrame(stack[t][d])
  /\ \A d \in 2 .. Depth(Main) : stack[Main][d].routine = "sigint"
  /\ \A t \in Workers : Depth(t) <= 1 /\ (Depth(t) = 1 => stack[t][1].routine \in WorkerRoutines)

LEMMA DepthIsNat ==
  ASSUME StacksOK, NEW t \in Threads
  PROVE  stack[t] \in Seq(Frames) /\ Depth(t) \in Nat
  BY LenProperties DEF StacksOK, Depth

\* What is at hand when a thread is about to take a step.
LEMMA AtStep ==
  ASSUME StacksOK, NEW t \in Threads, NEW s, At(t, s)
  PROVE  LET f == Top(t)
             n == Len(f.todo)
         IN  /\ Depth(t) \in Nat \ {0} /\ f = stack[t][Depth(t)] /\ IsFrame(f)
             /\ f.routine \in RoutineNames /\ n \in 1 .. Len(Routines[f.routine]) /\ n \in Nat
             /\ StepAt(f.routine, n) = s
             /\ Tail(f.todo) = IF n = 1 THEN <<>> ELSE StepsLeft(f.routine, n - 1)
             /\ t \in Workers => Depth(t) = 1 /\ f.routine \in WorkerRoutines
             /\ Depth(t) > 1 => f.routine = "sigint"
  <1> DEFINE f == Top(t)
             n == Len(f.todo)
  <1>1. Depth(t) \in Nat \ {0} /\ f = stack[t][Depth(t)]
    BY DepthIsNat DEF At, Top
  <1>2. IsFrame(f)
    BY <1>1 DEF StacksOK
  <1>3. f.routine \in RoutineNames /\ n \in 1 .. Len(Routines[f.routine])
    BY <1>2 DEF IsFrame, Frames
  <1>4. n \in Nat
    BY <1>3, RoutinesAreSteps, LenProperties
  <1>5. Head(f.todo) = s /\ f.todo = StepsLeft(f.routine, n)
    BY <1>2 DEF At, IsFrame
  <1>6. /\ Head(f.todo) = StepAt(f.routine, n)
        /\ Tail(f.todo) = IF n = 1 THEN <<>> ELSE StepsLeft(f.routine, n - 1)
    BY <1>3, <1>5, StepsLeftProperties
  <1>7. t \in Workers => Depth(t) = 1 /\ f.routine \in WorkerRoutines
    BY <1>1 DEF StacksOK
  <1>8. Depth(t) > 1 => f.routine = "sigint"
    <2> SUFFICES ASSUME Depth(t) > 1
                 PROVE  f.routine = "sigint"
      OBVIOUS
    <2>1. t = Main /\ Depth(Main) \in 2 .. Depth(Main)
      BY <1>1, <1>7 DEF Threads
    <2> QED
      BY <1>1, <2>1 DEF StacksOK
  <1> QED
    BY <1>1, <1>2, <1>3, <1>4, <1>5, <1>6, <1>7, <1>8

\* Its place, by name.
LEMMA Place ==
  ASSUME StacksOK, NEW t \in Threads, NEW s, At(t, s)
  PROVE  \E r \in RoutineNames, k \in Nat :
           /\ r = Top(t).routine /\ Len(Top(t).todo) = k + 1
           /\ k + 1 \in 1 .. Len(Routines[r]) /\ StepAt(r, k + 1) = s
           /\ Tail(Top(t).todo) = IF k = 0 THEN <<>> ELSE StepsLeft(r, k)
  <1>1. PICK r \in RoutineNames : r = Top(t).routine
    BY AtStep
  <1>2. PICK n \in Nat : n = Len(Top(t).todo)
    BY AtStep
  <1>3. /\ n \in 1 .. Len(Routines[r]) /\ StepAt(r, n) = s
        /\ Tail(Top(t).todo) = IF n = 1 THEN <<>> ELSE StepsLeft(r, n - 1)
    BY AtStep, <1>1, <1>2
  <1>4. Len(Routines[r]) \in Nat
    BY RoutinesAreSteps, LenProperties
  <1>5. PICK k \in Nat : k = n - 1
    BY <1>3, <1>4
  <1>6. n = k + 1 /\ (n = 1 <=> k = 0)
    BY <1>5
  <1> QED
    BY <1>1, <1>2, <1>3, <1>5, <1>6

\* A frame that has no step left goes.
LEMMA Returns ==
  ASSUME StacksOK, NEW t \in Threads, NEW s, At(t, s), NEW m, NEW o, GoOn(t, <<>>, m, o)
  PROVE  /\ StacksOK'
         /\ Depth(t)' = Depth(t) - 1
         /\ \A d \in 1 .. Depth(t) - 1 : stack'[t][d] = stack[t][d]
         /\ \A u \in Threads \ {t} : stack'[u] = stack[u] /\ Depth(u)' = Depth(u)
  <1> DEFINE D == Depth(t)
             below == SubSeq(stack[t], 1, D - 1)
  <1>1. stack[t] \in Seq(Frames) /\ D \in Nat \ {0} /\ D = Len(stack[t])
    BY AtStep, DepthIsNat DEF Depth
  <1>2. stack \in [Threads -> Seq(Frames)]
    BY DEF StacksOK
  <1>3. stack' = [stack EXCEPT ![t] = below]
    BY DEF GoOn, Depth
  <1>4. /\ below \in Seq(Frames) /\ Len(below) = D - 1
        /\ \A d \in 1 .. D - 1 : below[d] = stack[t][d]
    BY <1>1
  <1> HIDE DEF below
  <1>5. /\ stack' \in [Threads -> Seq(Frames)]
        /\ stack'[t] = below
        /\ \A u \in Threads \ {t} : stack'[u] = stack[u] /\ Depth(u)' = Depth(u)
    BY <1>2, <1>3, <1>4 DEF Depth
  <1>6. Depth(t)' = D - 1
    BY <1>4, <1>5 DEF Depth
  <1> HIDE DEF D
  <1>7. \A u \in Threads : \A d \in 1 .. Depth(u)' :
          d \in 1 .. Depth(u) /\ stack'[u][d] = stack[u][d]
    BY <1>1, <1>4, <1>5, <1>6 DEF D
  <1>8. StacksOK'
    <2>1. \A u \in Threads : \A d \in 1 .. Depth(u)' : IsFrame(stack'[u][d])
      BY <1>7 DEF StacksOK
    <2>2. \A d \in 2 .. Depth(Main)' : stack'[Main][d].routine = "sigint"
      <3> SUFFICES ASSUME NEW d \in 2 .. Depth(Main)'
                   PROVE  stack'[Main][d].routine = "sigint"
        OBVIOUS
      <3>1. d \in 1 .. Depth(Main)' /\ Main \in Threads
        BY DEF Threads
      <3>2. d \in 2 .. Depth(Main) /\ stack'[Main][d] = stack[Main][d]
        BY <1>7, <3>1
      <3> QED
        BY <3>2 DEF StacksOK
    <2>3. \A u \in Workers : Depth(u)' <= 1 /\ (Depth(u)' = 1 => stack'[u][1].routine \in WorkerRoutines)
      <3> SUFFICES ASSUME NEW u \in Workers
                   PROVE  Depth(u)' <= 1 /\ (Depth(u)' = 1 => stack'[u][1].routine \in WorkerRoutines)
        OBVIOUS
      <3>1. u \in Threads /\ Depth(u) \in Nat /\ Depth(u) <= 1
        BY DepthIsNat DEF StacksOK, Threads
      <3>2. CASE u = t
        <4>1. Depth(u)' = 0
          BY <1>1, <1>6, <3>1, <3>2 DEF D
        <4> QED
          BY <4>1
      <3>3. CASE u # t
        BY <1>5, <3>1, <3>3 DEF StacksOK
      <3> QED
        BY <3>2, <3>3
    <2> QED
      BY <1>5, <2>1, <2>2, <2>3 DEF StacksOK
  <1> QED
    BY <1>4, <1>5, <1>6, <1>8 DEF D

\* A frame that has steps left stays where it is.
LEMMA GoesOn ==
  ASSUME StacksOK, NEW t \in Threads, NEW s, At(t, s),
         NEW n \in 1 .. Len(Routines[Top(t).routine]),
         NEW m \in {None, DRAIN, ABORT}, NEW o \in {None, Theirs, Ours},
         GoOn(t, StepsLeft(Top(t).routine, n), m, o)
  PROVE  /\ StacksOK'
         /\ \A u \in Threads : Depth(u)' = Depth(u)
         /\ LET g == stack'[t][Depth(t)]
            IN  /\ g.routine = Top(t).routine /\ Len(g.todo) = n
                /\ Head(g.todo) = StepAt(g.routine, n)
                /\ g.mode = m /\ g.original = o
         /\ \A d \in 1 .. Depth(t) - 1 : stack'[t][d] = stack[t][d]
         /\ \A u \in Threads \ {t} : stack'[u] = stack[u]
  <1> DEFINE D == Depth(t)
             f == Top(t)
             left == StepsLeft(f.routine, n)
             g == [f EXCEPT !.todo = left, !.mode = m, !.original = o]
             frames == [stack[t] EXCEPT ![D] = g]
  <1>1. /\ D \in Nat \ {0} /\ f = stack[t][D] /\ IsFrame(f) /\ f.routine \in RoutineNames
        /\ t \in Workers => D = 1 /\ f.routine \in WorkerRoutines
        /\ D > 1 => f.routine = "sigint"
    BY AtStep
  <1>2. stack[t] \in Seq(Frames) /\ D = Len(stack[t]) /\ stack \in [Threads -> Seq(Frames)]
    BY DEF StacksOK, Depth
  <1>3. left \in Seq(StepNames) /\ left # <<>> /\ Len(left) = n /\ Head(left) = StepAt(f.routine, n)
    BY <1>1, StepsLeftProperties
  <1>4. stack' = [stack EXCEPT ![t] = frames]
    BY <1>2, <1>3 DEF GoOn
  <1> HIDE DEF left
  <1>5. /\ g \in Frames /\ g.routine = f.routine /\ g.todo = left
        /\ g.mode = m /\ g.original = o
    BY <1>1, <1>3 DEF IsFrame, Frames
  <1>6. IsFrame(g)
    BY <1>3, <1>5 DEF IsFrame, left
  <1> HIDE DEF f, g
  <1>7. /\ frames \in Seq(Frames) /\ Len(frames) = D
        /\ \A d \in 1 .. D : frames[d] = IF d = D THEN g ELSE stack[t][d]
    BY <1>1, <1>2, <1>5, ExceptSeq
  <1> HIDE DEF frames
  <1>8. /\ stack' \in [Threads -> Seq(Frames)]
        /\ stack'[t] = frames
        /\ \A u \in Threads \ {t} : stack'[u] = stack[u]
    BY <1>2, <1>4, <1>7
  <1>9. \A u \in Threads : Depth(u)' = Depth(u)
    BY <1>7, <1>8 DEF Depth
  <1> HIDE DEF D
  <1>10. \A u \in Threads : \A d \in 1 .. Depth(u) :
           stack'[u][d] = IF u = t /\ d = D THEN g ELSE stack[u][d]
    BY <1>7, <1>8 DEF D
  <1>11. StacksOK'
    <2>1. \A u \in Threads : \A d \in 1 .. Depth(u)' : IsFrame(stack'[u][d])
      BY <1>6, <1>9, <1>10 DEF StacksOK
    <2>2. \A d \in 2 .. Depth(Main)' : stack'[Main][d].routine = "sigint"
      <3> SUFFICES ASSUME NEW d \in 2 .. Depth(Main)'
                   PROVE  stack'[Main][d].routine = "sigint"
        OBVIOUS
      <3>1. Main \in Threads
        BY DEF Threads
      <3>2. d \in 2 .. Depth(Main) /\ d \in 1 .. Depth(Main)
        BY <1>9, <3>1
      <3>3. CASE Main = t /\ d = D
        <4>1. D > 1
          BY <1>1, <3>2, <3>3
        <4> QED
          BY <1>1, <1>5, <1>10, <3>1, <3>2, <3>3, <4>1 DEF f
      <3>4. CASE ~(Main = t /\ d = D)
        BY <1>10, <3>1, <3>2, <3>4 DEF StacksOK
      <3> QED
        BY <3>3, <3>4
    <2>3. \A u \in Workers : Depth(u)' <= 1 /\ (Depth(u)' = 1 => stack'[u][1].routine \in WorkerRoutines)
      <3> SUFFICES ASSUME NEW u \in Workers
                   PROVE  Depth(u)' <= 1 /\ (Depth(u)' = 1 => stack'[u][1].routine \in WorkerRoutines)
        OBVIOUS
      <3>1. u \in Threads /\ Depth(u)' = Depth(u) /\ Depth(u) <= 1
        BY <1>9 DEF StacksOK, Threads
      <3>2. CASE u = t
        BY <1>1, <1>5, <1>10, <3>1, <3>2 DEF f, D
      <3>3. CASE u # t
        BY <1>8, <3>1, <3>3 DEF StacksOK
      <3> QED
        BY <3>2, <3>3
    <2> QED
      BY <1>8, <2>1, <2>2, <2>3 DEF StacksOK
  <1>12. stack'[t][D] = g
    BY <1>1, <1>10 DEF D
  <1>13. \A d \in 1 .. D - 1 : stack'[t][d] = stack[t][d]
    BY <1>1, <1>10 DEF D
  <1> QED
    BY <1>3, <1>5, <1>8, <1>9, <1>11, <1>12, <1>13 DEF D, f

\* The running frame of t comes to have k steps left, or returns if k is zero.
Goes(t, k, m, o) ==
  /\ StacksOK'
  /\ \A u \in Threads \ {t} : stack'[u] = stack[u] /\ Depth(u)' = Depth(u)
  /\ \A d \in 1 .. Depth(t) - 1 : stack'[t][d] = stack[t][d]
  /\ IF k = 0 THEN Depth(t)' = Depth(t) - 1
     ELSE LET g == stack'[t][Depth(t)]
          IN  /\ Depth(t)' = Depth(t)
              /\ g.routine = Top(t).routine /\ Len(g.todo) = k
              /\ Head(g.todo) = StepAt(g.routine, k)
              /\ g.mode = m /\ g.original = o

LEMMA TailGoes ==
  ASSUME StacksOK, NEW t \in Threads, NEW s, At(t, s),
         NEW m \in {None, DRAIN, ABORT}, NEW o \in {None, Theirs, Ours},
         GoOn(t, Tail(Top(t).todo), m, o),
         NEW k \in Nat, Len(Top(t).todo) = k + 1
  PROVE  Goes(t, k, m, o)
  <1>1. PICK r \in RoutineNames, i \in Nat :
          /\ r = Top(t).routine /\ Len(Top(t).todo) = i + 1
          /\ i + 1 \in 1 .. Len(Routines[r])
          /\ Tail(Top(t).todo) = IF i = 0 THEN <<>> ELSE StepsLeft(r, i)
    BY Place
  <1>2. /\ k + 1 \in 1 .. Len(Routines[r])
        /\ Tail(Top(t).todo) = IF k = 0 THEN <<>> ELSE StepsLeft(r, k)
    <2>1. i = k
      BY <1>1
    <2> QED
      BY <1>1, <2>1
  <1>3. Len(Routines[r]) \in Nat
    BY RoutinesAreSteps, LenProperties
  <1>4. CASE k = 0
    <2>1. Tail(Top(t).todo) = <<>>
      BY <1>2, <1>4
    <2>2. GoOn(t, <<>>, m, o)
      BY <2>1 DEF GoOn
    <2> QED
      BY <1>4, <2>2, Returns DEF Goes
  <1>5. CASE k # 0
    <2>1. k \in 1 .. Len(Routines[r])
      <3>1. PICK N \in Nat : N = Len(Routines[r])
        BY <1>3
      <3>2. k + 1 \in 1 .. N
        BY <1>2, <3>1
      <3>3. k \in 1 .. N
        BY <1>5, <3>2
      <3> QED
        BY <1>3, <3>1, <3>3
    <2>2. Tail(Top(t).todo) = StepsLeft(r, k)
      BY <1>2, <1>5
    <2>3. GoOn(t, StepsLeft(Top(t).routine, k), m, o)
      BY <1>1, <2>2 DEF GoOn
    <2> QED
      BY <1>1, <1>5, <2>1, <2>3, GoesOn DEF Goes
  <1> QED
    BY <1>4, <1>5

\* What the local variables of the running frame are.
LEMMA Locals ==
  ASSUME StacksOK, NEW t \in Threads, NEW s, At(t, s)
  PROVE  /\ Top(t).mode \in {None, DRAIN, ABORT}
         /\ Top(t).original \in {None, Theirs, Ours}
  BY AtStep DEF IsFrame, Frames

LEMMA AdvanceGoes ==
  ASSUME StacksOK, NEW t \in Threads, NEW s, At(t, s), Advance(t),
         NEW k \in Nat, Len(Top(t).todo) = k + 1
  PROVE  \E m \in {None, DRAIN, ABORT}, o \in {None, Theirs, Ours} :
           m = Top(t).mode /\ o = Top(t).original /\ Goes(t, k, m, o)
  <1>1. PICK m \in {None, DRAIN, ABORT} : m = Top(t).mode
    BY Locals
  <1>2. PICK o \in {None, Theirs, Ours} : o = Top(t).original
    BY Locals
  <1>3. GoOn(t, Tail(Top(t).todo), m, o)
    BY <1>1, <1>2 DEF Advance, GoOn
  <1>4. Goes(t, k, m, o)
    BY <1>3, TailGoes
  <1> QED
    BY <1>1, <1>2, <1>4

LEMMA EarlyReturnGoes ==
  ASSUME StacksOK, NEW t \in Threads, NEW s \in {"check_install", "check_restore"}, At(t, s),
         GoOn(t, <<"release_signal">>, Top(t).mode, Top(t).original)
  PROVE  \E m \in {None, DRAIN, ABORT}, o \in {None, Theirs, Ours} :
           m = Top(t).mode /\ o = Top(t).original /\ Goes(t, 1, m, o)
  <1>1. PICK m \in {None, DRAIN, ABORT} : m = Top(t).mode
    BY Locals
  <1>2. PICK o \in {None, Theirs, Ours} : o = Top(t).original
    BY Locals
  <1>3. PICK r \in {"install", "restore"} : r = Top(t).routine
    BY AtStep, StepPlaces
  <1>4. r \in RoutineNames
    BY <1>3 DEF RoutineNames, MainRoutines
  <1>5. PICK N \in Nat : N = Len(Routines[r]) /\ N >= 1
    BY <1>3, <1>4, RoutinesAreSteps, LenProperties
  <1>6. 1 \in 1 .. Len(Routines[r])
    <2>1. 1 \in 1 .. N
      BY <1>5
    <2> QED
      BY <1>5, <2>1
  <1>7. StepAt(r, 1) = "release_signal"
    BY <1>3, <1>4, <1>6, StepPlaces
  <1>8. StepsLeft(r, 1) = <<"release_signal">>
    <2>1. /\ StepsLeft(r, 1) \in Seq(StepNames) /\ Len(StepsLeft(r, 1)) = 1
          /\ Head(StepsLeft(r, 1)) = StepAt(r, 1)
      BY <1>4, <1>6, StepsLeftProperties
    <2> QED
      BY <1>7, <2>1
  <1>9. GoOn(t, StepsLeft(Top(t).routine, 1), m, o)
    BY <1>1, <1>2, <1>3, <1>8 DEF GoOn
  <1>10. Goes(t, 1, m, o)
    <2>1. 1 \in 1 .. Len(Routines[Top(t).routine])
      BY <1>3, <1>6
    <2> QED
      BY <1>9, <2>1, GoesOn, 1 # 0 DEF Goes
  <1> QED
    BY <1>1, <1>2, <1>10
-----------------------------------------------------------------------------
\* What the local variables of a frame have come to at its place.
Knows(f) ==
  /\ f.routine \in {DRAIN, ABORT} => f.mode = f.routine
  /\ f.routine = "sigint" =>
       /\ Len(f.todo) <= 8 => f.mode \in {DRAIN, ABORT}
       /\ Len(f.todo) <= 5 => shutting_down
       /\ Len(f.todo) <= 2 => f.original = Theirs

FramesKnow == \A t \in Threads : \A d \in 1 .. Depth(t) : Knows(stack[t][d])

\* The flag and the mode say the same.
ModeOK ==
  /\ shutting_down \in BOOLEAN
  /\ mode \in {None, DRAIN, ABORT}
  /\ shutting_down <=> mode # None

\* A lock is held by a frame between taking and releasing it.
LockOwned ==
  \/ lock = Free
  \/ \E t \in Threads : \E d \in 1 .. Depth(t) :
       lock = <<t, d>> /\ Head(stack[t][d].todo) \in {"look", "begin", "release"}

SignalSteps ==
  {"check_install", "save_original", "set_handler", "mark_installed", "check_restore",
   "reset_handler", "clear_installed", "read_original", "release_signal"}

SignalLockOwned ==
  \/ signal_lock = Free
  \/ \E t \in Threads : \E d \in 1 .. Depth(t) :
       signal_lock = <<t, d>> /\ Head(stack[t][d].todo) \in SignalSteps

\* What the handler's flag, the saved handler and the disposition are between two
\* calls of install and restore,
Settled ==
  IF installed THEN disposition = Ours /\ original = Theirs
  ELSE disposition = Theirs /\ original = None

\* and within one: only the first frame of the main thread can be in one, and
\* none of the handlers above it changes them.
InRoutine(routine, left) ==
  /\ Depth(Main) > 0
  /\ stack[Main][1].routine = routine
  /\ Len(stack[Main][1].todo) = left

Halfway == InRoutine("install", 3) \/ InRoutine("install", 2) \/ InRoutine("restore", 2)

HandlerOK ==
  /\ installed \in BOOLEAN
  /\ InRoutine("install", 4) => ~installed
  /\ InRoutine("install", 3) => ~installed /\ original = Theirs /\ disposition = Theirs
  /\ InRoutine("install", 2) => ~installed /\ original = Theirs /\ disposition = Ours
  /\ InRoutine("restore", 3) => installed
  /\ InRoutine("restore", 2) => installed /\ original = Theirs /\ disposition = Theirs
  /\ ~Halfway => Settled

\* A handler runs only while the disposition is ours: it was when the handler
\* started, and what could change it waits below.
HandlersFindOriginal == HandlerRunning => disposition = Ours /\ original = Theirs

\* The handlers on the stack.
Running ==
  IF Depth(Main) > 0 /\ stack[Main][1].routine # "sigint" THEN Depth(Main) - 1 ELSE Depth(Main)

\* Every handler is owed to a signal, and has forwarded it when it is done.
SignalsCount ==
  /\ pressed \in 0 .. MaxPresses /\ pending \in BOOLEAN
  /\ handled \in Nat /\ forwarded = handled
  /\ handled + Running + (IF pending THEN 1 ELSE 0) <= pressed

\* Once one handler has run, what the next one reads is its doing,
Second(f) ==
  f.routine = "sigint" =>
    /\ Len(f.todo) <= 8 => f.mode = ABORT
    /\ Len(f.todo) <= 5 => mode = ABORT

\* unless the next one started above it.
SecondAborts ==
  /\ nested \in BOOLEAN
  /\ handled >= 1 => shutting_down
  /\ ~nested =>
       /\ Running <= 1
       /\ handled >= 2 => mode = ABORT
       /\ handled >= 1 => \A d \in 1 .. Depth(Main) : Second(stack[Main][d])

ShutdownInv ==
  /\ StacksOK
  /\ FramesKnow
  /\ ModeOK
  /\ LockOwned
  /\ SignalLockOwned
  /\ HandlerOK
  /\ HandlersFindOriginal
  /\ SignalsCount
  /\ SecondAborts
-----------------------------------------------------------------------------
\* The frames of a step: the running one goes on or returns, the others wait.
LEMMA FramesStay ==
  ASSUME StacksOK, NEW t \in Threads, NEW s, At(t, s),
         NEW k \in Nat, NEW m, NEW o, Goes(t, k, m, o)
  PROVE  /\ \A u \in Threads : \A d \in 1 .. Depth(u) :
              (u = t /\ d = Depth(t)) \/ (d \in 1 .. Depth(u)' /\ stack'[u][d] = stack[u][d])
         /\ \A u \in Threads : \A d \in 1 .. Depth(u)' :
              \/ d \in 1 .. Depth(u) /\ stack'[u][d] = stack[u][d]
              \/ u = t /\ d = Depth(t) /\ k # 0
         /\ k # 0 => Depth(t) \in 1 .. Depth(t)'
  <1>1. Depth(t) \in Nat \ {0}
    BY AtStep
  <1>2. Depth(t)' = IF k = 0 THEN Depth(t) - 1 ELSE Depth(t)
    BY DEF Goes
  <1>3. \A u \in Threads \ {t} : stack'[u] = stack[u] /\ Depth(u)' = Depth(u)
    BY DEF Goes
  <1>4. \A d \in 1 .. Depth(t) - 1 : stack'[t][d] = stack[t][d]
    BY DEF Goes
  <1>5. \A u \in Threads : \A d \in 1 .. Depth(u) :
          (u = t /\ d = Depth(t)) \/ (d \in 1 .. Depth(u)' /\ stack'[u][d] = stack[u][d])
    BY <1>1, <1>2, <1>3, <1>4
  <1>6. \A u \in Threads : \A d \in 1 .. Depth(u)' :
          \/ d \in 1 .. Depth(u) /\ stack'[u][d] = stack[u][d]
          \/ u = t /\ d = Depth(t) /\ k # 0
    BY <1>1, <1>2, <1>3, <1>4
  <1>7. k # 0 => Depth(t) \in 1 .. Depth(t)'
    BY <1>1, <1>2
  <1> QED
    BY <1>5, <1>6, <1>7

\* A frame knows what it knew, and the running one what it has come to know.
LEMMA FramesLearn ==
  ASSUME StacksOK, FramesKnow, NEW t \in Threads, NEW s, At(t, s),
         NEW k \in Nat, NEW m, NEW o, Goes(t, k, m, o),
         shutting_down => shutting_down',
         NEW r, r = Top(t).routine,
         k # 0 /\ r \in {DRAIN, ABORT} => m = r,
         k # 0 /\ r = "sigint" =>
           /\ k <= 8 => m \in {DRAIN, ABORT}
           /\ k <= 5 => shutting_down'
           /\ k <= 2 => o = Theirs
  PROVE  FramesKnow'
  <1> SUFFICES ASSUME NEW u \in Threads, NEW d \in 1 .. Depth(u)'
               PROVE  Knows(stack[u][d])'
    BY DEF FramesKnow
  <1>1. CASE d \in 1 .. Depth(u) /\ stack'[u][d] = stack[u][d]
    BY <1>1 DEF FramesKnow, Knows
  <1>2. CASE u = t /\ d = Depth(t) /\ k # 0
    <2> DEFINE g == stack'[t][Depth(t)]
    <2>1. g.routine = r /\ Len(g.todo) = k /\ g.mode = m /\ g.original = o
      BY <1>2 DEF Goes
    <2>2. stack'[u][d] = g
      BY <1>2
    <2> HIDE DEF g
    <2> QED
      BY <1>2, <2>1, <2>2 DEF Knows
  <1> QED
    BY <1>1, <1>2, FramesStay

\* A lock stays with its frame as long as that frame is between the two steps.
LEMMA LockStays ==
  ASSUME StacksOK, LockOwned, NEW t \in Threads, NEW s, At(t, s), s # "release",
         NEW k \in Nat, NEW m, NEW o, Goes(t, k, m, o), lock' = lock,
         NEW r, r = Top(t).routine,
         s \in {"look", "begin"} => k # 0 /\ StepAt(r, k) \in {"look", "begin", "release"}
  PROVE  LockOwned'
  <1>1. CASE lock = Free
    BY <1>1 DEF LockOwned
  <1>2. CASE lock # Free
    <2>1. PICK u \in Threads : \E d \in 1 .. Depth(u) :
            lock = <<u, d>> /\ Head(stack[u][d].todo) \in {"look", "begin", "release"}
      BY <1>2 DEF LockOwned
    <2>2. PICK d \in 1 .. Depth(u) :
            lock = <<u, d>> /\ Head(stack[u][d].todo) \in {"look", "begin", "release"}
      BY <2>1
    <2>3. CASE u = t /\ d = Depth(t)
      <3>1. s \in {"look", "begin"}
        BY <2>2, <2>3 DEF At, Top
      <3>2. Head(stack'[t][Depth(t)].todo) = StepAt(r, k) /\ k # 0
        BY <3>1 DEF Goes
      <3>3. Depth(t) \in 1 .. Depth(t)'
        BY <3>2, FramesStay
      <3> QED
        BY <2>2, <2>3, <3>1, <3>2, <3>3 DEF LockOwned
    <2>4. CASE d \in 1 .. Depth(u)' /\ stack'[u][d] = stack[u][d]
      BY <2>2, <2>4 DEF LockOwned
    <2> QED
      BY <2>3, <2>4, FramesStay
  <1> QED
    BY <1>1, <1>2

LEMMA SignalLockStays ==
  ASSUME StacksOK, SignalLockOwned, NEW t \in Threads, NEW s, At(t, s), s # "release_signal",
         NEW k \in Nat, NEW m, NEW o, Goes(t, k, m, o), signal_lock' = signal_lock,
         NEW r, r = Top(t).routine,
         s \in SignalSteps => k # 0 /\ StepAt(r, k) \in SignalSteps
  PROVE  SignalLockOwned'
  <1>1. CASE signal_lock = Free
    BY <1>1 DEF SignalLockOwned
  <1>2. CASE signal_lock # Free
    <2>1. PICK u \in Threads : \E d \in 1 .. Depth(u) :
            signal_lock = <<u, d>> /\ Head(stack[u][d].todo) \in SignalSteps
      BY <1>2 DEF SignalLockOwned
    <2>2. PICK d \in 1 .. Depth(u) :
            signal_lock = <<u, d>> /\ Head(stack[u][d].todo) \in SignalSteps
      BY <2>1
    <2>3. CASE u = t /\ d = Depth(t)
      <3>1. s \in SignalSteps
        BY <2>2, <2>3 DEF At, Top
      <3>2. Head(stack'[t][Depth(t)].todo) = StepAt(r, k) /\ k # 0
        BY <3>1 DEF Goes
      <3>3. Depth(t) \in 1 .. Depth(t)'
        BY <3>2, FramesStay
      <3> QED
        BY <2>2, <2>3, <3>1, <3>2, <3>3 DEF SignalLockOwned
    <2>4. CASE d \in 1 .. Depth(u)' /\ stack'[u][d] = stack[u][d]
      BY <2>2, <2>4 DEF SignalLockOwned
    <2> QED
      BY <2>3, <2>4, FramesStay
  <1> QED
    BY <1>1, <1>2

\* What a step does to the first frame of the main thread, where install and
\* restore run, and to the number of handlers above or in it.
LEMMA FirstFrame ==
  ASSUME StacksOK, NEW t \in Threads, NEW s, At(t, s),
         NEW k \in Nat, NEW m, NEW o, Goes(t, k, m, o), NEW r, r = Top(t).routine
  PROVE  /\ Depth(Main) \in Nat /\ Depth(Main)' \in Nat
         /\ \/ /\ t # Main \/ Depth(Main) > 1
               /\ Depth(Main) > 0 =>
                    Depth(Main)' > 0 /\ stack'[Main][1] = stack[Main][1]
               /\ Depth(Main) = 0 => Depth(Main)' = 0
               /\ r \notin {"install", "restore"}
            \/ /\ t = Main /\ Depth(Main) = 1 /\ r = stack[Main][1].routine
               /\ IF k = 0 THEN Depth(Main)' = 0
                  ELSE /\ Depth(Main)' = 1
                       /\ stack'[Main][1].routine = r /\ Len(stack'[Main][1].todo) = k
         /\ r = "sigint" => t = Main
         /\ t = Main /\ Depth(Main) > 1 => r = "sigint"
         /\ Depth(Main)' = IF t = Main /\ k = 0 THEN Depth(Main) - 1 ELSE Depth(Main)
  <1> DEFINE D == Depth(Main)
  <1>1. Main \in Threads /\ (t = Main \/ t \in Workers)
    BY DEF Threads
  <1>2. /\ D \in Nat /\ D' \in Nat
    BY <1>1, DepthIsNat DEF Goes, StacksOK, Depth
  <1>3. /\ r \in RoutineNames /\ (t = Main => D > 0) /\ Top(t) = stack[t][Depth(t)]
        /\ t \in Workers => r \in WorkerRoutines
        /\ Depth(t) > 1 => r = "sigint"
    BY AtStep
  <1>4. Depth(t)' = IF k = 0 THEN Depth(t) - 1 ELSE Depth(t)
    BY DEF Goes
  <1>5. CASE t # Main
    <2>1. stack'[Main] = stack[Main] /\ D' = D
      BY <1>1, <1>5 DEF Goes
    <2>2. r \notin {"sigint", "install", "restore"}
      BY <1>1, <1>3, <1>5 DEF WorkerRoutines
    <2> HIDE DEF D
    <2> QED
      BY <1>2, <1>5, <2>1, <2>2 DEF D
  <1>6. CASE t = Main /\ D > 1
    <2>1. r = "sigint"
      BY <1>3, <1>6
    <2>2. stack'[Main][1] = stack[Main][1]
      <3>1. 1 \in 1 .. D - 1
        BY <1>2, <1>6
      <3> QED
        BY <1>6, <3>1 DEF Goes
    <2>3. D' = IF k = 0 THEN D - 1 ELSE D
      BY <1>4, <1>6
    <2> HIDE DEF D
    <2>4. D' > 0 /\ ~(D = 0)
      BY <1>2, <1>6, <2>3
    <2> QED
      BY <1>2, <1>6, <2>1, <2>2, <2>3, <2>4 DEF D
  <1>7. CASE t = Main /\ D = 1
    <2>1. r = stack[Main][1].routine
      BY <1>3, <1>7
    <2>2. k = 0 => D' = 0
      BY <1>4, <1>7
    <2>3. k # 0 => D' = 1 /\ stack'[Main][1].routine = r /\ Len(stack'[Main][1].todo) = k
      BY <1>7 DEF Goes
    <2> HIDE DEF D
    <2> QED
      BY <1>2, <1>7, <2>1, <2>2, <2>3 DEF D
  <1> QED
    BY <1>2, <1>3, <1>5, <1>6, <1>7

LEMMA RunningStays ==
  ASSUME StacksOK, NEW t \in Threads, NEW s, At(t, s),
         NEW k \in Nat, NEW m, NEW o, Goes(t, k, m, o), NEW r, r = Top(t).routine
  PROVE  Running' = IF r = "sigint" /\ k = 0 THEN Running - 1 ELSE Running
  <1>1. CASE t # Main \/ Depth(Main) > 1
    BY <1>1, FirstFrame DEF Running
  <1>2. CASE t = Main /\ Depth(Main) = 1
    BY <1>2, FirstFrame DEF Running
  <1>3. t = Main => Depth(Main) > 0 /\ Depth(Main) \in Nat
    BY AtStep
  <1> QED
    BY <1>1, <1>2, <1>3

\* The steps other than those of install and restore leave these where they are.
LEMMA RoutineStays ==
  ASSUME StacksOK, NEW t \in Threads, NEW s, At(t, s),
         NEW k \in Nat, NEW m, NEW o, Goes(t, k, m, o), NEW r, r = Top(t).routine,
         r \notin {"install", "restore"},
         NEW x \in {"install", "restore"}, NEW l
  PROVE  InRoutine(x, l)' = InRoutine(x, l)
  <1>1. CASE t # Main \/ Depth(Main) > 1
    BY <1>1, FirstFrame DEF InRoutine
  <1>2. CASE t = Main /\ Depth(Main) = 1
    BY <1>2, FirstFrame DEF InRoutine
  <1>3. t = Main => Depth(Main) > 0 /\ Depth(Main) \in Nat
    BY AtStep
  <1> QED
    BY <1>1, <1>2, <1>3

\* The steps of install and restore are those of the main thread's one frame.
LEMMA RoutineMoves ==
  ASSUME StacksOK, NEW t \in Threads, NEW s, At(t, s),
         NEW k \in Nat, NEW m, NEW o, Goes(t, k, m, o), NEW r, r = Top(t).routine,
         r \in {"install", "restore"}, NEW n \in Nat, n = Len(Top(t).todo)
  PROVE  /\ Depth(Main) = 1 /\ stack[Main][1].routine = r /\ Len(stack[Main][1].todo) = n
         /\ IF k = 0 THEN Depth(Main)' = 0
            ELSE /\ Depth(Main)' = 1
                 /\ stack'[Main][1].routine = r /\ Len(stack'[Main][1].todo) = k
         /\ ~HandlerRunning'
  <1>1. t = Main /\ Depth(Main) = 1 /\ r = stack[Main][1].routine
    BY FirstFrame, AtStep
  <1>2. Top(t) = stack[Main][1]
    BY <1>1, AtStep
  <1>3. IF k = 0 THEN Depth(Main)' = 0
        ELSE /\ Depth(Main)' = 1
             /\ stack'[Main][1].routine = r /\ Len(stack'[Main][1].todo) = k
    BY <1>1, FirstFrame
  <1>4. ~HandlerRunning'
    BY <1>3 DEF HandlerRunning
  <1> QED
    BY <1>1, <1>2, <1>3, <1>4

LEMMA HandlerUntouched ==
  ASSUME StacksOK, HandlerOK, HandlersFindOriginal, NEW t \in Threads, NEW s, At(t, s),
         NEW k \in Nat, NEW m, NEW o, Goes(t, k, m, o), NEW r, r = Top(t).routine,
         r \notin {"install", "restore"}, UNCHANGED handler
  PROVE  HandlerOK' /\ HandlersFindOriginal'
  <1>1. HandlerOK'
    BY RoutineStays DEF HandlerOK, Halfway, Settled, handler
  <1>2. HandlerRunning' => HandlerRunning
    <2> SUFFICES ASSUME NEW d \in 1 .. Depth(Main)', stack'[Main][d].routine = "sigint"
                 PROVE  HandlerRunning
      BY DEF HandlerRunning
    <2>1. Main \in Threads
      BY DEF Threads
    <2>2. CASE d \in 1 .. Depth(Main) /\ stack'[Main][d] = stack[Main][d]
      BY <2>2 DEF HandlerRunning
    <2>3. CASE Main = t /\ d = Depth(t) /\ k # 0
      <3>1. stack[Main][d].routine = "sigint"
        BY <2>3 DEF Goes, Top
      <3>2. d \in 1 .. Depth(Main)
        BY <2>1, <2>3, AtStep
      <3> QED
        BY <3>1, <3>2 DEF HandlerRunning
    <2> QED
      BY <2>1, <2>2, <2>3, FramesStay
  <1> QED
    BY <1>1, <1>2 DEF HandlersFindOriginal, handler

ReturnsEarly(t, s) ==
  /\ s \in {"check_install", "check_restore"}
  /\ GoOn(t, <<"release_signal">>, Top(t).mode, Top(t).original)

\* The steps that neither pick a mode, nor act on it, nor read or call the
\* original handler leave what a frame knows alone.
LEMMA PlainStep ==
  ASSUME StacksOK, NEW t \in Threads, NEW s, At(t, s),
         s \notin {"look", "begin", "read_original", "forward"},
         Advance(t) \/ ReturnsEarly(t, s)
  PROVE  \E r \in RoutineNames, n \in Nat, k \in Nat,
            m \in {None, DRAIN, ABORT}, o \in {None, Theirs, Ours} :
           /\ r = Top(t).routine /\ n = Len(Top(t).todo)
           /\ m = Top(t).mode /\ o = Top(t).original
           /\ n \in 1 .. Len(Routines[r]) /\ StepAt(r, n) = s
           /\ Goes(t, k, m, o)
           /\ s \notin {"check_install", "check_restore"} => n = k + 1
           /\ IF ReturnsEarly(t, s) THEN k = 1 ELSE n = k + 1
           /\ r = "sigint" => n = k + 1 /\ n \notin {1, 3, 6, 9}
  <1>1. PICK r \in RoutineNames, i \in Nat :
          /\ r = Top(t).routine /\ Len(Top(t).todo) = i + 1
          /\ i + 1 \in 1 .. Len(Routines[r]) /\ StepAt(r, i + 1) = s
    BY Place
  <1>2. PICK n \in Nat : n = i + 1
    BY <1>1
  <1>3. n = Len(Top(t).todo) /\ n \in 1 .. Len(Routines[r]) /\ StepAt(r, n) = s
    BY <1>1, <1>2
  <1>4. r = "sigint" => n \notin {1, 3, 6, 9}
    BY <1>3, HandlerSteps
  <1>5. s \in {"check_install", "check_restore"} => r # "sigint"
    BY <1>3, StepPlaces
  <1>6. CASE ReturnsEarly(t, s)
    <2>1. s \in {"check_install", "check_restore"}
      BY <1>6 DEF ReturnsEarly
    <2>2. PICK m \in {None, DRAIN, ABORT}, o \in {None, Theirs, Ours} :
            m = Top(t).mode /\ o = Top(t).original /\ Goes(t, 1, m, o)
      BY <1>6, <2>1, EarlyReturnGoes DEF ReturnsEarly
    <2> QED
      BY <1>1, <1>3, <1>5, <1>6, <2>1, <2>2
  <1>7. CASE ~ReturnsEarly(t, s)
    <2>1. PICK m \in {None, DRAIN, ABORT}, o \in {None, Theirs, Ours} :
            m = Top(t).mode /\ o = Top(t).original /\ Goes(t, i, m, o)
      BY <1>1, <1>7, AdvanceGoes
    <2> QED
      BY <1>1, <1>2, <1>3, <1>4, <1>7, <2>1
  <1> QED
    BY <1>6, <1>7

LEMMA SecondLearns ==
  ASSUME StacksOK, SecondAborts, NEW t \in Threads, NEW s, At(t, s),
         NEW k \in Nat, NEW m, NEW o, Goes(t, k, m, o), NEW r, r = Top(t).routine,
         UNCHANGED <<nested, handled>>,
         k = 0 => r # "sigint",
         shutting_down => shutting_down',
         mode = ABORT => mode' = ABORT,
         k # 0 /\ r = "sigint" /\ handled >= 1 /\ ~nested =>
           /\ k <= 8 => m = ABORT
           /\ k <= 5 => mode' = ABORT
  PROVE  SecondAborts'
  <1>1. Running' = Running
    BY RunningStays
  <1>2. ASSUME handled >= 1, ~nested, NEW d \in 1 .. Depth(Main)'
        PROVE  Second(stack[Main][d])'
    <2>1. Main \in Threads
      BY DEF Threads
    <2>2. CASE d \in 1 .. Depth(Main) /\ stack'[Main][d] = stack[Main][d]
      BY <1>2, <2>2 DEF SecondAborts, Second
    <2>3. CASE Main = t /\ d = Depth(t) /\ k # 0
      <3> DEFINE g == stack'[t][Depth(t)]
      <3>1. g.routine = r /\ Len(g.todo) = k /\ g.mode = m
        BY <2>3 DEF Goes
      <3>2. stack'[Main][d] = g
        BY <2>3
      <3> HIDE DEF g
      <3> QED
        BY <1>2, <2>3, <3>1, <3>2 DEF Second
    <2> QED
      BY <2>1, <2>2, <2>3, FramesStay
  <1> QED
    BY <1>1, <1>2 DEF SecondAborts

LEMMA CountsStay ==
  ASSUME StacksOK, SignalsCount, NEW t \in Threads, NEW s, At(t, s),
         NEW k \in Nat, NEW m, NEW o, Goes(t, k, m, o), NEW r, r = Top(t).routine,
         UNCHANGED <<pressed, pending, handled, forwarded>>,
         k = 0 => r # "sigint"
  PROVE  SignalsCount'
  <1>1. Running' = Running
    BY RunningStays
  <1> QED
    BY <1>1 DEF SignalsCount

LEMMA PlainKeeps ==
  ASSUME StacksOK, FramesKnow, ModeOK, SignalsCount, SecondAborts,
         NEW t \in Threads, NEW s, At(t, s),
         s \notin {"look", "begin", "read_original", "forward"},
         Advance(t) \/ ReturnsEarly(t, s),
         UNCHANGED <<coordinator, signals, counts>>
  PROVE  FramesKnow' /\ ModeOK' /\ SignalsCount' /\ SecondAborts'
  <1>1. PICK r \in RoutineNames, n \in Nat, k \in Nat,
             m \in {None, DRAIN, ABORT}, o \in {None, Theirs, Ours} :
          /\ r = Top(t).routine /\ n = Len(Top(t).todo)
          /\ m = Top(t).mode /\ o = Top(t).original
          /\ Goes(t, k, m, o)
          /\ r = "sigint" => n = k + 1 /\ n \notin {1, 3, 6, 9}
    BY PlainStep
  <1>2. /\ shutting_down' = shutting_down /\ mode' = mode
        /\ UNCHANGED <<pressed, pending, nested, handled, forwarded>>
    BY DEF coordinator, signals, counts
  <1>3. Top(t) = stack[t][Depth(t)] /\ Depth(t) \in 1 .. Depth(t)
    BY AtStep
  <1>4. Knows(Top(t))
    BY <1>3 DEF FramesKnow
  <1>5. r = "sigint" =>
          /\ k # 0
          /\ k <= 8 => n <= 8
          /\ k <= 5 => n <= 5
          /\ k <= 2 => n <= 2
    <2> SUFFICES ASSUME r = "sigint"
                 PROVE  k # 0 /\ (k <= 8 => n <= 8) /\ (k <= 5 => n <= 5) /\ (k <= 2 => n <= 2)
      OBVIOUS
    <2>1. n = k + 1 /\ n # 1 /\ n # 3 /\ n # 6 /\ n # 9
      BY <1>1
    <2> QED
      BY <2>1
  <1>6. /\ r \in {DRAIN, ABORT} => m = r
        /\ r = "sigint" =>
             /\ n <= 8 => m \in {DRAIN, ABORT}
             /\ n <= 5 => shutting_down
             /\ n <= 2 => o = Theirs
    BY <1>1, <1>4 DEF Knows
  <1>7. FramesKnow'
    BY <1>1, <1>2, <1>5, <1>6, FramesLearn
  <1>8. ModeOK'
    BY <1>2 DEF ModeOK
  <1>9. SignalsCount'
    BY <1>1, <1>2, <1>5, CountsStay
  <1>10. r = "sigint" /\ handled >= 1 /\ ~nested =>
           (n <= 8 => m = ABORT) /\ (n <= 5 => mode = ABORT)
    <2> SUFFICES ASSUME r = "sigint", handled >= 1, ~nested
                 PROVE  (n <= 8 => m = ABORT) /\ (n <= 5 => mode = ABORT)
      OBVIOUS
    <2>1. t = Main
      BY <1>1, FirstFrame
    <2>2. Second(Top(t))
      BY <1>3, <2>1 DEF SecondAborts
    <2> QED
      BY <1>1, <2>2 DEF Second
  <1>11. SecondAborts'
    BY <1>1, <1>2, <1>5, <1>10, SecondLearns
  <1> QED
    BY <1>7, <1>8, <1>9, <1>11

LEMMA TakeKeeps ==
  ASSUME ShutdownInv, NEW t \in Threads, Take(t)
  PROVE  ShutdownInv'
  <1> USE DEF ShutdownInv
  <1>1. At(t, "take") /\ Advance(t)
    BY DEF Take
  <1>2. PICK r \in RoutineNames, n \in Nat, k \in Nat,
             m \in {None, DRAIN, ABORT}, o \in {None, Theirs, Ours} :
          /\ r = Top(t).routine /\ n \in 1 .. Len(Routines[r]) /\ StepAt(r, n) = "take"
          /\ Goes(t, k, m, o) /\ n = k + 1
    BY <1>1, PlainStep
  <1>3. <<r, n>> \in {<<"observe", 2>>, <<"drain", 3>>, <<"abort", 3>>, <<"sigint", 10>>, <<"sigint", 7>>}
    BY <1>2, StepPlaces
  <1>4. /\ r \notin {"install", "restore"} /\ k # 0
        /\ StepAt(r, k) \in {"look", "begin", "release"}
    BY <1>2, <1>3, HandlerSteps, OtherSteps
  <1>5. FramesKnow' /\ ModeOK' /\ SignalsCount' /\ SecondAborts'
    BY <1>1, PlainKeeps DEF Take
  <1>6. StacksOK'
    BY <1>2 DEF Goes
  <1>7. LockOwned'
    <2>1. Depth(t) \in 1 .. Depth(t)'
      BY <1>1, <1>2, <1>4, FramesStay
    <2>2. Head(stack'[t][Depth(t)].todo) = StepAt(r, k)
      BY <1>2, <1>4 DEF Goes
    <2>3. lock' = <<t, Depth(t)>>
      BY DEF Take, This
    <2> QED
      BY <1>4, <2>1, <2>2, <2>3 DEF LockOwned
  <1>8. SignalLockOwned'
    BY <1>1, <1>2, SignalLockStays DEF Take, SignalSteps
  <1>9. HandlerOK' /\ HandlersFindOriginal'
    BY <1>1, <1>2, <1>4, HandlerUntouched DEF Take
  <1> QED
    BY <1>5, <1>6, <1>7, <1>8, <1>9

LEMMA ReleaseKeeps ==
  ASSUME ShutdownInv, NEW t \in Threads, Release(t)
  PROVE  ShutdownInv'
  <1> USE DEF ShutdownInv
  <1>1. At(t, "release") /\ Advance(t)
    BY DEF Release
  <1>2. PICK r \in RoutineNames, n \in Nat, k \in Nat,
             m \in {None, DRAIN, ABORT}, o \in {None, Theirs, Ours} :
          /\ r = Top(t).routine /\ n \in 1 .. Len(Routines[r]) /\ StepAt(r, n) = "release"
          /\ Goes(t, k, m, o)
    BY <1>1, PlainStep
  <1>3. r \notin {"install", "restore"}
    BY <1>2, StepPlaces
  <1>4. FramesKnow' /\ ModeOK' /\ SignalsCount' /\ SecondAborts'
    BY <1>1, PlainKeeps DEF Release
  <1>5. StacksOK'
    BY <1>2 DEF Goes
  <1>6. LockOwned'
    BY DEF LockOwned, Release
  <1>7. SignalLockOwned'
    BY <1>1, <1>2, SignalLockStays DEF Release, SignalSteps
  <1>8. HandlerOK' /\ HandlersFindOriginal'
    BY <1>1, <1>2, <1>3, HandlerUntouched DEF Release
  <1> QED
    BY <1>4, <1>5, <1>6, <1>7, <1>8

LEMMA TakeSignalKeeps ==
  ASSUME ShutdownInv, NEW t \in Threads, TakeSignal(t)
  PROVE  ShutdownInv'
  <1> USE DEF ShutdownInv
  <1>1. At(t, "take_signal") /\ Advance(t)
    BY DEF TakeSignal
  <1>2. PICK r \in RoutineNames, n \in Nat, k \in Nat,
             m \in {None, DRAIN, ABORT}, o \in {None, Theirs, Ours} :
          /\ r = Top(t).routine /\ n = Len(Top(t).todo)
          /\ n \in 1 .. Len(Routines[r]) /\ StepAt(r, n) = "take_signal"
          /\ Goes(t, k, m, o) /\ n = k + 1
    BY <1>1, PlainStep
  <1>3. \/ r = "install" /\ n = 6 /\ k = 5
        \/ r = "restore" /\ n = 5 /\ k = 4
        \/ r = "sigint" /\ n = 4 /\ k = 3
    <2>1. n \in 1 .. Len(Routines[r]) /\ StepAt(r, n) = "take_signal"
      BY <1>2
    <2>2. <<r, n>> \in {<<"install", 6>>, <<"restore", 5>>, <<"sigint", 4>>}
      BY <2>1, StepPlaces
    <2>3. n = k + 1
      BY <1>2
    <2> QED
      BY <2>2, <2>3
  <1>4. k # 0 /\ StepAt(r, k) \in SignalSteps
    BY <1>3, HandlerSteps, OtherSteps DEF SignalSteps
  <1>5. FramesKnow' /\ ModeOK' /\ SignalsCount' /\ SecondAborts'
    BY <1>1, PlainKeeps DEF TakeSignal
  <1>6. StacksOK'
    BY <1>2 DEF Goes
  <1>7. SignalLockOwned'
    <2>1. Depth(t) \in 1 .. Depth(t)'
      BY <1>1, <1>2, <1>4, FramesStay
    <2>2. Head(stack'[t][Depth(t)].todo) = StepAt(r, k)
      BY <1>2, <1>4 DEF Goes
    <2>3. signal_lock' = <<t, Depth(t)>>
      BY DEF TakeSignal, This
    <2> QED
      BY <1>4, <2>1, <2>2, <2>3 DEF SignalLockOwned
  <1>8. LockOwned'
    BY <1>1, <1>2, LockStays DEF TakeSignal
  <1>9. CASE r = "sigint"
    BY <1>1, <1>2, <1>5, <1>6, <1>7, <1>8, <1>9, HandlerUntouched DEF TakeSignal
  <1>10. CASE r \in {"install", "restore"}
    <2>1. /\ Depth(Main) = 1 /\ stack[Main][1].routine = r /\ Len(stack[Main][1].todo) = n
          /\ Depth(Main)' = 1 /\ stack'[Main][1].routine = r /\ Len(stack'[Main][1].todo) = k
          /\ ~HandlerRunning'
      BY <1>1, <1>2, <1>4, <1>10, RoutineMoves
    <2>2. HandlerOK'
      BY <1>3, <1>10, <2>1 DEF HandlerOK, Halfway, InRoutine, Settled, TakeSignal, handler
    <2> QED
      BY <1>5, <1>6, <1>7, <1>8, <2>1, <2>2 DEF HandlersFindOriginal
  <1> QED
    BY <1>3, <1>9, <1>10

LEMMA ReleaseSignalKeeps ==
  ASSUME ShutdownInv, NEW t \in Threads, ReleaseSignal(t)
  PROVE  ShutdownInv'
  <1> USE DEF ShutdownInv
  <1>1. At(t, "release_signal") /\ Advance(t)
    BY DEF ReleaseSignal
  <1>2. PICK r \in RoutineNames, n \in Nat, k \in Nat,
             m \in {None, DRAIN, ABORT}, o \in {None, Theirs, Ours} :
          /\ r = Top(t).routine /\ n = Len(Top(t).todo)
          /\ n \in 1 .. Len(Routines[r]) /\ StepAt(r, n) = "release_signal"
          /\ Goes(t, k, m, o) /\ n = k + 1
    BY <1>1, PlainStep
  <1>3. \/ r \in {"install", "restore"} /\ n = 1 /\ k = 0
        \/ r = "sigint"
    <2>1. n \in 1 .. Len(Routines[r]) /\ StepAt(r, n) = "release_signal"
      BY <1>2
    <2>2. <<r, n>> \in {<<"install", 1>>, <<"restore", 1>>, <<"sigint", 2>>}
      BY <2>1, StepPlaces
    <2>3. n = k + 1
      BY <1>2
    <2> QED
      BY <2>2, <2>3
  <1>4. FramesKnow' /\ ModeOK' /\ SignalsCount' /\ SecondAborts'
    BY <1>1, PlainKeeps DEF ReleaseSignal
  <1>5. StacksOK'
    BY <1>2 DEF Goes
  <1>6. SignalLockOwned'
    BY DEF SignalLockOwned, ReleaseSignal
  <1>7. LockOwned'
    BY <1>1, <1>2, LockStays DEF ReleaseSignal
  <1>8. CASE r = "sigint"
    BY <1>1, <1>2, <1>4, <1>5, <1>6, <1>7, <1>8, HandlerUntouched DEF ReleaseSignal
  <1>9. CASE r \in {"install", "restore"}
    <2>1. /\ Depth(Main) = 1 /\ stack[Main][1].routine = r /\ Len(stack[Main][1].todo) = 1
          /\ Depth(Main)' = 0
          /\ ~HandlerRunning'
      BY <1>1, <1>2, <1>3, <1>9, RoutineMoves
    <2>2. HandlerOK'
      BY <2>1 DEF HandlerOK, Halfway, InRoutine, Settled, ReleaseSignal, handler
    <2> QED
      BY <1>4, <1>5, <1>6, <1>7, <2>1, <2>2 DEF HandlersFindOriginal
  <1> QED
    BY <1>3, <1>8, <1>9

\* What the steps of install and restore between the lock operations have in
\* common: they leave all but the handler alone.
LEMMA RoutineStep ==
  ASSUME ShutdownInv, NEW t \in Threads, NEW s, At(t, s),
         s \in {"check_install", "save_original", "set_handler", "mark_installed",
                "check_restore", "reset_handler", "clear_installed"},
         Advance(t) \/ ReturnsEarly(t, s),
         UNCHANGED <<coordinator, locks, signals, counts>>
  PROVE  /\ StacksOK' /\ FramesKnow' /\ ModeOK' /\ LockOwned' /\ SignalLockOwned'
         /\ HandlersFindOriginal' /\ SignalsCount' /\ SecondAborts'
         /\ \E n \in Nat, k \in Nat :
              /\ IF ReturnsEarly(t, s) THEN k = 1 ELSE n = k + 1
              /\ \/ /\ InRoutine("install", n) /\ InRoutine("install", k)'
                    /\ s = "check_install" => n = 5
                    /\ s = "save_original" => n = 4
                    /\ s = "set_handler" => n = 3
                    /\ s = "mark_installed" => n = 2
                    /\ s \notin {"check_restore", "reset_handler", "clear_installed"}
                 \/ /\ InRoutine("restore", n) /\ InRoutine("restore", k)'
                    /\ s = "check_restore" => n = 4
                    /\ s = "reset_handler" => n = 3
                    /\ s = "clear_installed" => n = 2
                    /\ s \in {"check_restore", "reset_handler", "clear_installed"}
  <1> USE DEF ShutdownInv
  <1>1. PICK r \in RoutineNames, n \in Nat, k \in Nat,
             m \in {None, DRAIN, ABORT}, o \in {None, Theirs, Ours} :
          /\ r = Top(t).routine /\ n = Len(Top(t).todo)
          /\ n \in 1 .. Len(Routines[r]) /\ StepAt(r, n) = s
          /\ Goes(t, k, m, o)
          /\ IF ReturnsEarly(t, s) THEN k = 1 ELSE n = k + 1
    BY PlainStep
  <1>2. /\ s = "check_install" => r = "install" /\ n = 5
        /\ s = "save_original" => r = "install" /\ n = 4
        /\ s = "set_handler" => r = "install" /\ n = 3
        /\ s = "mark_installed" => r = "install" /\ n = 2
        /\ s = "check_restore" => r = "restore" /\ n = 4
        /\ s = "reset_handler" => r = "restore" /\ n = 3
        /\ s = "clear_installed" => r = "restore" /\ n = 2
    <2>1. n \in 1 .. Len(Routines[r]) /\ StepAt(r, n) = s
      BY <1>1
    <2> QED
      BY <2>1, StepPlaces
  <1>3. \/ r = "install" /\ n \in 2 .. 5
        \/ r = "restore" /\ n \in 2 .. 4
    BY <1>2
  <1>4. k = 1 \/ k + 1 = n
    BY <1>1
  <1>5. k # 0 /\ StepAt(r, k) \in SignalSteps
    <2>1. \/ r = "install" /\ k \in 1 .. 4
          \/ r = "restore" /\ k \in 1 .. 3
      BY <1>3, <1>4
    <2> QED
      BY <2>1, OtherSteps DEF SignalSteps
  <1>6. StacksOK'
    BY <1>1 DEF Goes
  <1>7. FramesKnow' /\ ModeOK' /\ SignalsCount' /\ SecondAborts'
    BY PlainKeeps
  <1>8. LockOwned'
    BY <1>1, LockStays DEF locks
  <1>9. SignalLockOwned'
    BY <1>1, <1>5, SignalLockStays DEF locks, SignalSteps
  <1>10. /\ Depth(Main) = 1 /\ stack[Main][1].routine = r /\ Len(stack[Main][1].todo) = n
         /\ Depth(Main)' = 1 /\ stack'[Main][1].routine = r /\ Len(stack'[Main][1].todo) = k
         /\ ~HandlerRunning'
    BY <1>1, <1>3, <1>5, RoutineMoves
  <1>11. HandlersFindOriginal'
    BY <1>10 DEF HandlersFindOriginal
  <1>12. InRoutine(r, n) /\ InRoutine(r, k)'
    BY <1>10 DEF InRoutine
  <1> QED
    BY <1>1, <1>2, <1>3, <1>6, <1>7, <1>8, <1>9, <1>10, <1>11, <1>12

LEMMA CheckInstallKeeps ==
  ASSUME ShutdownInv, NEW t \in Threads, CheckInstall(t)
  PROVE  ShutdownInv'
  <1>1. At(t, "check_install") /\ UNCHANGED <<coordinator, handler, locks, signals, counts>>
    BY DEF CheckInstall
  <1>2. IF installed THEN ReturnsEarly(t, "check_install") ELSE Advance(t)
    BY DEF CheckInstall, ReturnsEarly, Advance, GoOn
  <1>3. InRoutine("install", 5) /\ (InRoutine("install", 1)' \/ (~installed /\ InRoutine("install", 4)'))
    <2>1. PICK n \in Nat, k \in Nat :
            /\ n = 5 /\ IF ReturnsEarly(t, "check_install") THEN k = 1 ELSE n = k + 1
            /\ InRoutine("install", n) /\ InRoutine("install", k)'
      BY <1>1, <1>2, RoutineStep
    <2>2. n = 5 /\ (k = 1 \/ (~installed /\ k = 4))
      BY <1>2, <2>1
    <2> QED
      BY <2>1, <2>2
  <1>4. HandlerOK'
    BY <1>1, <1>3 DEF ShutdownInv, HandlerOK, Halfway, InRoutine, Settled, handler
  <1> QED
    BY <1>1, <1>2, <1>4, RoutineStep DEF ShutdownInv

LEMMA SaveOriginalKeeps ==
  ASSUME ShutdownInv, NEW t \in Threads, SaveOriginal(t)
  PROVE  ShutdownInv'
  <1>1. At(t, "save_original") /\ Advance(t) /\ UNCHANGED <<coordinator, locks, signals, counts>>
    BY DEF SaveOriginal
  <1>2. ~ReturnsEarly(t, "save_original")
    BY DEF ReturnsEarly
  <1>3. InRoutine("install", 4) /\ InRoutine("install", 3)'
    <2>1. PICK n \in Nat, k \in Nat :
            n = 4 /\ n = k + 1 /\ InRoutine("install", n) /\ InRoutine("install", k)'
      BY <1>1, <1>2, RoutineStep
    <2>2. n = 4 /\ k = 3
      BY <2>1
    <2> QED
      BY <2>1, <2>2
  <1>4. HandlerOK'
    BY <1>3 DEF ShutdownInv, HandlerOK, Halfway, InRoutine, Settled, SaveOriginal
  <1> QED
    BY <1>1, <1>4, RoutineStep DEF ShutdownInv

LEMMA SetHandlerKeeps ==
  ASSUME ShutdownInv, NEW t \in Threads, SetHandler(t)
  PROVE  ShutdownInv'
  <1>1. At(t, "set_handler") /\ Advance(t) /\ UNCHANGED <<coordinator, locks, signals, counts>>
    BY DEF SetHandler
  <1>2. ~ReturnsEarly(t, "set_handler")
    BY DEF ReturnsEarly
  <1>3. InRoutine("install", 3) /\ InRoutine("install", 2)'
    <2>1. PICK n \in Nat, k \in Nat :
            n = 3 /\ n = k + 1 /\ InRoutine("install", n) /\ InRoutine("install", k)'
      BY <1>1, <1>2, RoutineStep
    <2>2. n = 3 /\ k = 2
      BY <2>1
    <2> QED
      BY <2>1, <2>2
  <1>4. HandlerOK'
    BY <1>3 DEF ShutdownInv, HandlerOK, Halfway, InRoutine, Settled, SetHandler
  <1> QED
    BY <1>1, <1>4, RoutineStep DEF ShutdownInv

LEMMA MarkInstalledKeeps ==
  ASSUME ShutdownInv, NEW t \in Threads, MarkInstalled(t)
  PROVE  ShutdownInv'
  <1>1. At(t, "mark_installed") /\ Advance(t) /\ UNCHANGED <<coordinator, locks, signals, counts>>
    BY DEF MarkInstalled
  <1>2. ~ReturnsEarly(t, "mark_installed")
    BY DEF ReturnsEarly
  <1>3. InRoutine("install", 2) /\ InRoutine("install", 1)'
    <2>1. PICK n \in Nat, k \in Nat :
            n = 2 /\ n = k + 1 /\ InRoutine("install", n) /\ InRoutine("install", k)'
      BY <1>1, <1>2, RoutineStep
    <2>2. n = 2 /\ k = 1
      BY <2>1
    <2> QED
      BY <2>1, <2>2
  <1>4. HandlerOK'
    BY <1>3 DEF ShutdownInv, HandlerOK, Halfway, InRoutine, Settled, MarkInstalled
  <1> QED
    BY <1>1, <1>4, RoutineStep DEF ShutdownInv

LEMMA CheckRestoreKeeps ==
  ASSUME ShutdownInv, NEW t \in Threads, CheckRestore(t)
  PROVE  ShutdownInv'
  <1>1. At(t, "check_restore") /\ UNCHANGED <<coordinator, handler, locks, signals, counts>>
    BY DEF CheckRestore
  <1>2. IF ~installed THEN ReturnsEarly(t, "check_restore") ELSE Advance(t)
    BY DEF CheckRestore, ReturnsEarly, Advance, GoOn
  <1>3. InRoutine("restore", 4) /\ (InRoutine("restore", 1)' \/ (installed /\ InRoutine("restore", 3)'))
    <2>1. PICK n \in Nat, k \in Nat :
            /\ n = 4 /\ IF ReturnsEarly(t, "check_restore") THEN k = 1 ELSE n = k + 1
            /\ InRoutine("restore", n) /\ InRoutine("restore", k)'
      BY <1>1, <1>2, RoutineStep
    <2>2. n = 4 /\ (k = 1 \/ (installed /\ k = 3))
      BY <1>2, <2>1
    <2> QED
      BY <2>1, <2>2
  <1>4. HandlerOK'
    BY <1>1, <1>3 DEF ShutdownInv, HandlerOK, Halfway, InRoutine, Settled, handler
  <1> QED
    BY <1>1, <1>2, <1>4, RoutineStep DEF ShutdownInv

LEMMA ResetHandlerKeeps ==
  ASSUME ShutdownInv, NEW t \in Threads, ResetHandler(t)
  PROVE  ShutdownInv'
  <1>1. At(t, "reset_handler") /\ Advance(t) /\ UNCHANGED <<coordinator, locks, signals, counts>>
    BY DEF ResetHandler
  <1>2. ~ReturnsEarly(t, "reset_handler")
    BY DEF ReturnsEarly
  <1>3. InRoutine("restore", 3) /\ InRoutine("restore", 2)'
    <2>1. PICK n \in Nat, k \in Nat :
            n = 3 /\ n = k + 1 /\ InRoutine("restore", n) /\ InRoutine("restore", k)'
      BY <1>1, <1>2, RoutineStep
    <2>2. n = 3 /\ k = 2
      BY <2>1
    <2> QED
      BY <2>1, <2>2
  <1>4. HandlerOK'
    BY <1>3 DEF ShutdownInv, HandlerOK, Halfway, InRoutine, Settled, ResetHandler
  <1> QED
    BY <1>1, <1>4, RoutineStep DEF ShutdownInv

LEMMA ClearInstalledKeeps ==
  ASSUME ShutdownInv, NEW t \in Threads, ClearInstalled(t)
  PROVE  ShutdownInv'
  <1>1. At(t, "clear_installed") /\ Advance(t) /\ UNCHANGED <<coordinator, locks, signals, counts>>
    BY DEF ClearInstalled
  <1>2. ~ReturnsEarly(t, "clear_installed")
    BY DEF ReturnsEarly
  <1>3. InRoutine("restore", 2) /\ InRoutine("restore", 1)'
    <2>1. PICK n \in Nat, k \in Nat :
            n = 2 /\ n = k + 1 /\ InRoutine("restore", n) /\ InRoutine("restore", k)'
      BY <1>1, <1>2, RoutineStep
    <2>2. n = 2 /\ k = 1
      BY <2>1
    <2> QED
      BY <2>1, <2>2
  <1>4. installed' = FALSE /\ Settled'
    BY <1>3 DEF ShutdownInv, HandlerOK, Settled, ClearInstalled
  <1>5. /\ ~InRoutine("install", 4)' /\ ~InRoutine("install", 3)' /\ ~InRoutine("install", 2)'
        /\ ~InRoutine("restore", 3)' /\ ~InRoutine("restore", 2)'
    BY <1>3 DEF InRoutine
  <1>6. HandlerOK'
    BY <1>4, <1>5 DEF HandlerOK
  <1> QED
    BY <1>1, <1>6, RoutineStep DEF ShutdownInv

\* The steps only a handler takes.
LEMMA HandlerStep ==
  ASSUME ShutdownInv, NEW t \in Threads, NEW s, At(t, s),
         s \in {"look", "read_original", "forward"}
  PROVE  /\ t = Main /\ Top(t) = stack[Main][Depth(Main)] /\ Depth(Main) \in 1 .. Depth(Main)
         /\ Top(t).routine = "sigint"
         /\ s = "look" => Len(Top(t).todo) = 8 + 1
         /\ s = "read_original" => Len(Top(t).todo) = 2 + 1
         /\ s = "forward" => Len(Top(t).todo) = 0 + 1
         /\ HandlerRunning
         /\ Knows(Top(t))
         /\ ~nested /\ handled >= 1 => Second(Top(t))
  <1> USE DEF ShutdownInv
  <1>1. PICK r \in RoutineNames, i \in Nat :
          /\ r = Top(t).routine /\ Len(Top(t).todo) = i + 1
          /\ i + 1 \in 1 .. Len(Routines[r]) /\ StepAt(r, i + 1) = s
    BY Place
  <1>2. PICK n \in Nat : n = i + 1
    BY <1>1
  <1>3. n \in 1 .. Len(Routines[r]) /\ StepAt(r, n) = s
    BY <1>1, <1>2
  <1>4. /\ s = "look" => r = "sigint" /\ n = 9
        /\ s = "read_original" => r = "sigint" /\ n = 3
        /\ s = "forward" => r = "sigint" /\ n = 1
    BY <1>3, StepPlaces
  <1>5. r = "sigint"
    BY <1>4
  <1>6. t = Main
    <2>1. t \in Workers => r \in WorkerRoutines
      BY <1>1, AtStep
    <2> QED
      BY <1>5, <2>1 DEF WorkerRoutines, Threads
  <1>7. Top(t) = stack[Main][Depth(Main)] /\ Depth(Main) \in 1 .. Depth(Main)
    BY <1>6, AtStep
  <1>8. HandlerRunning
    BY <1>1, <1>5, <1>7 DEF HandlerRunning
  <1>9. Knows(Top(t))
    BY <1>6, <1>7 DEF FramesKnow, Threads
  <1>10. ~nested /\ handled >= 1 => Second(Top(t))
    BY <1>7 DEF SecondAborts
  <1> QED
    BY <1>1, <1>2, <1>4, <1>5, <1>6, <1>7, <1>8, <1>9, <1>10

LEMMA LookKeeps ==
  ASSUME ShutdownInv, NEW t \in Threads, Look(t)
  PROVE  ShutdownInv'
  <1> USE DEF ShutdownInv
  <1>1. At(t, "look") /\ UNCHANGED <<coordinator, handler, locks, signals, counts>>
    BY DEF Look
  <1>2. PICK m \in {None, DRAIN, ABORT} : m = IF shutting_down THEN ABORT ELSE DRAIN
    OBVIOUS
  <1>3. PICK o \in {None, Theirs, Ours} : o = Top(t).original
    BY <1>1, Locals
  <1>4. GoOn(t, Tail(Top(t).todo), m, o)
    BY <1>2, <1>3 DEF Look, GoOn
  <1>5. /\ Top(t).routine = "sigint" /\ Len(Top(t).todo) = 8 + 1
    BY <1>1, HandlerStep
  <1>6. Goes(t, 8, m, o)
    BY <1>1, <1>4, <1>5, TailGoes
  <1>7. /\ UNCHANGED <<shutting_down, mode, pressed, pending, nested, handled, forwarded>>
        /\ UNCHANGED <<lock, signal_lock>>
    BY <1>1 DEF coordinator, signals, counts, locks
  <1>8. m \in {DRAIN, ABORT} /\ (shutting_down => m = ABORT)
    BY <1>2
  <1>9. StacksOK'
    BY <1>6 DEF Goes
  <1>10. FramesKnow'
    <2>1. "sigint" \notin {DRAIN, ABORT} /\ ~(8 <= 5) /\ ~(8 <= 2)
      BY DEF DRAIN, ABORT
    <2> QED
      BY <1>1, <1>5, <1>6, <1>7, <1>8, <2>1, FramesLearn
  <1>11. ModeOK'
    BY <1>7 DEF ModeOK
  <1>12. LockOwned'
    BY <1>1, <1>5, <1>6, <1>7, LockStays, HandlerSteps
  <1>13. SignalLockOwned'
    BY <1>1, <1>5, <1>6, <1>7, SignalLockStays DEF SignalSteps
  <1>14. HandlerOK' /\ HandlersFindOriginal'
    BY <1>1, <1>5, <1>6, HandlerUntouched
  <1>15. SignalsCount'
    BY <1>1, <1>5, <1>6, <1>7, CountsStay
  <1>16. SecondAborts'
    <2>1. handled >= 1 => m = ABORT
      BY <1>8 DEF SecondAborts
    <2> QED
      BY <1>1, <1>5, <1>6, <1>7, <2>1, SecondLearns
  <1> QED
    BY <1>9, <1>10, <1>11, <1>12, <1>13, <1>14, <1>15, <1>16

LEMMA ReadOriginalKeeps ==
  ASSUME ShutdownInv, NEW t \in Threads, ReadOriginal(t)
  PROVE  ShutdownInv'
  <1> USE DEF ShutdownInv
  <1>1. At(t, "read_original") /\ UNCHANGED <<coordinator, handler, locks, signals, counts>>
    BY DEF ReadOriginal
  <1>2. /\ Top(t).routine = "sigint" /\ Len(Top(t).todo) = 2 + 1
        /\ original = Theirs
    BY <1>1, HandlerStep DEF HandlersFindOriginal
  <1>3. PICK m \in {None, DRAIN, ABORT} : m = Top(t).mode
    BY <1>1, Locals
  <1>4. PICK o \in {None, Theirs, Ours} : o = Theirs
    OBVIOUS
  <1>5. GoOn(t, Tail(Top(t).todo), m, o)
    BY <1>2, <1>3, <1>4 DEF ReadOriginal, GoOn
  <1>6. Goes(t, 2, m, o)
    BY <1>1, <1>2, <1>5, TailGoes
  <1>7. /\ UNCHANGED <<shutting_down, mode, pressed, pending, nested, handled, forwarded>>
        /\ UNCHANGED <<lock, signal_lock>>
    BY <1>1 DEF coordinator, signals, counts, locks
  <1>8. m \in {DRAIN, ABORT} /\ shutting_down
    <2>1. Knows(Top(t))
      BY <1>1, HandlerStep
    <2> QED
      BY <1>2, <1>3, <2>1 DEF Knows
  <1>9. StacksOK'
    BY <1>6 DEF Goes
  <1>10. FramesKnow'
    <2>1. "sigint" \notin {DRAIN, ABORT}
      BY DEF DRAIN, ABORT
    <2> QED
      BY <1>1, <1>2, <1>4, <1>6, <1>7, <1>8, <2>1, FramesLearn
  <1>11. ModeOK'
    BY <1>7 DEF ModeOK
  <1>12. LockOwned'
    BY <1>1, <1>2, <1>6, <1>7, LockStays
  <1>13. SignalLockOwned'
    <2>1. StepAt("sigint", 2) \in SignalSteps
      BY HandlerSteps DEF SignalSteps
    <2> QED
      BY <1>1, <1>2, <1>6, <1>7, <2>1, SignalLockStays
  <1>14. HandlerOK' /\ HandlersFindOriginal'
    BY <1>1, <1>2, <1>6, HandlerUntouched
  <1>15. SignalsCount'
    BY <1>1, <1>2, <1>6, <1>7, CountsStay
  <1>16. SecondAborts'
    <2>1. ~nested /\ handled >= 1 => m = ABORT /\ mode = ABORT
      <3>1. ~nested /\ handled >= 1 => Second(Top(t))
        BY <1>1, HandlerStep
      <3> QED
        BY <1>2, <1>3, <3>1 DEF Second
    <2> QED
      BY <1>1, <1>2, <1>6, <1>7, <2>1, SecondLearns
  <1> QED
    BY <1>9, <1>10, <1>11, <1>12, <1>13, <1>14, <1>15, <1>16

LEMMA BeginShutdownKeeps ==
  ASSUME ShutdownInv, NEW t \in Threads, BeginShutdown(t)
  PROVE  ShutdownInv'
  <1> USE DEF ShutdownInv
  <1>1. At(t, "begin") /\ Advance(t) /\ UNCHANGED <<handler, locks, signals, counts>>
    BY DEF BeginShutdown
  <1>2. PICK r \in RoutineNames, k \in Nat :
          /\ r = Top(t).routine /\ Len(Top(t).todo) = k + 1
          /\ k + 1 \in 1 .. Len(Routines[r]) /\ StepAt(r, k + 1) = "begin"
    BY <1>1, Place
  <1>3. \/ r \in {DRAIN, ABORT} /\ k = 1
        \/ r = "sigint" /\ k = 5
    <2>1. PICK n \in Nat : n = k + 1
      OBVIOUS
    <2>2. n \in 1 .. Len(Routines[r]) /\ StepAt(r, n) = "begin"
      BY <1>2, <2>1
    <2>3. <<r, n>> \in {<<"drain", 2>>, <<"abort", 2>>, <<"sigint", 6>>}
      BY <2>2, StepPlaces
    <2> QED
      BY <2>1, <2>3 DEF DRAIN, ABORT
  <1>4. PICK m \in {None, DRAIN, ABORT}, o \in {None, Theirs, Ours} :
          m = Top(t).mode /\ o = Top(t).original /\ Goes(t, k, m, o)
    BY <1>1, <1>2, AdvanceGoes
  <1>5. /\ UNCHANGED <<pressed, pending, nested, handled, forwarded>>
        /\ UNCHANGED <<lock, signal_lock>>
    BY <1>1 DEF signals, counts, locks
  <1>6. Top(t) = stack[t][Depth(t)] /\ Depth(t) \in 1 .. Depth(t)
    BY <1>1, AtStep
  <1>7. m \in {DRAIN, ABORT} /\ (r \in {DRAIN, ABORT} => m = r)
    <2>1. Knows(Top(t))
      BY <1>6 DEF FramesKnow
    <2> QED
      BY <1>2, <1>3, <1>4, <2>1 DEF Knows
  <1>8. /\ shutting_down'
        /\ mode' = IF shutting_down
                   THEN IF mode = DRAIN /\ m = ABORT THEN ABORT ELSE mode
                   ELSE m
    BY <1>4 DEF BeginShutdown, ModeOK
  <1>9. StacksOK'
    BY <1>4 DEF Goes
  <1>10. FramesKnow'
    <2>1. "sigint" \notin {DRAIN, ABORT} /\ (r = "sigint" => k = 5)
      BY <1>3 DEF DRAIN, ABORT
    <2>2. ~(5 <= 2)
      OBVIOUS
    <2> QED
      BY <1>1, <1>2, <1>4, <1>7, <1>8, <2>1, <2>2, FramesLearn
  <1>11. ModeOK'
    BY <1>7, <1>8 DEF ModeOK, BeginShutdown, DRAIN, ABORT, None
  <1>12. LockOwned'
    <2>1. k # 0 /\ StepAt(r, k) = "release"
      BY <1>3, HandlerSteps, OtherSteps DEF DRAIN, ABORT
    <2> QED
      BY <1>1, <1>2, <1>4, <1>5, <2>1, LockStays
  <1>13. SignalLockOwned'
    BY <1>1, <1>2, <1>4, <1>5, SignalLockStays DEF SignalSteps
  <1>14. r \notin {"install", "restore"} /\ k # 0
    BY <1>3 DEF DRAIN, ABORT
  <1>15. HandlerOK' /\ HandlersFindOriginal'
    BY <1>1, <1>2, <1>4, <1>14, HandlerUntouched
  <1>16. SignalsCount'
    BY <1>1, <1>2, <1>4, <1>5, <1>14, CountsStay
  <1>17. SecondAborts'
    <2>1. mode = ABORT => mode' = ABORT
      BY <1>8 DEF ModeOK, DRAIN, ABORT, None
    <2>2. r = "sigint" /\ handled >= 1 /\ ~nested => m = ABORT /\ mode' = ABORT
      <3> SUFFICES ASSUME r = "sigint", handled >= 1, ~nested
                   PROVE  m = ABORT /\ mode' = ABORT
        OBVIOUS
      <3>1. t = Main
        BY <1>1, <1>2, <1>4, FirstFrame
      <3>2. Second(Top(t))
        BY <1>6, <3>1 DEF SecondAborts
      <3>3. Len(Top(t).todo) <= 8
        <4>1. k = 5
          BY <1>3 DEF DRAIN, ABORT
        <4> QED
          BY <1>2, <4>1
      <3>4. m = ABORT
        BY <1>2, <1>4, <3>2, <3>3 DEF Second
      <3>5. shutting_down /\ mode \in {DRAIN, ABORT}
        BY DEF SecondAborts, ModeOK
      <3> QED
        BY <1>8, <3>4, <3>5
    <2> QED
      BY <1>1, <1>2, <1>4, <1>5, <1>8, <1>14, <2>1, <2>2, SecondLearns
  <1> QED
    BY <1>9, <1>10, <1>11, <1>12, <1>13, <1>15, <1>16, <1>17

LEMMA ForwardKeeps ==
  ASSUME ShutdownInv, NEW t \in Threads, Forward(t)
  PROVE  ShutdownInv'
  <1> USE DEF ShutdownInv
  <1>1. /\ At(t, "forward") /\ Advance(t)
        /\ UNCHANGED <<coordinator, handler, locks, signals, workerCalls>>
    BY DEF Forward
  <1>2. /\ Top(t).routine = "sigint" /\ Len(Top(t).todo) = 0 + 1
        /\ HandlerRunning /\ t = Main
        /\ Depth(Main) \in 1 .. Depth(Main)
    BY <1>1, HandlerStep
  <1>3. PICK m \in {None, DRAIN, ABORT}, o \in {None, Theirs, Ours} :
          m = Top(t).mode /\ o = Top(t).original /\ Goes(t, 0, m, o)
    BY <1>1, <1>2, AdvanceGoes
  <1>4. Knows(Top(t))
    BY <1>1, HandlerStep
  <1>5. shutting_down /\ o = Theirs
    BY <1>2, <1>3, <1>4 DEF Knows
  <1>6. handled' = handled + 1 /\ forwarded' = forwarded + 1
    BY <1>3, <1>5 DEF Forward, Theirs, Ours, None
  <1>7. /\ UNCHANGED <<shutting_down, mode, pressed, pending, nested>>
        /\ UNCHANGED <<lock, signal_lock>>
    BY <1>1 DEF coordinator, signals, locks
  <1>8. StacksOK'
    BY <1>3 DEF Goes
  <1>9. FramesKnow'
    BY <1>1, <1>2, <1>3, <1>7, FramesLearn
  <1>10. ModeOK'
    BY <1>7 DEF ModeOK
  <1>11. LockOwned'
    BY <1>1, <1>2, <1>3, <1>7, LockStays
  <1>12. SignalLockOwned'
    BY <1>1, <1>2, <1>3, <1>7, SignalLockStays DEF SignalSteps
  <1>13. HandlerOK' /\ HandlersFindOriginal'
    BY <1>1, <1>2, <1>3, HandlerUntouched
  <1>14. Running' = Running - 1 /\ Running \in Nat
    <2>1. Running' = Running - 1
      BY <1>1, <1>2, <1>3, RunningStays
    <2>2. Depth(Main) \in Nat
      BY <1>1, <1>2, AtStep
    <2> QED
      BY <1>2, <2>1, <2>2 DEF Running
  <1>15. SignalsCount'
    BY <1>6, <1>7, <1>14 DEF SignalsCount
  <1>16. SecondAborts'
    <2>1. nested' \in BOOLEAN /\ shutting_down'
      BY <1>5, <1>7 DEF SecondAborts
    <2>2. ASSUME ~nested'
          PROVE  /\ Running' <= 1
                 /\ handled' >= 2 => mode' = ABORT
                 /\ \A d \in 1 .. Depth(Main)' : Second(stack[Main][d])'
      <3>1. Running <= 1 /\ Running' <= 0 /\ Running' <= 1
        BY <1>7, <1>14, <2>2 DEF SecondAborts
      <3>2. handled' >= 2 => mode' = ABORT
        <4> SUFFICES ASSUME handled' >= 2
                     PROVE  mode = ABORT
          BY <1>7
        <4>1. handled >= 1
          BY <1>6 DEF SignalsCount
        <4>2. Second(Top(t))
          BY <1>1, <1>7, <2>2, <4>1, HandlerStep
        <4> QED
          BY <1>2, <4>2 DEF Second
      <3>3. ASSUME NEW d \in 1 .. Depth(Main)'
            PROVE  Second(stack[Main][d])'
        <4>1. Depth(Main)' \in Nat /\ Depth(Main)' >= 1
          BY <1>1, <1>3, FirstFrame
        <4>2. Depth(Main)' = 1 /\ d = 1 /\ stack'[Main][1].routine # "sigint"
          BY <3>1, <4>1 DEF Running
        <4> QED
          BY <4>2 DEF Second
      <3> QED
        BY <3>1, <3>2, <3>3
    <2> QED
      BY <2>1, <2>2 DEF SecondAborts
  <1> QED
    BY <1>8, <1>9, <1>10, <1>11, <1>12, <1>13, <1>15, <1>16

-----------------------------------------------------------------------------
\* A routine starts at its first step.
LEMMA NewFrame ==
  ASSUME NEW r \in RoutineNames
  PROVE  /\ IsFrame(Frame(r)) /\ Frame(r).routine = r
         /\ Len(Frame(r).todo) = Len(Routines[r])
         /\ Knows(Frame(r))
  <1> DEFINE R == Routines[r]
  <1>1. R \in Seq(StepNames) /\ Len(R) \in Nat
    BY RoutinesAreSteps, LenProperties
  <1>2. Len(R) > 0
    <2>1. PICK N \in Nat : N = Len(R)
      BY <1>1
    <2>2. r \in {"drain", "abort"} \/ r \in {"observe", "install", "restore", "sigint"}
      BY DEF RoutineNames, MainRoutines
    <2>3. /\ Len(R) = N
          /\ Len(R) = 2 \/ Len(R) = 3 \/ Len(R) = 5 \/ Len(R) = 6 \/ Len(R) = 10
      BY <2>1, <2>2, RoutinesAreSteps
    <2> HIDE DEF R
    <2>4. N = 2 \/ N = 3 \/ N = 5 \/ N = 6 \/ N = 10
      BY <2>3
    <2>5. N > 0
      BY <2>4
    <2> QED
      BY <2>3, <2>5
  <1>3. SubSeq(R, 1, Len(R)) = R
    BY <1>1, SubSeqFull
  <1>4. StepsLeft(r, Len(R)) = R
    <2>1. Len(R) - Len(R) + 1 = 1
      BY <1>1
    <2> QED
      BY <1>3, <2>1 DEF StepsLeft
  <1>5. r = "sigint" => Len(R) = 10
    BY RoutinesAreSteps
  <1> HIDE DEF R
  <1>6. /\ Frame(r).routine = r /\ Frame(r).todo = R
        /\ Frame(r) \in Frames
        /\ r \in {DRAIN, ABORT} => Frame(r).mode = r
    BY <1>1 DEF Frame, Frames, R, DRAIN, ABORT, None
  <1>7. IsFrame(Frame(r))
    BY <1>1, <1>2, <1>4, <1>6 DEF IsFrame, R
  <1>8. Knows(Frame(r))
    <2>1. CASE r = "sigint"
      <3> DEFINE n == Len(Frame(r).todo)
      <3>1. n = 10 /\ r \notin {DRAIN, ABORT}
        BY <1>5, <1>6, <2>1 DEF DRAIN, ABORT
      <3> HIDE DEF n
      <3>2. ~(n <= 8) /\ ~(n <= 5) /\ ~(n <= 2)
        BY <3>1
      <3> QED
        BY <1>6, <3>1, <3>2 DEF Knows, n
    <2>2. CASE r # "sigint"
      BY <1>6, <2>2 DEF Knows
    <2> QED
      BY <2>1, <2>2
  <1> QED
    BY <1>6, <1>7, <1>8 DEF R

Starts(t, r) == stack' = [stack EXCEPT ![t] = Append(@, Frame(r))]

LEMMA FrameStarts ==
  ASSUME StacksOK, NEW t \in Threads, NEW r \in RoutineNames, Starts(t, r),
         t \in Workers => Depth(t) = 0 /\ r \in WorkerRoutines,
         t = Main => r = "sigint" \/ Depth(Main) = 0
  PROVE  /\ StacksOK'
         /\ Depth(t)' = Depth(t) + 1 /\ stack'[t][Depth(t) + 1] = Frame(r)
         /\ Depth(t) \in Nat
         /\ \A u \in Threads \ {t} : stack'[u] = stack[u] /\ Depth(u)' = Depth(u)
         /\ \A u \in Threads : \A d \in 1 .. Depth(u) :
              d \in 1 .. Depth(u)' /\ stack'[u][d] = stack[u][d]
         /\ \A u \in Threads : \A d \in 1 .. Depth(u)' :
              \/ d \in 1 .. Depth(u) /\ stack'[u][d] = stack[u][d]
              \/ u = t /\ d = Depth(t) + 1 /\ stack'[u][d] = Frame(r)
  <1> DEFINE F == Frame(r)
             D == Depth(t)
             frames == Append(stack[t], F)
  <1>1. IsFrame(F) /\ F \in Frames /\ F.routine = r
    BY NewFrame DEF IsFrame
  <1>2. /\ stack \in [Threads -> Seq(Frames)] /\ stack[t] \in Seq(Frames)
        /\ D = Len(stack[t]) /\ \A u \in Threads : Depth(u) \in Nat
    BY DepthIsNat DEF StacksOK, Depth
  <1>3. stack' = [stack EXCEPT ![t] = frames]
    BY <1>2 DEF Starts
  <1> HIDE DEF F
  <1>4. /\ frames \in Seq(Frames) /\ Len(frames) = D + 1
        /\ \A d \in 1 .. D : frames[d] = stack[t][d]
        /\ frames[D + 1] = F
    BY <1>1, <1>2, AppendProperties
  <1> HIDE DEF frames
  <1>5. /\ stack' \in [Threads -> Seq(Frames)] /\ stack'[t] = frames
        /\ \A u \in Threads \ {t} : stack'[u] = stack[u] /\ Depth(u)' = Depth(u)
    BY <1>2, <1>3, <1>4 DEF Depth
  <1>6. Depth(t)' = D + 1
    BY <1>4, <1>5 DEF Depth
  <1> HIDE DEF D
  <1>7. \A u \in Threads : \A d \in 1 .. Depth(u) :
          d \in 1 .. Depth(u)' /\ stack'[u][d] = stack[u][d]
    BY <1>2, <1>4, <1>5, <1>6 DEF D
  <1>8. \A u \in Threads : \A d \in 1 .. Depth(u)' :
          \/ d \in 1 .. Depth(u) /\ stack'[u][d] = stack[u][d]
          \/ u = t /\ d = D + 1 /\ stack'[u][d] = F
    BY <1>2, <1>4, <1>5, <1>6 DEF D
  <1>9. StacksOK'
    <2>1. \A u \in Threads : \A d \in 1 .. Depth(u)' : IsFrame(stack'[u][d])
      BY <1>1, <1>8 DEF StacksOK
    <2>2. \A d \in 2 .. Depth(Main)' : stack'[Main][d].routine = "sigint"
      <3> SUFFICES ASSUME NEW d \in 2 .. Depth(Main)'
                   PROVE  stack'[Main][d].routine = "sigint"
        OBVIOUS
      <3>1. Main \in Threads /\ Depth(Main) \in Nat
        BY <1>2 DEF Threads
      <3>2. d \in 1 .. Depth(Main)' /\ d # 1
        OBVIOUS
      <3>3. CASE d \in 1 .. Depth(Main) /\ stack'[Main][d] = stack[Main][d]
        <4>1. d \in 2 .. Depth(Main)
          BY <3>1, <3>2, <3>3
        <4> QED
          BY <3>3, <4>1 DEF StacksOK
      <3>4. CASE Main = t /\ d = D + 1 /\ stack'[Main][d] = F
        <4>1. r = "sigint"
          BY <3>1, <3>2, <3>4 DEF D
        <4> QED
          BY <1>1, <3>4, <4>1
      <3> QED
        BY <1>8, <3>1, <3>2, <3>3, <3>4
    <2>3. \A u \in Workers : Depth(u)' <= 1 /\ (Depth(u)' = 1 => stack'[u][1].routine \in WorkerRoutines)
      <3> SUFFICES ASSUME NEW u \in Workers
                   PROVE  Depth(u)' <= 1 /\ (Depth(u)' = 1 => stack'[u][1].routine \in WorkerRoutines)
        OBVIOUS
      <3>1. u \in Threads
        BY DEF Threads
      <3>2. CASE u = t
        <4>1. D = 0 /\ Depth(u)' = 1 /\ stack'[u][1] = F
          BY <1>4, <1>5, <1>6, <3>2 DEF D
        <4> QED
          BY <1>1, <3>2, <4>1
      <3>3. CASE u # t
        BY <1>5, <3>1, <3>3 DEF StacksOK
      <3> QED
        BY <3>2, <3>3
    <2> QED
      BY <1>5, <2>1, <2>2, <2>3 DEF StacksOK
  <1> QED
    BY <1>2, <1>4, <1>5, <1>6, <1>7, <1>8, <1>9 DEF D, F

\* A routine that starts knows nothing and holds nothing.
LEMMA StartKeeps ==
  ASSUME StacksOK, FramesKnow, ModeOK, LockOwned, SignalLockOwned,
         NEW t \in Threads, NEW r \in RoutineNames, Starts(t, r),
         t \in Workers => Depth(t) = 0 /\ r \in WorkerRoutines,
         t = Main => r = "sigint" \/ Depth(Main) = 0,
         UNCHANGED <<coordinator, locks>>
  PROVE  StacksOK' /\ FramesKnow' /\ ModeOK' /\ LockOwned' /\ SignalLockOwned'
  <1>1. UNCHANGED <<shutting_down, mode, lock, signal_lock>>
    BY DEF coordinator, locks
  <1>2. StacksOK'
    BY FrameStarts
  <1>3. FramesKnow'
    <2> SUFFICES ASSUME NEW u \in Threads, NEW d \in 1 .. Depth(u)'
                 PROVE  Knows(stack[u][d])'
      BY DEF FramesKnow
    <2>1. CASE d \in 1 .. Depth(u) /\ stack'[u][d] = stack[u][d]
      BY <1>1, <2>1 DEF FramesKnow, Knows
    <2>2. CASE stack'[u][d] = Frame(r)
      BY <1>1, <2>2, NewFrame DEF Knows
    <2> QED
      BY <2>1, <2>2, FrameStarts
  <1>4. ModeOK'
    BY <1>1 DEF ModeOK
  <1>5. \A u \in Threads : \A d \in 1 .. Depth(u) :
          d \in 1 .. Depth(u)' /\ stack'[u][d] = stack[u][d]
    BY FrameStarts
  <1>6. LockOwned'
    BY <1>1, <1>5 DEF LockOwned
  <1>7. SignalLockOwned'
    BY <1>1, <1>5 DEF SignalLockOwned
  <1> QED
    BY <1>2, <1>3, <1>4, <1>6, <1>7

LEMMA CallKeeps ==
  ASSUME ShutdownInv, NEW routine \in MainRoutines, Call(routine)
  PROVE  ShutdownInv'
  <1> USE DEF ShutdownInv
  <1>1. /\ Depth(Main) = 0
        /\ UNCHANGED <<coordinator, handler, locks, signals, counts>>
    BY DEF Call
  <1>2. Main \in Threads /\ Main \notin Workers
    BY ShutdownAssumption DEF Threads
  <1>3. Starts(Main, routine)
    <2>1. stack[Main] = <<>> /\ stack \in [Threads -> Seq(Frames)]
      BY <1>1, <1>2, DepthIsNat, EmptySeq DEF Depth, StacksOK
    <2>2. Append(<<>>, Frame(routine)) = <<Frame(routine)>>
      OBVIOUS
    <2> QED
      BY <1>2, <2>1, <2>2 DEF Call, Starts
  <1>4. routine \in RoutineNames /\ routine # "sigint"
    BY DEF MainRoutines, RoutineNames
  <1>5. StacksOK' /\ FramesKnow' /\ ModeOK' /\ LockOwned' /\ SignalLockOwned'
    BY <1>1, <1>2, <1>3, <1>4, StartKeeps
  <1>6. Depth(Main)' = 1 /\ stack'[Main][1] = Frame(routine)
    BY <1>1, <1>2, <1>3, <1>4, FrameStarts
  <1>7. stack'[Main][1].routine = routine /\ Len(stack'[Main][1].todo) = Len(Routines[routine])
    BY <1>4, <1>6, NewFrame
  <1>8. UNCHANGED <<shutting_down, mode, installed, original, disposition, pressed, pending,
                    nested, handled, forwarded>>
    BY <1>1 DEF coordinator, handler, signals, counts
  <1>9. HandlerOK'
    <2>1. PICK n \in Nat : /\ n = Len(stack'[Main][1].todo)
                           /\ routine = "install" => n = 6
                           /\ routine = "restore" => n = 5
      BY <1>4, <1>7, RoutinesAreSteps, LenProperties
    <2>2. /\ ~InRoutine("install", 4)' /\ ~InRoutine("install", 3)' /\ ~InRoutine("install", 2)'
          /\ ~InRoutine("restore", 3)' /\ ~InRoutine("restore", 2)'
      <3>1. stack'[Main][1].routine = routine
        BY <1>7
      <3>2. /\ routine = "install" => n # 4 /\ n # 3 /\ n # 2
            /\ routine = "restore" => n # 3 /\ n # 2
        <4>1. (routine = "install" => n = 6) /\ (routine = "restore" => n = 5)
          BY <2>1
        <4> QED
          BY <4>1
      <3>3. n = Len(stack'[Main][1].todo)
        BY <2>1
      <3> QED
        BY <3>1, <3>2, <3>3 DEF InRoutine
    <2>3. Settled
      BY <1>1 DEF HandlerOK, Halfway, InRoutine
    <2> QED
      BY <1>8, <2>2, <2>3 DEF HandlerOK, Settled
  <1>10. ~HandlerRunning' /\ Running = 0 /\ Running' = 0
    BY <1>1, <1>4, <1>6, <1>7 DEF HandlerRunning, Running
  <1>11. HandlersFindOriginal'
    BY <1>10 DEF HandlersFindOriginal
  <1>12. SignalsCount'
    BY <1>8, <1>10 DEF SignalsCount
  <1>13. SecondAborts'
    <2>1. ASSUME NEW d \in 1 .. Depth(Main)'
          PROVE  Second(stack[Main][d])'
      <3>1. stack'[Main][d].routine # "sigint"
        BY <1>4, <1>6, <1>7
      <3> QED
        BY <3>1 DEF Second
    <2> QED
      BY <1>8, <1>10, <2>1 DEF SecondAborts
  <1> QED
    BY <1>5, <1>9, <1>11, <1>12, <1>13

\* What does not touch the main thread's stack.
LEMMA MainUntouched ==
  ASSUME HandlerOK, HandlersFindOriginal, SignalsCount, SecondAborts,
         stack'[Main] = stack[Main], Depth(Main)' = Depth(Main),
         UNCHANGED <<coordinator, handler, pending, nested, handled, forwarded>>,
         pressed' = pressed
  PROVE  HandlerOK' /\ HandlersFindOriginal' /\ SignalsCount' /\ SecondAborts'
  <1>1. UNCHANGED <<shutting_down, mode, installed, original, disposition, pressed, pending,
                    nested, handled, forwarded>>
    BY DEF coordinator, handler
  <1>2. HandlerOK'
    BY <1>1 DEF HandlerOK, Halfway, InRoutine, Settled
  <1>3. HandlerRunning' <=> HandlerRunning
    BY DEF HandlerRunning
  <1>4. Running' = Running
    BY DEF Running
  <1>5. SecondAborts'
    <2>1. \A d \in 1 .. Depth(Main)' : Second(stack[Main][d]) => Second(stack[Main][d])'
      BY <1>1 DEF Second
    <2> QED
      BY <1>1, <1>4, <2>1 DEF SecondAborts
  <1> QED
    BY <1>1, <1>2, <1>3, <1>4, <1>5 DEF HandlersFindOriginal, SignalsCount

LEMMA WorkerCallKeeps ==
  ASSUME ShutdownInv, NEW t \in Workers, NEW routine \in WorkerRoutines, WorkerCall(t, routine)
  PROVE  ShutdownInv'
  <1> USE DEF ShutdownInv
  <1>1. /\ Depth(t) = 0
        /\ UNCHANGED <<coordinator, handler, locks, signals, handled, forwarded>>
    BY DEF WorkerCall
  <1>2. t \in Threads /\ t # Main /\ Main \in Threads
    BY ShutdownAssumption DEF Threads
  <1>3. Starts(t, routine)
    <2>1. stack[t] = <<>> /\ stack \in [Threads -> Seq(Frames)]
      BY <1>1, <1>2, DepthIsNat, EmptySeq DEF Depth, StacksOK
    <2>2. Append(<<>>, Frame(routine)) = <<Frame(routine)>>
      OBVIOUS
    <2> QED
      BY <1>2, <2>1, <2>2 DEF WorkerCall, Starts
  <1>4. routine \in RoutineNames
    BY DEF WorkerRoutines, MainRoutines, RoutineNames
  <1>5. StacksOK' /\ FramesKnow' /\ ModeOK' /\ LockOwned' /\ SignalLockOwned'
    BY <1>1, <1>2, <1>3, <1>4, StartKeeps
  <1>6. stack'[Main] = stack[Main] /\ Depth(Main)' = Depth(Main)
    BY <1>1, <1>2, <1>3, <1>4, FrameStarts
  <1>7. HandlerOK' /\ HandlersFindOriginal' /\ SignalsCount' /\ SecondAborts'
    BY <1>1, <1>6, MainUntouched DEF signals
  <1> QED
    BY <1>5, <1>7

LEMMA PressKeeps ==
  ASSUME ShutdownInv, Press
  PROVE  ShutdownInv'
  <1> USE DEF ShutdownInv
  <1>1. UNCHANGED <<shutting_down, mode, installed, original, disposition, lock, signal_lock,
                    stack, nested, handled, forwarded>>
    BY DEF Press, coordinator, handler, locks, counts
  <1>2. Running' = Running
    BY <1>1 DEF Running, Depth
  <1>3. /\ StacksOK' /\ FramesKnow' /\ ModeOK' /\ LockOwned' /\ SignalLockOwned'
    BY <1>1 DEF StacksOK, FramesKnow, Knows, ModeOK, LockOwned, SignalLockOwned, Depth
  <1>4. HandlerOK' /\ HandlersFindOriginal'
    BY <1>1 DEF HandlerOK, HandlersFindOriginal, HandlerRunning, Halfway, InRoutine, Settled, Depth
  <1>5. SecondAborts'
    BY <1>1, <1>2 DEF SecondAborts, Second, Depth
  <1>6. SignalsCount'
    <2>1. /\ pressed' = pressed + 1 /\ pressed' \in 0 .. MaxPresses /\ pending' = TRUE
      BY ShutdownAssumption DEF Press, SignalsCount
    <2>2. handled + Running + 1 <= pressed'
      <3>1. Main \in Threads
        BY DEF Threads
      <3>2. Running \in Nat
        BY <3>1, DepthIsNat DEF Running
      <3> QED
        BY <2>1, <3>2 DEF SignalsCount
    <2> QED
      BY <1>1, <1>2, <2>1, <2>2 DEF SignalsCount
  <1> QED
    BY <1>3, <1>4, <1>5, <1>6

LEMMA DeliverKeeps ==
  ASSUME ShutdownInv, Deliver
  PROVE  ShutdownInv'
  <1> USE DEF ShutdownInv
  <1>1. /\ pending = TRUE /\ pending' = FALSE
        /\ UNCHANGED <<coordinator, handler, locks, pressed, counts>>
    BY DEF Deliver, SignalsCount
  <1>2. UNCHANGED <<shutting_down, mode, installed, original, disposition, lock, signal_lock,
                    pressed, handled, forwarded>>
    BY <1>1 DEF coordinator, handler, locks, counts
  <1>3. Main \in Threads /\ Main \notin Workers /\ Depth(Main) \in Nat
    BY ShutdownAssumption, DepthIsNat DEF Threads
  <1>4. Running \in Nat
    BY <1>3 DEF Running
  <1>5. CASE disposition # Ours
    <2>1. UNCHANGED <<stack, nested>>
      BY <1>5 DEF Deliver
    <2>2. Running' = Running
      BY <2>1 DEF Running, Depth
    <2>3. /\ StacksOK' /\ FramesKnow' /\ ModeOK' /\ LockOwned' /\ SignalLockOwned'
      BY <1>2, <2>1 DEF StacksOK, FramesKnow, Knows, ModeOK, LockOwned, SignalLockOwned, Depth
    <2>4. HandlerOK' /\ HandlersFindOriginal'
      BY <1>2, <2>1
         DEF HandlerOK, HandlersFindOriginal, HandlerRunning, Halfway, InRoutine, Settled, Depth
    <2>5. SecondAborts'
      BY <1>2, <2>1, <2>2 DEF SecondAborts, Second, Depth
    <2>6. SignalsCount'
      <3>1. (IF pending THEN 1 ELSE 0) = 1 /\ (IF pending' THEN 1 ELSE 0) = 0
        BY <1>1
      <3>2. handled + Running + 1 <= pressed
        BY <3>1 DEF SignalsCount
      <3>3. handled' + Running' + 0 <= pressed'
        BY <1>2, <1>4, <2>2, <3>2, ShutdownAssumption DEF SignalsCount
      <3> QED
        BY <1>1, <1>2, <3>1, <3>3 DEF SignalsCount
    <2> QED
      BY <2>3, <2>4, <2>5, <2>6
  <1>6. CASE disposition = Ours
    <2>1. /\ Starts(Main, "sigint")
          /\ nested' = (nested \/ \E d \in 1 .. Depth(Main) : stack[Main][d].routine = "sigint")
      BY <1>6 DEF Deliver, Starts
    <2>2. "sigint" \in RoutineNames
      BY DEF RoutineNames
    <2>3. StacksOK' /\ FramesKnow' /\ ModeOK' /\ LockOwned' /\ SignalLockOwned'
      BY <1>1, <1>3, <2>1, <2>2, StartKeeps
    <2>4. /\ Depth(Main)' = Depth(Main) + 1
          /\ stack'[Main][Depth(Main) + 1] = Frame("sigint")
          /\ \A d \in 1 .. Depth(Main) : stack'[Main][d] = stack[Main][d]
      BY <1>3, <2>1, <2>2, FrameStarts
    <2>5. Frame("sigint").routine = "sigint" /\ Len(Frame("sigint").todo) = 10
      BY <2>2, NewFrame, RoutinesAreSteps
    <2>6. Depth(Main) > 0 => stack'[Main][1] = stack[Main][1]
      BY <1>3, <2>4
    <2>7. Depth(Main) = 0 => stack'[Main][1].routine = "sigint"
      BY <2>4, <2>5
    <2>8. \A x \in {"install", "restore"} : Depth(Main)' > 0 /\ stack'[Main][1].routine = x
            <=> Depth(Main) > 0 /\ stack[Main][1].routine = x
      BY <1>3, <2>4, <2>6, <2>7
    <2>9. HandlerOK'
      BY <1>2, <1>3, <2>4, <2>6, <2>7 DEF HandlerOK, Halfway, InRoutine, Settled
    <2>10. HandlersFindOriginal'
      BY <1>2, <1>6 DEF HandlersFindOriginal, HandlerOK, Settled, Halfway, Ours, Theirs
    <2>11. Running' = Running + 1
      BY <1>3, <2>4, <2>6, <2>7 DEF Running
    <2>12. SignalsCount'
      <3>1. (IF pending THEN 1 ELSE 0) = 1 /\ (IF pending' THEN 1 ELSE 0) = 0
        BY <1>1
      <3>2. handled + Running + 1 <= pressed
        BY <3>1 DEF SignalsCount
      <3>3. handled' + Running' + 0 <= pressed'
        BY <1>2, <1>4, <2>11, <3>2, ShutdownAssumption DEF SignalsCount
      <3> QED
        BY <1>1, <1>2, <3>1, <3>3 DEF SignalsCount
    <2>13. SecondAborts'
      <3>1. nested' \in BOOLEAN
        BY <2>1 DEF SecondAborts
      <3>2. ASSUME ~nested'
            PROVE  /\ Running' <= 1
                   /\ handled' >= 2 => mode' = ABORT
                   /\ \A d \in 1 .. Depth(Main)' : Second(stack[Main][d])'
        <4>1. ~nested /\ \A d \in 1 .. Depth(Main) : stack[Main][d].routine # "sigint"
          BY <2>1, <3>2 DEF SecondAborts
        <4>2. Depth(Main) <= 1
          <5> SUFFICES ASSUME Depth(Main) > 1
                       PROVE  FALSE
            BY <1>3
          <5>1. 2 \in 2 .. Depth(Main) /\ 2 \in 1 .. Depth(Main)
            BY <1>3
          <5> QED
            BY <4>1, <5>1 DEF StacksOK
        <4>3. Running = 0
          BY <1>3, <4>1, <4>2 DEF Running
        <4>4. Running' <= 1
          BY <2>11, <4>3
        <4>5. ASSUME NEW d \in 1 .. Depth(Main)'
              PROVE  Second(stack[Main][d])'
          <5>1. CASE d \in 1 .. Depth(Main)
            BY <2>4, <4>1, <5>1 DEF Second
          <5>2. CASE d = Depth(Main) + 1
            <6>1. stack'[Main][d] = Frame("sigint")
              BY <2>4, <5>2
            <6> DEFINE n == Len(stack'[Main][d].todo)
            <6>2. n = 10
              BY <2>5, <6>1
            <6> HIDE DEF n
            <6>3. ~(n <= 8) /\ ~(n <= 5)
              BY <6>2
            <6> QED
              BY <6>3 DEF Second, n
          <5> QED
            BY <1>3, <2>4, <5>1, <5>2
        <4> QED
          BY <1>2, <4>1, <4>4, <4>5 DEF SecondAborts
      <3> QED
        BY <1>2, <3>1, <3>2 DEF SecondAborts
    <2> QED
      BY <2>3, <2>9, <2>10, <2>12, <2>13
  <1> QED
    BY <1>5, <1>6

-----------------------------------------------------------------------------
LEMMA StepKeeps ==
  ASSUME ShutdownInv, NEW t \in Threads, Step(t)
  PROVE  ShutdownInv'
  <1>1. CASE Take(t)
    BY <1>1, TakeKeeps
  <1>2. CASE Release(t)
    BY <1>2, ReleaseKeeps
  <1>3. CASE Look(t)
    BY <1>3, LookKeeps
  <1>4. CASE BeginShutdown(t)
    BY <1>4, BeginShutdownKeeps
  <1>5. CASE TakeSignal(t)
    BY <1>5, TakeSignalKeeps
  <1>6. CASE ReleaseSignal(t)
    BY <1>6, ReleaseSignalKeeps
  <1>7. CASE ReadOriginal(t)
    BY <1>7, ReadOriginalKeeps
  <1>8. CASE Forward(t)
    BY <1>8, ForwardKeeps
  <1>9. CASE CheckInstall(t)
    BY <1>9, CheckInstallKeeps
  <1>10. CASE SaveOriginal(t)
    BY <1>10, SaveOriginalKeeps
  <1>11. CASE SetHandler(t)
    BY <1>11, SetHandlerKeeps
  <1>12. CASE MarkInstalled(t)
    BY <1>12, MarkInstalledKeeps
  <1>13. CASE CheckRestore(t)
    BY <1>13, CheckRestoreKeeps
  <1>14. CASE ResetHandler(t)
    BY <1>14, ResetHandlerKeeps
  <1>15. CASE ClearInstalled(t)
    BY <1>15, ClearInstalledKeeps
  <1> QED
    BY <1>1, <1>2, <1>3, <1>4, <1>5, <1>6, <1>7, <1>8, <1>9, <1>10, <1>11, <1>12, <1>13,
       <1>14, <1>15 DEF Step

\* Nothing runs at first.
LEMMA ShutdownInit ==
  ASSUME Init
  PROVE  ShutdownInv
  <1>1. \A t \in Threads : stack[t] = <<>> /\ Depth(t) = 0
    BY DEF Init, Depth
  <1>2. Main \in Threads /\ Workers \subseteq Threads
    BY DEF Threads
  <1>3. StacksOK
    <2>1. stack \in [Threads -> Seq(Frames)]
      BY EmptySeq DEF Init
    <2> QED
      BY <1>1, <1>2, <2>1 DEF StacksOK
  <1>4. FramesKnow
    BY <1>1 DEF FramesKnow
  <1>5. ModeOK
    BY DEF ModeOK, Init, None, DRAIN, ABORT
  <1>6. LockOwned /\ SignalLockOwned
    BY DEF LockOwned, SignalLockOwned, Init
  <1>7. HandlerOK
    <2>1. ~(Depth(Main) > 0)
      BY <1>1, <1>2
    <2>2. installed = FALSE /\ Settled
      BY DEF Settled, Init
    <2> QED
      BY <2>1, <2>2 DEF HandlerOK, InRoutine
  <1>8. HandlersFindOriginal
    BY <1>1, <1>2 DEF HandlersFindOriginal, HandlerRunning
  <1>9. Running = 0
    BY <1>1, <1>2 DEF Running
  <1>10. SignalsCount
    <2>1. (IF pending THEN 1 ELSE 0) = 0 /\ pending \in BOOLEAN
      BY DEF Init
    <2>2. pressed = 0 /\ handled = 0 /\ forwarded = 0
      BY DEF Init
    <2> QED
      BY <1>9, <2>1, <2>2, ShutdownAssumption DEF SignalsCount
  <1>11. SecondAborts
    <2>1. nested \in BOOLEAN
      BY DEF Init
    <2>2. handled = 0
      BY DEF Init
    <2>3. ~(handled >= 1) /\ ~(handled >= 2) /\ Running <= 1
      BY <1>9, <2>2
    <2> QED
      BY <2>1, <2>3 DEF SecondAborts
  <1> QED
    BY <1>3, <1>4, <1>5, <1>6, <1>7, <1>8, <1>10, <1>11 DEF ShutdownInv

LEMMA ShutdownNext ==
  ASSUME ShutdownInv, [Next]_vars
  PROVE  ShutdownInv'
  <1>1. CASE \E t \in Threads : Step(t)
    BY <1>1, StepKeeps
  <1>2. CASE \E routine \in MainRoutines : Call(routine)
    BY <1>2, CallKeeps
  <1>3. CASE \E t \in Workers, routine \in WorkerRoutines : WorkerCall(t, routine)
    BY <1>3, WorkerCallKeeps
  <1>4. CASE Press
    BY <1>4, PressKeeps
  <1>5. CASE Deliver
    BY <1>5, DeliverKeeps
  <1>6. CASE UNCHANGED vars
    <2>1. UNCHANGED <<shutting_down, mode, installed, original, disposition, lock, signal_lock,
                      stack, pressed, pending, nested, handled, forwarded>>
      BY <1>6 DEF vars, coordinator, handler, locks, signals, counts
    <2>2. Running' = Running
      BY <2>1 DEF Running, Depth
    <2>3. /\ StacksOK' /\ FramesKnow' /\ ModeOK' /\ LockOwned' /\ SignalLockOwned'
      BY <2>1 DEF ShutdownInv, StacksOK, FramesKnow, Knows, ModeOK, LockOwned, SignalLockOwned, Depth
    <2>4. HandlerOK' /\ HandlersFindOriginal'
      BY <2>1 DEF ShutdownInv, HandlerOK, HandlersFindOriginal, HandlerRunning, Halfway,
                  InRoutine, Settled, Depth
    <2>5. SignalsCount' /\ SecondAborts'
      BY <2>1, <2>2 DEF ShutdownInv, SignalsCount, SecondAborts, Second, Depth
    <2> QED
      BY <2>3, <2>4, <2>5 DEF ShutdownInv
  <1> QED
    BY <1>1, <1>2, <1>3, <1>4, <1>5, <1>6 DEF Next

\* The invariant the theorems of this module are read off: what each frame has
\* come to know, who owns the locks, and where the SIGINT handler stands.
LEMMA ShutdownInvariant == Spec => []ShutdownInv
  BY ShutdownInit, ShutdownNext, PTL DEF Spec
-----------------------------------------------------------------------------
\* The flag and the mode of the coordinator always say the same, each lock is
\* free or held by a frame that exists, and no handler forwards more than one
\* signal (shutdown.py, signals.py).
THEOREM ShutdownTypeCorrect == Spec => []TypeOK
  <1>1. ShutdownInv => TypeOK
    <2> SUFFICES ASSUME ShutdownInv
                 PROVE  TypeOK
      OBVIOUS
    <2>1. \A l \in {lock, signal_lock} :
            l = Free \/ \E t \in Threads : \E d \in 1 .. Depth(t) : l = <<t, d>>
      BY DEF ShutdownInv, LockOwned, SignalLockOwned
    <2>2. installed \in BOOLEAN /\ original \in {None, Theirs, Ours} /\ disposition \in {Theirs, Ours}
      BY DEF ShutdownInv, HandlerOK, Halfway, Settled
    <2>3. handled \in 0 .. MaxPresses /\ forwarded \in 0 .. handled
      <3>1. Main \in Threads
        BY DEF Threads
      <3>2. Depth(Main) \in Nat
        BY <3>1, DepthIsNat DEF ShutdownInv
      <3>3. Running \in Nat
        BY <3>2 DEF Running
      <3>4. pressed \in 0 .. MaxPresses /\ handled \in Nat /\ forwarded = handled
        BY DEF ShutdownInv, SignalsCount
      <3>5. handled + Running + (IF pending THEN 1 ELSE 0) <= pressed
        BY DEF ShutdownInv, SignalsCount
      <3>6. (IF pending THEN 1 ELSE 0) \in {0, 1}
        OBVIOUS
      <3>7. handled <= pressed
        BY <3>3, <3>4, <3>5, <3>6, ShutdownAssumption
      <3> QED
        BY <3>4, <3>7, ShutdownAssumption
    <2> QED
      BY <2>1, <2>2, <2>3 DEF TypeOK, ShutdownInv, ModeOK
  <1> QED
    BY <1>1, ShutdownInvariant, PTL

\* A shutdown is never taken back and an abort never becomes a drain again,
\* whichever threads and signals ask for what (shutdown.py begin_shutdown).
THEOREM ShutdownMovesForward == Spec => ModeMovesForward
  <1>1. ASSUME ShutdownInv, [Next]_vars
        PROVE  [mode' # mode => mode = None \/ (mode = DRAIN /\ mode' = ABORT)]_vars
    <2>1. CASE \E t \in Threads : BeginShutdown(t)
      BY <1>1, <2>1 DEF ShutdownInv, ModeOK, BeginShutdown
    <2>2. CASE mode' = mode
      BY <2>2
    <2> QED
      BY <1>1, <2>1, <2>2
         DEF Next, Step, Take, Release, Look, TakeSignal, ReleaseSignal, ReadOriginal, Forward,
             CheckInstall, SaveOriginal, SetHandler, MarkInstalled, CheckRestore, ResetHandler,
             ClearInstalled, Call, WorkerCall, Press, Deliver, coordinator, vars
  <1> QED
    BY <1>1, ShutdownInvariant, PTL DEF Spec, ModeMovesForward

\* Once two handlers have run, one after the other, the process aborts
\* (docs/usage.md, "Shutdown Behavior"; signals.py handle_sigint).
THEOREM TwoHandlersAbort == Spec => []SecondSigintAborts
  <1>1. ShutdownInv => SecondSigintAborts
    BY DEF ShutdownInv, SecondAborts, SecondSigintAborts
  <1> QED
    BY <1>1, ShutdownInvariant, PTL

\* Whenever the main thread is idle the process's SIGINT handler is this one if
\* it is installed and the original one if it is not (signals.py).
THEOREM InstallAndRestoreMatch == Spec => []DispositionRestored
  <1>1. ShutdownInv => DispositionRestored
    BY DEF ShutdownInv, HandlerOK, Halfway, InRoutine, Settled, DispositionRestored
  <1> QED
    BY <1>1, ShutdownInvariant, PTL

\* No SIGINT is swallowed: each handler that has run called the original one
\* (signals.py handle_sigint).
THEOREM EverySignalForwarded == Spec => []SignalsForwarded
  <1>1. ShutdownInv => SignalsForwarded
    BY DEF ShutdownInv, SignalsCount, SignalsForwarded
  <1> QED
    BY <1>1, ShutdownInvariant, PTL
=============================================================================
