-------------------------- MODULE LargeFileProofs --------------------------
(* The parts of a split file are the file, the speed limit holds up to a     *)
(* chunk per worker, and only a silent stream is stopped: for any size of    *)
(* file and of parts, any number of workers and retries, and any threshold.  *)
EXTENDS LargeFile, FiniteSetTheorems, TLAPS

(***************************************************************************)
(* Arithmetic of the split.                                                *)
(***************************************************************************)

LEMMA Quotient ==
  ASSUME NEW a \in Nat, NEW t \in Nat \ {0}
  PROVE  a \div t \in Nat /\ (a \div t) * t <= a /\ a < (a \div t) * t + t
BY SMTT(20)

LEMMA Spaced ==
  ASSUME NEW a \in Nat, NEW b \in Nat, NEW t \in Nat \ {0}, a < b
  PROVE  a * t \in Nat /\ b * t \in Nat /\ a * t + t <= b * t
BY SMTT(20)

\* As many parts as it takes to count the size in units of SplitSize.
LEMMA CountFacts ==
  ASSUME NEW size \in Nat \ {0}
  PROVE  Count(size) \in Nat /\ Count(size) >= 1 /\ size <= Count(size) * SplitSize
<1> DEFINE n == (size + SplitSize - 1) \div SplitSize
<1>1. SplitSize \in Nat \ {0} /\ size + SplitSize - 1 \in Nat
  BY LargeAssumption DEF LargeAssumption
<1>2. n \in Nat /\ size + SplitSize - 1 < n * SplitSize + SplitSize
  BY <1>1, Quotient
<1>3. n * SplitSize \in Nat
  BY <1>1, <1>2
<1>4. n # 0
  <2>1. 0 * SplitSize = 0
    BY <1>1
  <2> HIDE DEF n
  <2> QED BY <1>1, <1>2, <2>1
<1> HIDE DEF n
<1>5. size <= n * SplitSize /\ n >= 1
  BY <1>1, <1>2, <1>3, <1>4
<1> QED BY <1>2, <1>5 DEF Count, n

LEMMA StartFacts ==
  ASSUME NEW i \in Nat \ {0}
  PROVE  /\ ClipStart(i) \in Nat
         /\ \A j \in Nat : i < j => ClipStart(i) + SplitSize + 1 <= ClipStart(j)
<1>1. SplitSize + 1 \in Nat \ {0} /\ i - 1 \in Nat
  BY LargeAssumption DEF LargeAssumption
<1>2. (i - 1) * (SplitSize + 1) \in Nat
  BY <1>1
<1>3. ASSUME NEW j \in Nat, i < j
      PROVE  ClipStart(i) + SplitSize + 1 <= ClipStart(j)
  <2>1. j - 1 \in Nat /\ i - 1 < j - 1
    BY <1>1, <1>3
  <2>2. /\ (i - 1) * (SplitSize + 1) \in Nat /\ (j - 1) * (SplitSize + 1) \in Nat
        /\ (i - 1) * (SplitSize + 1) + (SplitSize + 1) <= (j - 1) * (SplitSize + 1)
    BY <1>1, <2>1, Spaced
  <2> DEFINE x == (i - 1) * (SplitSize + 1)
             y == (j - 1) * (SplitSize + 1)
  <2>3. x \in Nat /\ y \in Nat /\ x + (SplitSize + 1) <= y
    BY <2>2
  <2>4. ClipStart(i) = x /\ ClipStart(j) = y
    BY DEF ClipStart
  <2> HIDE DEF x, y
  <2> QED BY <1>1, <2>3, <2>4, LargeAssumption DEF LargeAssumption
<1> QED BY <1>2, <1>3 DEF ClipStart

(***************************************************************************)
(* The parts and what is promised for them.                                *)
(***************************************************************************)

LEMMA PartsFacts ==
  ASSUME file \in Files
  PROVE  /\ file.size \in Nat \ {0} /\ file.size <= MaxSize
         /\ Parts \subseteq Nat \ {0} /\ 1 \in Parts /\ IsFiniteSet(Parts)
<1>0. file.size \in Sizes
  BY DEF Files
<1>a. Sizes \subseteq 1..MaxSize /\ MaxSize \in Nat
  BY LargeAssumption DEF LargeAssumption
<1>b. \A n \in 1..MaxSize : n \in Nat \ {0} /\ n <= MaxSize
  BY <1>a
<1>1. file.size \in Nat \ {0} /\ file.size <= MaxSize
  BY <1>0, <1>a, <1>b
<1>2. Count(file.size) \in Nat /\ Count(file.size) >= 1
  BY <1>1, CountFacts
<1>3. \A n \in Nat : IsFiniteSet(1..n)
  BY FS_Interval
<1>4. IsFiniteSet({1})
  BY FS_Singleton
<1>5. IsFiniteSet(1..Count(file.size))
  BY <1>2, <1>3
<1> QED BY <1>1, <1>2, <1>4, <1>5 DEF Parts

LEMMA PromisedFacts ==
  ASSUME file \in Files, NEW i \in Parts
  PROVE  First(i) \in Nat /\ Promised(i) \in Int /\ Promised(i) <= MaxSize
<1>1. file.size \in Nat \ {0} /\ file.size <= MaxSize /\ i \in Nat \ {0} /\ MaxSize \in Nat
  BY PartsFacts, LargeAssumption DEF LargeAssumption
<1>2. ClipStart(i) \in Nat
  BY <1>1, StartFacts
<1>3. First(i) \in Nat
  BY <1>2 DEF First
<1>4. CASE ~(IsSplit(file) /\ RangesServed)
  BY <1>1, <1>3, <1>4 DEF Promised
<1>5. CASE IsSplit(file) /\ RangesServed
  <2> DEFINE stop == StopRange(Clip(file.size, i))
             last == IF stop < file.size THEN stop ELSE file.size - 1
  <2>1. stop \in Int
    BY <1>1, <1>2, LargeAssumption DEF StopRange, Clip, LargeAssumption
  <2> HIDE DEF stop
  <2>2. last \in Int /\ last <= file.size - 1
    BY <1>1, <2>1
  <2>3. Promised(i) = last - First(i) + 1
    BY <1>5 DEF Promised, stop
  <2> HIDE DEF last
  <2> QED BY <1>1, <1>3, <2>2, <2>3
<1> QED BY <1>4, <1>5

(***************************************************************************)
(* Types.                                                                  *)
(***************************************************************************)

Worker == [phase : Phases, got : 0..MaxSize, left : 0..Retries]

\* The file stays, so the parts and what they are stay.
LEMMA FileStays ==
  ASSUME file' = file
  PROVE  /\ Parts' = Parts /\ IsSplit(file)' = IsSplit(file) /\ RangesServed' = RangesServed
         /\ \A i : First(i)' = First(i) /\ Promised(i)' = Promised(i) /\ Answered(i)' = Answered(i)
BY DEF Parts, RangesServed, First, Promised, Answered

LEMMA NextKeepsFile == [Next]_vars => file' = file
BY DEF Next, vars, Ask, Receive, ReadFails, Proceed, AskFails, PassLimit, CheckSlow,
   ReadTimeout, StopOrGoOn, Report, EndBody, Retry, Second, Finish

LEMMA WorkerForms ==
  /\ Unstarted \in Worker
  /\ \A w \in Worker :
       /\ [w EXCEPT !.phase = "reading", !.got = 0] \in Worker
       /\ w.left > 0 => [w EXCEPT !.phase = "asking", !.left = w.left - 1] \in Worker
       /\ \A n \in 1..MaxChunk : w.got + n <= MaxSize =>
            [w EXCEPT !.phase = "limiting", !.got = w.got + n] \in Worker
<1>1. MaxSize \in Nat /\ Retries \in Nat /\ MaxChunk \in Nat
  BY LargeAssumption DEF LargeAssumption
<1>2. Unstarted \in Worker
  BY <1>1 DEF Worker, Unstarted, Phases
<1>0. \A w \in Worker, phase \in Phases : [w EXCEPT !.phase = phase] \in Worker
  BY DEF Worker
<1>3. ASSUME NEW w \in Worker
      PROVE  [w EXCEPT !.phase = "reading", !.got = 0] \in Worker
  <2> DEFINE v == [w EXCEPT !.phase = "reading"]
  <2>1. [w EXCEPT !.phase = "reading", !.got = 0] = [v EXCEPT !.got = 0]
    BY DEF Worker
  <2>2. v \in Worker
    BY <1>0 DEF Phases
  <2> HIDE DEF v
  <2> QED BY <1>1, <2>1, <2>2 DEF Worker
<1>4. ASSUME NEW w \in Worker, w.left > 0
      PROVE  [w EXCEPT !.phase = "asking", !.left = w.left - 1] \in Worker
  <2> DEFINE v == [w EXCEPT !.phase = "asking"]
  <2>1. [w EXCEPT !.phase = "asking", !.left = w.left - 1] = [v EXCEPT !.left = w.left - 1]
    BY DEF Worker
  <2>2. v \in Worker /\ w.left - 1 \in 0..Retries
    BY <1>0, <1>1, <1>4 DEF Worker, Phases
  <2> HIDE DEF v
  <2> QED BY <2>1, <2>2 DEF Worker
<1>5. ASSUME NEW w \in Worker, NEW n \in 1..MaxChunk, w.got + n <= MaxSize
      PROVE  [w EXCEPT !.phase = "limiting", !.got = w.got + n] \in Worker
  <2> DEFINE v == [w EXCEPT !.phase = "limiting"]
  <2>1. [w EXCEPT !.phase = "limiting", !.got = w.got + n] = [v EXCEPT !.got = w.got + n]
    BY DEF Worker
  <2>2. v \in Worker /\ w.got + n \in 0..MaxSize
    BY <1>0, <1>1, <1>5 DEF Worker, Phases
  <2> HIDE DEF v
  <2> QED BY <2>1, <2>2 DEF Worker
<1> QED BY <1>2, <1>3, <1>4, <1>5

LEMMA InitTypes == Init => TypeOK
<1> SUFFICES ASSUME Init PROVE TypeOK
  OBVIOUS
<1>1. part \in [Parts -> Worker]
  BY WorkerForms DEF Init
<1>2. quiet \in 0..StopAt /\ window \in Nat /\ low \in Nat
  BY LargeAssumption DEF Init, LargeAssumption
<1>3. due \in BOOLEAN /\ file \in Files /\ result \in {"running", "failed", "ok"}
  BY DEF Init
<1> QED BY <1>1, <1>2, <1>3 DEF TypeOK, Worker

\* One worker moves, and stays a worker.
LEMMA WorkerMoves ==
  ASSUME TypeOK, NEW i \in Parts, NEW w \in Worker, file' = file,
         part' = [part EXCEPT ![i] = w]
  PROVE  part' \in [Parts' -> Worker]
BY FileStays DEF TypeOK, Worker

\* What a critical section leaves of the speed state.
LEMMA SpeedMoves ==
  ASSUME TypeOK
  PROVE  WindowAfter \in Nat /\ LowAfter \in Nat
BY DEF TypeOK, WindowAfter, LowAfter

LEMMA PhaseMoves ==
  ASSUME TypeOK, NEW i \in Parts, NEW phase \in Phases
  PROVE  /\ [part[i] EXCEPT !.phase = phase] \in Worker
         /\ To(i, phase) => part' = [part EXCEPT ![i] = [part[i] EXCEPT !.phase = phase]]
BY DEF TypeOK, Worker, To

LEMMA WorkerTypes ==
  ASSUME TypeOK, NEW i \in Parts, Ask(i) \/ Receive(i) \/ ReadFails(i) \/ Proceed(i)
  PROVE  TypeOK'
<1>1. file' = file /\ file \in Files /\ result' = result /\ part \in [Parts -> Worker]
  BY DEF TypeOK, Worker, Ask, Receive, ReadFails, Proceed, AskFails, PassLimit, CheckSlow,
     ReadTimeout, StopOrGoOn, Report, EndBody, Retry
<1>0. part[i] \in Worker
  BY <1>1
<1>2. part' \in [Parts' -> Worker]
  <2> SUFFICES ASSUME \A w \in Worker : part' # [part EXCEPT ![i] = w]
               PROVE  FALSE
    BY <1>1, WorkerMoves
  <2>1. \A phase \in Phases : ~To(i, phase)
    BY PhaseMoves
  <2>2. ~AskFails(i) /\ ~PassLimit(i) /\ ~Report(i) /\ ~EndBody(i) /\ ~ReadFails(i)
    BY <2>1 DEF AskFails, PassLimit, Report, EndBody, ReadFails, Phases
  <2>3. ~CheckSlow(i) /\ ~ReadTimeout(i)
    BY <2>1 DEF CheckSlow, ReadTimeout, StopOrGoOn, Phases
  <2>4. ~Ask(i)
    <3> SUFFICES ASSUME Ask(i) PROVE FALSE
      OBVIOUS
    <3>1. [part[i] EXCEPT !.phase = "reading", !.got = 0] \in Worker
      BY <1>0, WorkerForms
    <3>2. part' = [part EXCEPT ![i] = [part[i] EXCEPT !.phase = "reading", !.got = 0]]
      BY <1>1 DEF Ask
    <3> QED BY <3>1, <3>2
  <2>5. ~Receive(i)
    <3> SUFFICES ASSUME Receive(i) PROVE FALSE
      OBVIOUS
    <3>1. PICK n \in 1..MaxChunk :
            /\ part[i].got + n <= Promised(i)
            /\ part' = [part EXCEPT ![i].phase = "limiting", ![i].got = @ + n]
      BY DEF Receive
    <3>2. [part[i] EXCEPT !.phase = "limiting", !.got = part[i].got + n] \in Worker
      <4>1. part[i].got + n <= MaxSize
        BY <1>0, <1>1, <3>1, PromisedFacts, LargeAssumption DEF Worker, LargeAssumption
      <4> QED BY <1>0, <4>1, WorkerForms
    <3>3. part' = [part EXCEPT ![i] = [part[i] EXCEPT !.phase = "limiting",
                                                     !.got = part[i].got + n]]
      BY <3>1
    <3> QED BY <3>2, <3>3
  <2>6. ~Retry(i)
    <3> SUFFICES ASSUME Retry(i) PROVE FALSE
      OBVIOUS
    <3>1. part[i].left > 0 =>
            [part[i] EXCEPT !.phase = "asking", !.left = part[i].left - 1] \in Worker
      BY <1>0, WorkerForms
    <3>2. part[i].left > 0 /\
            part' = [part EXCEPT ![i] = [part[i] EXCEPT !.phase = "asking",
                                                       !.left = part[i].left - 1]]
      BY <2>1 DEF Retry, Phases
    <3> QED BY <3>1, <3>2
  <2> QED BY <2>2, <2>3, <2>4, <2>5, <2>6 DEF Proceed
<1>3. window' \in Nat /\ low' \in Nat /\ due' \in BOOLEAN /\ quiet' \in 0..StopAt
  <2>0. window \in Nat /\ low \in Nat /\ due \in BOOLEAN /\ quiet \in 0..StopAt
    BY DEF TypeOK
  <2>1. CASE Receive(i)
    <3>1. due' = due /\ low' = low /\ quiet' = 0 /\ \E n \in 1..MaxChunk : window' = window + n
      BY <2>1 DEF Receive
    <3>2. window' \in Nat /\ quiet' \in 0..StopAt
      BY <2>0, <3>1, LargeAssumption DEF LargeAssumption
    <3> QED BY <2>0, <3>1, <3>2
  <2>2. CASE Ask(i) \/ ReadFails(i) \/ AskFails(i) \/ EndBody(i) \/ Retry(i)
    BY <2>0, <2>2 DEF Ask, ReadFails, AskFails, EndBody, Retry, KeepSpeed
  <2>3. CASE PassLimit(i) \/ Report(i)
    BY <2>0, <2>3, SpeedMoves DEF PassLimit, Report, Tick
  <2>4. CASE CheckSlow(i) \/ ReadTimeout(i)
    <3>1. window' = WindowAfter /\ due' = FALSE /\ quiet' = quiet /\ low' \in {0, LowAfter}
      BY <2>4 DEF CheckSlow, ReadTimeout, StopOrGoOn
    <3>2. low' \in Nat
      BY <3>1, SpeedMoves
    <3> QED BY <2>0, <3>1, <3>2, SpeedMoves
  <2> QED BY <2>1, <2>2, <2>3, <2>4 DEF Proceed
<1> QED BY <1>1, <1>2, <1>3 DEF TypeOK, Worker

LEMMA NextTypes == TypeOK /\ [Next]_vars => TypeOK'
<1> SUFFICES ASSUME TypeOK, [Next]_vars PROVE TypeOK'
  OBVIOUS
<1>1. ASSUME NEW i \in Parts, Ask(i) \/ Receive(i) \/ ReadFails(i) \/ Proceed(i)
      PROVE  TypeOK'
  BY <1>1, WorkerTypes
<1>2. CASE Second
  BY <1>2, FileStays, LargeAssumption DEF Second, TypeOK, LargeAssumption
<1>3. CASE Finish
  BY <1>3, FileStays DEF Finish, TypeOK
<1>4. CASE UNCHANGED vars
  BY <1>4, FileStays DEF vars, TypeOK
<1> QED BY <1>1, <1>2, <1>3, <1>4 DEF Next

\* The file, the workers and the speed state keep their types, and no attempt
\* receives more than the file has (download_http and SpeedState).
THEOREM TypeCorrect == Spec => []TypeOK
<1> QED BY InitTypes, NextTypes, PTL DEF Spec

(***************************************************************************)
(* What the step of a worker does to the phases.                           *)
(***************************************************************************)

Moves(i, from, to) ==
  /\ part[i].phase = from /\ part'[i].phase = to
  /\ \A j \in Parts \ {i} : part'[j] = part[j]

LEMMA ToMoves ==
  ASSUME TypeOK, NEW i \in Parts, NEW from, NEW to, Working(i, from), To(i, to)
  PROVE  Moves(i, from, to) /\ part'[i].got = part[i].got
BY DEF TypeOK, Working, To, Moves

EndOf(i) == IF file.lengths /\ part[i].got # Promised(i) THEN "short" ELSE "done"

LEMMA Steps ==
  ASSUME TypeOK, NEW i \in Parts
  PROVE  /\ Ask(i) => Moves(i, "asking", "reading")
         /\ AskFails(i) => Moves(i, "asking", "broken")
         /\ Receive(i) => Moves(i, "reading", "limiting")
         /\ PassLimit(i) => Moves(i, "limiting", "checking")
         /\ CheckSlow(i) => Moves(i, "checking", IF ShouldStop THEN "slow" ELSE "reporting")
         /\ ReadTimeout(i) => Moves(i, "reading", IF ShouldStop THEN "slow" ELSE "reading")
         /\ Report(i) => Moves(i, "reporting", "reading")
         /\ ReadFails(i) => Moves(i, "reading", "broken")
         /\ EndBody(i) => Moves(i, "reading", EndOf(i))
         /\ Retry(i) => \E from \in {"broken", "slow"}, to \in {"asking", "missing"} :
                           Moves(i, from, to)
<1>1. AskFails(i) => Moves(i, "asking", "broken")
  BY ToMoves DEF AskFails
<1>2. PassLimit(i) => Moves(i, "limiting", "checking")
  BY ToMoves DEF PassLimit
<1>3. CheckSlow(i) => Moves(i, "checking", IF ShouldStop THEN "slow" ELSE "reporting")
  BY ToMoves DEF CheckSlow, StopOrGoOn
<1>4. ReadTimeout(i) => Moves(i, "reading", IF ShouldStop THEN "slow" ELSE "reading")
  BY ToMoves DEF ReadTimeout, StopOrGoOn
<1>5. Report(i) => Moves(i, "reporting", "reading")
  BY ToMoves DEF Report
<1>6. ReadFails(i) => Moves(i, "reading", "broken")
  BY ToMoves DEF ReadFails
<1>7. EndBody(i) => Moves(i, "reading", EndOf(i))
  BY ToMoves DEF EndBody, EndOf
<1>8. Ask(i) => Moves(i, "asking", "reading")
  BY DEF Ask, Moves, Working, TypeOK
<1>9. Receive(i) => Moves(i, "reading", "limiting")
  <2> SUFFICES ASSUME Receive(i) PROVE Moves(i, "reading", "limiting")
    OBVIOUS
  <2>1. PICK n : part' = [part EXCEPT ![i].phase = "limiting", ![i].got = @ + n]
    BY DEF Receive
  <2> QED BY <2>1 DEF Receive, Moves, Working, TypeOK
<1>10. Retry(i) => \E from \in {"broken", "slow"}, to \in {"asking", "missing"} :
                     Moves(i, from, to)
  <2> SUFFICES ASSUME Retry(i)
               PROVE  \E from \in {"broken", "slow"}, to \in {"asking", "missing"} :
                        Moves(i, from, to)
    OBVIOUS
  <2>1. PICK from \in {"broken", "slow"} : Working(i, from)
    BY DEF Retry
  <2>2. CASE To(i, "missing")
    BY <2>1, <2>2, ToMoves
  <2>3. CASE part' = [part EXCEPT ![i].phase = "asking", ![i].left = @ - 1]
    BY <2>1, <2>3 DEF Moves, Working, TypeOK
  <2> QED BY <2>2, <2>3 DEF Retry
<1> QED BY <1>1, <1>2, <1>3, <1>4, <1>5, <1>6, <1>7, <1>8, <1>9, <1>10

(***************************************************************************)
(* The low-speed stop.                                                     *)
(***************************************************************************)

\* While the count is below the threshold and nothing has come in since the last
\* tick, it is no more than what was silent.
SpeedInv == window = 0 /\ low < StopAt => low <= quiet /\ (due => low < quiet)

Stopped == \E i \in Parts : part'[i].phase = "slow" /\ part[i].phase # "slow"

LEMMA InitSpeed == Init => SpeedInv
BY DEF Init, SpeedInv

\* A critical section that ticks.
LEMMA TickKeeps ==
  ASSUME TypeOK, SpeedInv, window' = WindowAfter, due' = FALSE, quiet' = quiet,
         low' = LowAfter \/ low' = 0
  PROVE  /\ SpeedInv'
         /\ low < StopAt /\ LowAfter >= StopAt => quiet >= StopAt
<1>1. /\ window \in Nat /\ low \in Nat /\ quiet \in Nat /\ StopAt \in Nat \ {0}
      /\ LowAfter \in Nat /\ low' \in Nat
  BY SpeedMoves, LargeAssumption DEF TypeOK, LargeAssumption
<1>2. window' = 0 /\ low' < StopAt => low' <= quiet'
  <2>1. CASE low' = 0
    BY <1>1, <2>1
  <2>2. CASE low' = LowAfter /\ due
    BY <1>1, <2>2 DEF SpeedInv, LowAfter
  <2>3. CASE low' = LowAfter /\ ~due
    BY <1>1, <2>3 DEF SpeedInv, WindowAfter, LowAfter
  <2> QED BY <2>1, <2>2, <2>3
<1>3. low < StopAt /\ LowAfter >= StopAt => quiet >= StopAt
  BY <1>1 DEF SpeedInv, LowAfter
<1> QED BY <1>2, <1>3 DEF SpeedInv

LEMMA WorkerSpeed ==
  ASSUME TypeOK, SpeedInv, NEW i \in Parts,
         Ask(i) \/ Receive(i) \/ ReadFails(i) \/ Proceed(i)
  PROVE  SpeedInv' /\ (low < StopAt /\ (low' >= StopAt \/ Stopped) => quiet >= StopAt)
<1>0. window \in Nat /\ low \in Nat /\ quiet \in Nat /\ StopAt \in Nat \ {0}
  BY LargeAssumption DEF TypeOK, LargeAssumption
<1>1. CASE Ask(i) \/ AskFails(i) \/ ReadFails(i) \/ EndBody(i) \/ Retry(i)
  <2>1. UNCHANGED <<window, low, due, quiet>>
    BY <1>1 DEF Ask, AskFails, ReadFails, EndBody, Retry, KeepSpeed
  <2>2. PICK from \in Phases, to \in Phases \ {"slow"} : Moves(i, from, to)
    BY <1>1, Steps DEF Phases, EndOf
  <2>3. ~Stopped
    BY <2>2 DEF Moves, Stopped
  <2>4. SpeedInv'
    BY <2>1 DEF SpeedInv
  <2> QED BY <1>0, <2>1, <2>3, <2>4
<1>2. CASE Receive(i)
  <2>1. PICK n \in 1..MaxChunk : window' = window + n
    BY <1>2 DEF Receive
  <2>2. window' > 0 /\ low' = low
    BY <1>0, <1>2, <2>1, LargeAssumption DEF Receive, LargeAssumption
  <2>3. SpeedInv'
    BY <1>0, <2>2 DEF SpeedInv
  <2>4. ~Stopped
    BY <1>2, Steps DEF Moves, Stopped
  <2> QED BY <1>0, <2>2, <2>3, <2>4
<1>3. CASE PassLimit(i) \/ Report(i)
  <2>1. window' = WindowAfter /\ low' = LowAfter /\ due' = FALSE /\ quiet' = quiet
    BY <1>3 DEF PassLimit, Report, Tick
  <2>2. ~Stopped
    BY <1>3, Steps DEF Moves, Stopped
  <2> QED BY <2>1, <2>2, TickKeeps
<1>4. CASE CheckSlow(i) \/ ReadTimeout(i)
  <2>1. /\ window' = WindowAfter /\ due' = FALSE /\ quiet' = quiet
        /\ low' = IF ShouldStop THEN 0 ELSE LowAfter
    BY <1>4 DEF CheckSlow, ReadTimeout, StopOrGoOn
  <2>2. SpeedInv' /\ (low < StopAt /\ ShouldStop => quiet >= StopAt)
    BY <2>1, TickKeeps DEF ShouldStop
  <2>3. Stopped => ShouldStop
    BY <1>4, Steps DEF Moves, Stopped
  <2>4. low' >= StopAt => ShouldStop
    BY <1>0, <2>1, SpeedMoves DEF ShouldStop
  <2> QED BY <2>2, <2>3, <2>4
<1> QED BY <1>1, <1>2, <1>3, <1>4 DEF Proceed

LEMMA NextSpeed ==
  TypeOK /\ SpeedInv /\ [Next]_vars =>
    SpeedInv' /\ (low < StopAt /\ (low' >= StopAt \/ Stopped) => quiet >= StopAt)
<1> SUFFICES ASSUME TypeOK, SpeedInv, [Next]_vars
             PROVE  SpeedInv' /\ (low < StopAt /\ (low' >= StopAt \/ Stopped) => quiet >= StopAt)
  OBVIOUS
<1>0. window \in Nat /\ low \in Nat /\ quiet \in 0..StopAt /\ StopAt \in Nat \ {0}
  BY LargeAssumption DEF TypeOK, LargeAssumption
<1>1. ASSUME NEW i \in Parts, Ask(i) \/ Receive(i) \/ ReadFails(i) \/ Proceed(i)
      PROVE  SpeedInv' /\ (low < StopAt /\ (low' >= StopAt \/ Stopped) => quiet >= StopAt)
  BY <1>1, WorkerSpeed
<1>2. CASE Second
  <2>1. /\ ~due /\ UNCHANGED <<part, window, low>>
        /\ quiet' = IF quiet < StopAt THEN quiet + 1 ELSE quiet
    BY <1>2 DEF Second
  <2>2. window' = 0 /\ low' < StopAt => low' + 1 <= quiet'
    BY <1>0, <2>1 DEF SpeedInv
  <2>3. SpeedInv'
    BY <1>0, <1>2, <2>1, <2>2 DEF SpeedInv, Second
  <2> QED BY <1>0, <2>1, <2>3 DEF Stopped
<1>3. CASE Finish \/ UNCHANGED vars
  <2>1. UNCHANGED <<part, window, low, due, quiet>>
    BY <1>3 DEF Finish, vars
  <2>2. SpeedInv'
    BY <2>1 DEF SpeedInv
  <2> QED BY <1>0, <2>1, <2>2 DEF Stopped
<1> QED BY <1>1, <1>2, <1>3 DEF Next

\* The count of silent seconds reaches the threshold, and an attempt is stopped
\* for it, only when no worker of the stream has received a byte for StopAt
\* seconds (should_cancel_for_low_speed, record_progress_tick).
THEOREM StopsInSilence == Spec => StopMeansSilence
<1>1. Spec => [](TypeOK /\ SpeedInv)
  <2>1. TypeOK /\ SpeedInv /\ [Next]_vars => (TypeOK /\ SpeedInv)'
    BY NextTypes, NextSpeed
  <2>2. Init => TypeOK /\ SpeedInv
    BY InitTypes, InitSpeed
  <2> QED BY <2>1, <2>2, PTL DEF Spec
<1>2. TypeOK /\ SpeedInv /\ [Next]_vars =>
        [low < StopAt
           /\ (low' >= StopAt \/ \E i \in Parts : part'[i].phase = "slow" /\ part[i].phase # "slow")
         => quiet >= StopAt]_vars
  BY NextSpeed DEF Stopped
<1> QED BY <1>1, <1>2, PTL DEF Spec, StopMeansSilence

(***************************************************************************)
(* The speed limit.                                                        *)
(***************************************************************************)

\* A part is begun only when those of earlier batches are settled.
InTurn == \A i \in Parts : part[i].phase # "asking" =>
             \A j \in Parts : BatchOf(j) < BatchOf(i) => Settled(j)

Limiting == {i \in Parts : part[i].phase = "limiting"}

\* The window has passed the limit by a chunk of each worker that waits.
LimitInv == window <= SpeedLimit + MaxChunk * Cardinality(Limiting)

LEMMA WorkerInTurn ==
  ASSUME TypeOK, InTurn, NEW i \in Parts, Ask(i) \/ Receive(i) \/ ReadFails(i) \/ Proceed(i)
  PROVE  InTurn'
<1>1. Parts' = Parts
  <2>1. file' = file
    BY NextKeepsFile DEF Next
  <2> QED BY <2>1, FileStays
<1>2. \A j \in Parts : BatchOf(j) < BatchOf(i) => Settled(j)
  BY DEF Ask, Receive, ReadFails, Proceed, AskFails, PassLimit, CheckSlow, ReadTimeout,
     Report, EndBody, Retry, Working
<1>3. PICK from \in Phases \ {"done", "short", "missing"}, to \in Phases : Moves(i, from, to)
  BY Steps DEF Proceed, Phases, EndOf
<1>4. \A j \in Parts : Settled(j) => part'[j].phase \in {"done", "short", "missing"}
  BY <1>3 DEF Settled, Moves
<1>5. \A j \in Parts : part'[j].phase # "asking" =>
        \A k \in Parts : BatchOf(k) < BatchOf(j) => Settled(k)
  BY <1>2, <1>3 DEF InTurn, Moves
<1> QED BY <1>1, <1>4, <1>5 DEF InTurn, Settled, BatchOf

LEMMA WorkerLimit ==
  ASSUME TypeOK, LimitInv, NEW i \in Parts,
         Ask(i) \/ Receive(i) \/ ReadFails(i) \/ Proceed(i)
  PROVE  LimitInv'
<1>0. /\ window \in Nat /\ SpeedLimit \in Nat /\ MaxChunk \in Nat
      /\ IsFiniteSet(Limiting) /\ Cardinality(Limiting) \in Nat
  <2>1. IsFiniteSet(Parts)
    BY PartsFacts DEF TypeOK
  <2>2. IsFiniteSet(Limiting) /\ Cardinality(Limiting) \in Nat
    BY <2>1, FS_Subset, FS_CardinalityType DEF Limiting
  <2> QED BY <2>2, LargeAssumption DEF TypeOK, LargeAssumption
<1>1. Parts' = Parts
  <2>1. file' = file
    BY NextKeepsFile DEF Next
  <2> QED BY <2>1, FileStays
<1>2. CASE Receive(i)
  <2>1. Moves(i, "reading", "limiting")
    BY <1>2, Steps
  <2>2. Limiting' = Limiting \cup {i} /\ i \notin Limiting
    BY <1>1, <2>1 DEF Moves, Limiting
  <2>3. Cardinality(Limiting') = Cardinality(Limiting) + 1
    BY <1>0, <2>2, FS_AddElement
  <2>4. PICK n \in 1..MaxChunk : window' = window + n
    BY <1>2 DEF Receive
  <2> DEFINE c == Cardinality(Limiting)
  <2>5. MaxChunk * (c + 1) = MaxChunk * c + MaxChunk /\ MaxChunk * c \in Nat
    BY <1>0
  <2>6. window <= SpeedLimit + MaxChunk * c
    BY DEF LimitInv
  <2>7. Cardinality(Limiting)' = c + 1
    BY <2>3
  <2> HIDE DEF c
  <2> QED BY <1>0, <2>4, <2>5, <2>6, <2>7 DEF LimitInv
<1>3. CASE PassLimit(i)
  <2>1. window' <= SpeedLimit
    BY <1>3 DEF PassLimit, Tick
  <2>2. window' \in Nat
    BY <1>3, SpeedMoves DEF PassLimit, Tick
  <2>3. Limiting' \subseteq Limiting
    BY <1>1, <1>3, Steps DEF Moves, Limiting
  <2>4. IsFiniteSet(Limiting') /\ Cardinality(Limiting') \in Nat
    BY <1>0, <2>3, FS_Subset, FS_CardinalityType
  <2>5. MaxChunk * Cardinality(Limiting') \in Nat
    BY <1>0, <2>4
  <2> QED BY <1>0, <2>1, <2>2, <2>5 DEF LimitInv
<1>4. CASE Ask(i) \/ AskFails(i) \/ CheckSlow(i) \/ ReadTimeout(i) \/ Report(i)
           \/ ReadFails(i) \/ EndBody(i) \/ Retry(i)
  <2>1. window' \in Nat /\ window' <= window
    BY <1>0, <1>4 DEF Ask, AskFails, CheckSlow, ReadTimeout, StopOrGoOn, Report, ReadFails,
       EndBody, Retry, KeepSpeed, Tick, WindowAfter
  <2>2. PICK from \in Phases \ {"limiting"}, to \in Phases \ {"limiting"} : Moves(i, from, to)
    BY <1>4, Steps DEF Phases, EndOf
  <2>3. Limiting' = Limiting
    BY <1>1, <2>2 DEF Moves, Limiting
  <2>4. MaxChunk * Cardinality(Limiting) \in Nat
    BY <1>0
  <2> QED BY <1>0, <2>1, <2>3, <2>4 DEF LimitInv
<1> QED BY <1>2, <1>3, <1>4 DEF Proceed

LEMMA InitLimit == Init => InTurn /\ LimitInv
<1> SUFFICES ASSUME Init PROVE InTurn /\ LimitInv
  OBVIOUS
<1>1. Limiting = {}
  BY DEF Init, Limiting, Unstarted
<1>2. Cardinality(Limiting) = 0
  BY <1>1, FS_EmptySet
<1>3. LimitInv
  BY <1>2, LargeAssumption DEF Init, LimitInv, LargeAssumption
<1> QED BY <1>3 DEF Init, InTurn, Unstarted

LEMMA NextLimit ==
  TypeOK /\ InTurn /\ LimitInv /\ [Next]_vars => InTurn' /\ LimitInv'
<1> SUFFICES ASSUME TypeOK, InTurn, LimitInv, [Next]_vars
             PROVE  InTurn' /\ LimitInv'
  OBVIOUS
<1>1. Parts' = Parts
  BY NextKeepsFile, FileStays
<1>2. ASSUME NEW i \in Parts, Ask(i) \/ Receive(i) \/ ReadFails(i) \/ Proceed(i)
      PROVE  InTurn' /\ LimitInv'
  BY <1>2, WorkerInTurn, WorkerLimit
<1>3. CASE Second \/ Finish \/ UNCHANGED vars
  <2>1. part' = part /\ window' = window
    BY <1>3 DEF Second, Finish, vars
  <2>2. Limiting' = Limiting
    BY <1>1, <2>1 DEF Limiting
  <2> QED BY <1>1, <2>1, <2>2 DEF InTurn, LimitInv, Settled, BatchOf
<1> QED BY <1>2, <1>3 DEF Next

\* Workers that wait are in one batch, and a batch is no larger than ThreadCount.
LEMMA FewWait ==
  ASSUME TypeOK, InTurn
  PROVE  Cardinality(Limiting) <= ThreadCount /\ Cardinality(Limiting) \in Nat
<1>0. /\ ThreadCount \in Nat \ {0} /\ Parts \subseteq Nat \ {0} /\ IsFiniteSet(Limiting)
      /\ Limiting \subseteq Parts /\ Cardinality(Limiting) \in Nat
  <2>1. IsFiniteSet(Parts) /\ Parts \subseteq Nat \ {0}
    BY PartsFacts DEF TypeOK
  <2>2. IsFiniteSet(Limiting) /\ Cardinality(Limiting) \in Nat
    BY <2>1, FS_Subset, FS_CardinalityType DEF Limiting
  <2> QED BY <2>1, <2>2, LargeAssumption DEF Limiting, LargeAssumption
<1>1. CASE Limiting \subseteq {1}
  <2>1. Cardinality(Limiting) <= Cardinality({1}) /\ Cardinality({1}) = 1
    BY <1>1, FS_Subset, FS_Singleton
  <2> QED BY <1>0, <2>1
<1>2. CASE ~(Limiting \subseteq {1})
  <2>1. PICK i \in Limiting : i # 1
    BY <1>2
  <2>2. \A j \in Limiting : BatchOf(j) = BatchOf(i)
    <3> TAKE j \in Limiting
    <3>1. BatchOf(i) \in Nat /\ BatchOf(j) \in Nat
      <4>1. \A k \in Nat \ {0} : k = 1 \/ k - 2 \in Nat
        OBVIOUS
      <4>2. \A k \in Nat \ {0} : k # 1 => (k - 2) \div ThreadCount \in Nat
        BY <1>0, <4>1, Quotient
      <4>3. \A k \in Nat \ {0} : BatchOf(k) \in Nat
        BY <4>2 DEF BatchOf
      <4> QED BY <1>0, <4>3
    <3>2. ~(BatchOf(i) < BatchOf(j)) /\ ~(BatchOf(j) < BatchOf(i))
      BY <1>0 DEF InTurn, Limiting, Settled
    <3> QED BY <3>1, <3>2
  <2> DEFINE k == (i - 2) \div ThreadCount
             first == k * ThreadCount + 2
  <2>3. i \in Nat \ {0} /\ i - 2 \in Nat /\ k \in Nat /\ BatchOf(i) = 1 + k
    <3>1. i \in Nat \ {0} /\ i - 2 \in Nat
      BY <1>0, <2>1
    <3> QED BY <1>0, <2>1, <3>1, Quotient DEF BatchOf
  <2> HIDE DEF k
  <2>4. k * ThreadCount \in Nat
    BY <1>0, <2>3
  <2>5. \A j \in Limiting : j \in first..(first + ThreadCount - 1)
    <3> TAKE j \in Limiting
    <3>1. j # 1
      BY <2>2, <2>3 DEF BatchOf
    <3>2. j \in Nat /\ j - 2 \in Nat
      BY <1>0, <3>1
    <3> DEFINE m == (j - 2) \div ThreadCount
    <3>3. m \in Nat /\ m * ThreadCount <= j - 2 /\ j - 2 < m * ThreadCount + ThreadCount
      BY <1>0, <3>2, Quotient
    <3>4. BatchOf(j) = 1 + m
      BY <3>1 DEF BatchOf
    <3> HIDE DEF m
    <3>5. m = k
      BY <2>2, <2>3, <3>3, <3>4
    <3> QED BY <1>0, <2>4, <3>2, <3>3, <3>5
  <2>6. first \in Nat
    BY <2>4
  <2> HIDE DEF first
  <2>7. /\ IsFiniteSet(first..(first + ThreadCount - 1))
        /\ Cardinality(first..(first + ThreadCount - 1)) = ThreadCount
    <3>1. \A a, b \in Int : /\ IsFiniteSet(a..b)
                            /\ Cardinality(a..b) = IF a > b THEN 0 ELSE b - a + 1
      BY FS_Interval
    <3> QED BY <1>0, <2>6, <3>1
  <2>8. Cardinality(Limiting) <= Cardinality(first..(first + ThreadCount - 1))
    BY <2>5, <2>7, FS_Subset
  <2> QED BY <1>0, <2>7, <2>8
<1> QED BY <1>1, <1>2

\* In one second the workers take no more than the limit and one chunk each,
\* however they interleave between enforce_speed_limit and add_speed.
THEOREM LimitHolds == Spec => []WindowBounded
<1>1. TypeOK /\ InTurn /\ LimitInv => WindowBounded
  <2> SUFFICES ASSUME TypeOK, InTurn, LimitInv PROVE WindowBounded
    OBVIOUS
  <2> DEFINE c == Cardinality(Limiting)
  <2>1. c <= ThreadCount /\ c \in Nat
    BY FewWait
  <2>2. ThreadCount \in Nat /\ MaxChunk \in Nat /\ SpeedLimit \in Nat /\ window \in Nat
    BY LargeAssumption DEF LargeAssumption, TypeOK
  <2>3. window <= SpeedLimit + MaxChunk * c
    BY DEF LimitInv
  <2> HIDE DEF c
  <2>4. MaxChunk * c <= MaxChunk * ThreadCount /\ MaxChunk * c \in Nat
        /\ MaxChunk * ThreadCount \in Nat
    BY <2>1, <2>2
  <2> QED BY <2>2, <2>3, <2>4 DEF WindowBounded
<1>2. TypeOK /\ InTurn /\ LimitInv /\ [Next]_vars => (TypeOK /\ InTurn /\ LimitInv)'
  BY NextTypes, NextLimit
<1>3. Init => TypeOK /\ InTurn /\ LimitInv
  BY InitTypes, InitLimit
<1> QED BY <1>1, <1>2, <1>3, PTL DEF Spec

(***************************************************************************)
(* The parts make the file.                                                *)
(***************************************************************************)

Open == {"limiting", "checking", "reporting", "reading"}

\* What a part in hand is: an answer to its request, and no more than promised;
\* when it is done, all of that if the server announced how much it is.
Sound(i) ==
  /\ part[i].phase \in Open \cup {"done"} => Answered(i) /\ part[i].got <= Promised(i)
  /\ part[i].phase = "done" /\ file.lengths => part[i].got = Promised(i)

\* When the download is done, every part has come to its end, and none is short.
BodyInv ==
  /\ \A i \in Parts : Sound(i)
  /\ result = "ok" => /\ \A i \in Parts : Settled(i)
                      /\ Short = {}
                      /\ CheckCount => Missing = {}

LEMMA InitBody == Init => BodyInv
BY DEF Init, BodyInv, Sound, Unstarted, Open

\* A worker that goes on reading has what it had.
LEMMA GotStays ==
  ASSUME TypeOK, NEW i \in Parts,
         PassLimit(i) \/ CheckSlow(i) \/ ReadTimeout(i) \/ Report(i) \/ EndBody(i)
  PROVE  part'[i].got = part[i].got
<1>1. PICK from, to : Working(i, from) /\ To(i, to)
  BY DEF PassLimit, CheckSlow, ReadTimeout, StopOrGoOn, Report, EndBody
<1> QED BY <1>1, ToMoves

LEMMA WorkerBody ==
  ASSUME TypeOK, BodyInv, NEW i \in Parts, Ask(i) \/ Receive(i) \/ ReadFails(i) \/ Proceed(i)
  PROVE  BodyInv'
<1>0. file' = file
  BY NextKeepsFile DEF Next
<1>1. /\ Parts' = Parts
      /\ \A j : Promised(j)' = Promised(j) /\ Answered(j)' = Answered(j)
  BY <1>0, FileStays
<1>2. result' = "running"
  BY DEF Ask, Receive, ReadFails, Proceed, AskFails, PassLimit, CheckSlow, ReadTimeout,
     StopOrGoOn, Report, EndBody, Retry, Working
<1>3. /\ \A j \in Parts \ {i} : part'[j] = part[j]
      /\ part'[i].phase \in Open \cup {"done"} => Answered(i) /\ part'[i].got <= Promised(i)
      /\ part'[i].phase = "done" /\ file.lengths => part'[i].got = Promised(i)
  <2>1. CASE Ask(i)
    <3>1. Moves(i, "asking", "reading") /\ part'[i].got = 0
      BY <2>1, Steps DEF Ask, TypeOK
    <3>2. Promised(i) \in Int
      BY PromisedFacts DEF TypeOK
    <3>3. Answered(i) /\ Promised(i) > 0
      BY <2>1 DEF Ask, Answered
    <3>4. part'[i].got <= Promised(i)
      BY <3>1, <3>2, <3>3
    <3> QED BY <3>1, <3>3, <3>4 DEF Moves
  <2>2. CASE EndBody(i)
    <3>1. Moves(i, "reading", EndOf(i)) /\ part'[i].got = part[i].got
      BY <2>2, Steps, GotStays
    <3>2. Sound(i)
      BY DEF BodyInv
    <3> QED BY <3>1, <3>2 DEF Moves, EndOf, Open, Sound
  <2>3. CASE PassLimit(i) \/ CheckSlow(i) \/ ReadTimeout(i) \/ Report(i)
    <3>1. PICK from \in Open, to \in Open \cup {"slow"} : Moves(i, from, to)
      BY <2>3, Steps DEF Open
    <3>2. part'[i].got = part[i].got /\ Sound(i)
      BY <2>3, GotStays DEF BodyInv
    <3> QED BY <3>1, <3>2 DEF Moves, Open, Sound
  <2>4. CASE Receive(i)
    <3>1. Moves(i, "reading", "limiting") /\ Sound(i)
      BY <2>4, Steps DEF BodyInv
    <3>2. PICK n : /\ part[i].got + n <= Promised(i)
                   /\ part' = [part EXCEPT ![i].phase = "limiting", ![i].got = @ + n]
      BY <2>4 DEF Receive
    <3>3. part'[i].got = part[i].got + n
      BY <3>2 DEF TypeOK
    <3> QED BY <3>1, <3>2, <3>3 DEF Moves, Open, Sound
  <2>5. CASE AskFails(i) \/ ReadFails(i) \/ Retry(i)
    <3>1. PICK from \in Phases, to \in {"broken", "asking", "missing"} : Moves(i, from, to)
      BY <2>5, Steps DEF Phases
    <3> QED BY <3>1 DEF Moves, Open
  <2> QED BY <2>1, <2>2, <2>3, <2>4, <2>5 DEF Proceed
<1>4. \A j \in Parts : Sound(j)'
  BY <1>0, <1>1, <1>3 DEF BodyInv, Sound
<1> QED BY <1>1, <1>2, <1>4 DEF BodyInv

LEMMA NextBody == TypeOK /\ BodyInv /\ [Next]_vars => BodyInv'
<1> SUFFICES ASSUME TypeOK, BodyInv, [Next]_vars PROVE BodyInv'
  OBVIOUS
<1>0. file' = file
  BY NextKeepsFile
<1>1. /\ Parts' = Parts
      /\ \A j : Promised(j)' = Promised(j) /\ Answered(j)' = Answered(j)
  BY <1>0, FileStays
<1>2. ASSUME NEW i \in Parts, Ask(i) \/ Receive(i) \/ ReadFails(i) \/ Proceed(i)
      PROVE  BodyInv'
  BY <1>2, WorkerBody
<1>3. ASSUME part' = part
      PROVE  /\ \A j \in Parts' : Sound(j)'
             /\ Missing' = Missing /\ Short' = Short
             /\ (\A j \in Parts : Settled(j)) => (\A j \in Parts : Settled(j))'
  BY <1>0, <1>1, <1>3 DEF BodyInv, Sound, Missing, Short, Settled
<1>4. CASE Finish
  <2>1. part' = part /\ 1 \in Parts
    BY <1>4, PartsFacts DEF Finish, TypeOK
  <2>2. result' = "ok" => (\A i \in Parts : Settled(i)) /\ Short = {} /\ (CheckCount => Missing = {})
    BY <1>4 DEF Finish
  <2>3. result' = "ok" => /\ (\A i \in Parts : Settled(i))'
                          /\ Short' = {} /\ (CheckCount => Missing' = {})
    BY <1>3, <2>1, <2>2
  <2> QED BY <1>3, <2>1, <2>3 DEF BodyInv
<1>5. CASE Second \/ UNCHANGED vars
  <2>1. part' = part /\ result' = result
    BY <1>5 DEF Second, vars
  <2> QED BY <1>3, <2>1 DEF BodyInv
<1> QED BY <1>2, <1>4, <1>5 DEF Next

\* Where the bytes of a part begin and end in a file that is split.
LEMMA PieceFacts ==
  ASSUME TypeOK, IsSplit(file), RangesServed, NEW i \in Parts
  PROVE  /\ First(i) = ClipStart(i) /\ First(i) \in Nat /\ Promised(i) \in Int
         /\ First(i) + Promised(i) - 1 =
              IF i # Count(file.size) /\ ClipStart(i) + SplitSize < file.size
              THEN ClipStart(i) + SplitSize ELSE file.size - 1
<1>1. file.size \in Nat \ {0} /\ SplitSize \in Nat \ {0} /\ i \in Nat \ {0}
  BY PartsFacts, LargeAssumption DEF TypeOK, LargeAssumption
<1>2. ClipStart(i) \in Nat
  BY <1>1, StartFacts
<1>3. First(i) = ClipStart(i) /\ Promised(i) \in Int
  BY PromisedFacts DEF First, TypeOK
<1> DEFINE stop == StopRange(Clip(file.size, i))
<1>4. stop = IF i = Count(file.size) THEN file.size ELSE ClipStart(i) + SplitSize
  BY <1>1, <1>2 DEF StopRange, Clip
<1> HIDE DEF stop
<1>5. Promised(i) = (IF stop < file.size THEN stop ELSE file.size - 1) - First(i) + 1
  BY DEF Promised, stop
<1> QED BY <1>1, <1>2, <1>3, <1>4, <1>5

LEMMA BodiesAreFile ==
  ASSUME TypeOK, BodyInv
  PROVE  FileIsAsAnnounced
<1> SUFFICES ASSUME result = "ok", IsSplit(file) => RangesServed
             PROVE  PartsJoin
  BY DEF FileIsAsAnnounced
<1> DEFINE All == CheckCount /\ file.lengths
           Piece(i) == First(i)..First(i) + Promised(i) - 1
<1>0. /\ file.size \in Nat \ {0} /\ SplitSize \in Nat \ {0} /\ Parts \subseteq Nat \ {0}
      /\ 1 \in Parts
  BY PartsFacts, LargeAssumption DEF TypeOK, LargeAssumption
<1>1. \A i \in Parts : Held(i) \subseteq Piece(i)
  <2> SUFFICES ASSUME NEW i \in Parts, part[i].phase = "done"
               PROVE  Held(i) \subseteq Piece(i)
    BY DEF Held
  <2>1. part[i].got <= Promised(i) /\ part[i].got \in Nat
    BY LargeAssumption DEF BodyInv, Sound, TypeOK, LargeAssumption
  <2>2. First(i) \in Nat /\ Promised(i) \in Int
    BY PromisedFacts DEF TypeOK
  <2>3. Held(i) = First(i)..First(i) + part[i].got - 1
    BY DEF Held
  <2> QED BY <2>1, <2>2, <2>3
<1>2. All => \A i \in Parts : Held(i) = Piece(i)
  <2> SUFFICES ASSUME All, NEW i \in Parts PROVE Held(i) = Piece(i)
    OBVIOUS
  <2>1. part[i].phase = "done"
    BY DEF BodyInv, Settled, Missing, Short
  <2>2. part[i].got = Promised(i)
    BY <2>1 DEF BodyInv, Sound
  <2> QED BY <2>1, <2>2 DEF Held
<1>3. CASE ~IsSplit(file)
  <2>1. Parts = {1} /\ First(1) = 0 /\ Promised(1) = file.size
    BY <1>3 DEF Parts, First, Promised
  <2>2. Piece(1) = 0..file.size - 1
    BY <1>0, <2>1
  <2>3. \A i, j \in Parts : ~(i < j)
    BY <2>1
  <2>4. UNION {Held(i) : i \in Parts} = Held(1)
    BY <2>1
  <2>5. Held(1) \subseteq 0..file.size - 1 /\ (All => Held(1) = 0..file.size - 1)
    BY <1>0, <1>1, <1>2, <2>2
  <2> QED BY <2>3, <2>4, <2>5 DEF PartsJoin
<1>4. CASE IsSplit(file)
  <2> DEFINE n == Count(file.size)
  <2>0. RangesServed /\ Parts = 1..n
    BY <1>4 DEF Parts
  <2>1. n \in Nat /\ n >= 1 /\ file.size <= n * SplitSize
    BY <1>0, CountFacts
  <2>2. ASSUME NEW i \in Parts
        PROVE  /\ First(i) = ClipStart(i) /\ First(i) \in Nat /\ Promised(i) \in Int
               /\ First(i) + Promised(i) - 1 =
                    IF i # n /\ ClipStart(i) + SplitSize < file.size
                    THEN ClipStart(i) + SplitSize ELSE file.size - 1
    BY <1>4, <2>0, PieceFacts
  <2> HIDE DEF n
  <2>3. ASSUME NEW i \in Parts, NEW j \in Parts, i < j,
               NEW b \in Held(i), NEW c \in Held(j)
        PROVE  b < c
    <3>1. b \in First(i)..First(i) + Promised(i) - 1 /\ c \in First(j)..First(j) + Promised(j) - 1
      BY <1>1, <2>3
    <3>2. i # n
      BY <2>0, <2>1, <2>3
    <3>3. ClipStart(i) \in Nat /\ ClipStart(j) \in Nat
          /\ ClipStart(i) + SplitSize + 1 <= ClipStart(j)
      BY <1>0, <2>3, StartFacts
    <3>4. b \in Int /\ c \in Int /\ b <= First(i) + Promised(i) - 1 /\ First(j) <= c
      BY <2>2, <3>1
    <3>5. b <= ClipStart(i) + SplitSize
      BY <1>0, <2>2, <3>2, <3>3, <3>4
    <3>6. ClipStart(j) <= c
      BY <2>2, <3>4
    <3> QED BY <1>0, <3>3, <3>4, <3>5, <3>6
  <2>4. ASSUME All, NEW b \in 0..file.size - 1
        PROVE  \E i \in Parts : b \in Held(i)
    <3> DEFINE q == b \div (SplitSize + 1)
    <3>1. b \in Nat /\ b < file.size /\ SplitSize + 1 \in Nat \ {0}
      BY <1>0
    <3>2. q \in Nat /\ q * (SplitSize + 1) <= b /\ b < q * (SplitSize + 1) + (SplitSize + 1)
      BY <3>1, Quotient
    <3> HIDE DEF q
    <3>3. q < n
      <4> SUFFICES ASSUME n <= q PROVE FALSE
        BY <2>1, <3>2
      <4>1. n * SplitSize <= q * SplitSize /\ n * SplitSize \in Nat /\ q * SplitSize \in Nat
        BY <1>0, <2>1, <3>2
      <4>2. q * SplitSize <= q * (SplitSize + 1) /\ q * (SplitSize + 1) \in Nat
        BY <1>0, <3>2
      <4> QED BY <1>0, <2>1, <3>1, <3>2, <4>1, <4>2
    <3>4. q + 1 \in Parts
      BY <2>0, <2>1, <3>2, <3>3
    <3>5. ClipStart(q + 1) = q * (SplitSize + 1)
      BY <3>2 DEF ClipStart
    <3>6. ClipStart(q + 1) \in Nat /\ ClipStart(q + 1) <= b /\ b <= ClipStart(q + 1) + SplitSize
      <4>1. q * (SplitSize + 1) \in Nat
        BY <3>1, <3>2
      <4> DEFINE x == q * (SplitSize + 1)
      <4>2. x \in Nat /\ x <= b /\ b < x + (SplitSize + 1) /\ ClipStart(q + 1) = x
        BY <3>2, <3>5, <4>1
      <4> HIDE DEF x
      <4> QED BY <1>0, <3>1, <4>2
    <3>7. b <= First(q + 1) + Promised(q + 1) - 1 /\ First(q + 1) <= b
      <4>1. /\ First(q + 1) = ClipStart(q + 1)
            /\ First(q + 1) + Promised(q + 1) - 1 =
                 IF q + 1 # n /\ ClipStart(q + 1) + SplitSize < file.size
                 THEN ClipStart(q + 1) + SplitSize ELSE file.size - 1
        BY <2>2, <3>4
      <4> DEFINE x == ClipStart(q + 1)
                 y == First(q + 1) + Promised(q + 1) - 1
      <4>2. y \in {x + SplitSize, file.size - 1} /\ First(q + 1) = x
        BY <4>1
      <4>3. x \in Nat /\ x <= b /\ b <= x + SplitSize
        BY <3>6
      <4> HIDE DEF x, y
      <4>4. b <= y /\ First(q + 1) <= b
        BY <1>0, <3>1, <4>2, <4>3
      <4> QED BY <4>4 DEF y
    <3>8. Held(q + 1) = First(q + 1)..First(q + 1) + Promised(q + 1) - 1
      BY <1>2, <2>4, <3>4
    <3>9. b \in Held(q + 1)
      BY <2>2, <3>1, <3>4, <3>7, <3>8
    <3> QED BY <3>4, <3>9
  <2>5. ASSUME NEW i \in Parts, NEW b \in Held(i)
        PROVE  b \in 0..file.size - 1
    <3>1. b \in First(i)..First(i) + Promised(i) - 1
      BY <1>1, <2>5
    <3>2. First(i) + Promised(i) - 1 <= file.size - 1 /\ First(i) \in Nat /\ Promised(i) \in Int
      BY <1>0, <2>2
    <3> QED BY <1>0, <3>1, <3>2
  <2> QED BY <2>3, <2>4, <2>5 DEF PartsJoin
<1> QED BY <1>3, <1>4

\* Of a server that serves ranges, the parts that are handed over are bytes of
\* the file in order, none of them twice, and all of them if the count is checked
\* and the responses announce their lengths: for every size of file and of parts
\* (split_large_single_file_by_size, SegmentDownloadResult::success).
THEOREM PartsAreAsAnnounced == Spec => []FileIsAsAnnounced
<1>1. TypeOK /\ BodyInv => FileIsAsAnnounced
  BY BodiesAreFile
<1>2. TypeOK /\ BodyInv /\ [Next]_vars => (TypeOK /\ BodyInv)'
  BY NextTypes, NextBody
<1>3. Init => TypeOK /\ BodyInv
  BY InitTypes, InitBody
<1> QED BY <1>1, <1>2, <1>3, PTL DEF Spec
=============================================================================
