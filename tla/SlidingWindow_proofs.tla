------------------------ MODULE SlidingWindow_proofs ------------------------
(***************************************************************************)
(* What holds of the limiter for every capacity, every number of intervals *)
(* and every request size.                                                 *)
(***************************************************************************)
EXTENDS SlidingWindow, TLAPS

(* The next slot, without the remainder.                                   *)
LEMMA NextSlot ==
  ASSUME NEW i \in Slots
  PROVE  (i + 1) % NumIntervals = IF i + 1 = NumIntervals THEN 0 ELSE i + 1
  BY LimiterAssumption, SMT DEF Slots

(* Nothing granted sums to nothing.                                        *)
LEMMA SumOfZeroes == SumIs(Zeroes, 0)
<1> DEFINE s == [j \in 0..NumIntervals |-> 0]
<1>1. s \in [0..NumIntervals -> 0..Capacity]
  BY LimiterAssumption
<1>2. RunningTotals(s, Zeroes) /\ s[NumIntervals] = 0
  BY LimiterAssumption DEF RunningTotals, Zeroes, Slots
<1> QED
  BY <1>1, <1>2 DEF SumIs

(* The sum is a number of tokens, and no summand exceeds it.               *)
LEMMA SumBounds ==
  ASSUME NEW f \in [Slots -> Nat], NEW t, SumIs(f, t)
  PROVE  t \in 0..Capacity /\ \A i \in Slots : f[i] <= t
<1>1. PICK s \in [0..NumIntervals -> 0..Capacity] :
        RunningTotals(s, f) /\ s[NumIntervals] = t
  BY DEF SumIs
<1>2. t \in 0..Capacity
  BY <1>1, LimiterAssumption
<1>3. ASSUME NEW i \in Slots PROVE f[i] <= t
  <2>1. i \in 0..NumIntervals /\ i + 1 \in 0..NumIntervals /\ NumIntervals \in 0..NumIntervals
    BY LimiterAssumption DEF Slots
  <2>2. s[i + 1] = s[i] + f[i] /\ s[i + 1] <= s[NumIntervals]
    BY <1>1, <2>1, LimiterAssumption DEF RunningTotals, Slots
  <2> QED
    BY <1>1, <2>1, <2>2, LimiterAssumption
<1> QED
  BY <1>2, <1>3

(* n more tokens granted in the current interval.                          *)
LEMMA SumOfGrant ==
  ASSUME NEW f \in [Slots -> Nat], NEW t, SumIs(f, t),
         NEW n \in Nat, t + n <= Capacity
  PROVE  SumIs([f EXCEPT ![0] = @ + n], t + n)
<1>1. PICK s \in [0..NumIntervals -> 0..Capacity] :
        RunningTotals(s, f) /\ s[NumIntervals] = t
  BY DEF SumIs
<1> DEFINE g == [f EXCEPT ![0] = @ + n]
           u == [j \in 0..NumIntervals |-> IF j = 0 THEN 0 ELSE s[j] + n]
<1>2. \A j \in 0..NumIntervals : s[j] \in 0..Capacity /\ s[j] <= t
  BY <1>1, LimiterAssumption DEF RunningTotals
<1>3. u \in [0..NumIntervals -> 0..Capacity]
  <2>1. t \in 0..Capacity
    BY <1>1, LimiterAssumption
  <2>2. ASSUME NEW j \in 0..NumIntervals
        PROVE  (IF j = 0 THEN 0 ELSE s[j] + n) \in 0..Capacity
    BY <1>2, <2>1, LimiterAssumption
  <2> QED
    BY <2>2
<1>4. RunningTotals(u, g)
  <2>1. u[0] = 0
    BY LimiterAssumption
  <2>2. ASSUME NEW i \in Slots PROVE u[i + 1] = u[i] + g[i]
    <3>1. s[i + 1] = s[i] + f[i] /\ s[0] = 0
      BY <1>1 DEF RunningTotals
    <3>2. i \in 0..NumIntervals /\ i + 1 \in 0..NumIntervals /\ i + 1 # 0
      BY LimiterAssumption DEF Slots
    <3>3. g[i] = IF i = 0 THEN f[i] + n ELSE f[i]
      BY LimiterAssumption DEF Slots
    <3> QED
      BY <1>2, <3>1, <3>2, <3>3
  <2>3. ASSUME NEW i \in 0..NumIntervals, NEW j \in 0..NumIntervals, i <= j
        PROVE  u[i] <= u[j]
    BY <1>1, <1>2, <2>3, LimiterAssumption DEF RunningTotals
  <2> QED
    BY <2>1, <2>2, <2>3 DEF RunningTotals
<1>5. u[NumIntervals] = t + n
  BY <1>1, LimiterAssumption
<1> QED
  BY <1>3, <1>4, <1>5 DEF SumIs

(* A slide ages every grant by one interval and drops the oldest.          *)
LEMMA SumOfSlide ==
  ASSUME NEW f \in [Slots -> Nat], NEW t, SumIs(f, t)
  PROVE  SumIs([age \in Slots |-> IF age = 0 THEN 0 ELSE f[age - 1]],
               t - f[NumIntervals - 1])
<1>1. PICK s \in [0..NumIntervals -> 0..Capacity] :
        RunningTotals(s, f) /\ s[NumIntervals] = t
  BY DEF SumIs
<1> DEFINE g == [age \in Slots |-> IF age = 0 THEN 0 ELSE f[age - 1]]
           u == [j \in 0..NumIntervals |-> IF j = 0 THEN 0 ELSE s[j - 1]]
<1>2. \A j \in 0..NumIntervals : s[j] \in 0..Capacity
  BY <1>1
<1>3. u \in [0..NumIntervals -> 0..Capacity]
  BY <1>2, LimiterAssumption
<1>4. RunningTotals(u, g)
  <2>1. u[0] = 0
    BY LimiterAssumption
  <2>2. ASSUME NEW i \in Slots PROVE u[i + 1] = u[i] + g[i]
    <3>1. i \in 0..NumIntervals /\ i + 1 \in 0..NumIntervals /\ i + 1 # 0
      BY LimiterAssumption DEF Slots
    <3>2. u[i + 1] = s[i]
      BY <3>1
    <3>3. CASE i = 0
      BY <1>1, <3>2, <3>3, LimiterAssumption DEF RunningTotals
    <3>4. CASE i # 0
      <4>1. i - 1 \in Slots
        BY <3>4, LimiterAssumption DEF Slots
      <4>2. s[(i - 1) + 1] = s[i - 1] + f[i - 1]
        BY <1>1, <4>1 DEF RunningTotals
      <4> QED
        BY <3>1, <3>2, <3>4, <4>2
    <3> QED
      BY <3>3, <3>4
  <2>3. ASSUME NEW i \in 0..NumIntervals, NEW j \in 0..NumIntervals, i <= j
        PROVE  u[i] <= u[j]
    BY <1>1, <1>2, <2>3, LimiterAssumption DEF RunningTotals
  <2> QED
    BY <2>1, <2>2, <2>3 DEF RunningTotals
<1>5. u[NumIntervals] = t - f[NumIntervals - 1]
  <2>1. NumIntervals - 1 \in Slots
    BY LimiterAssumption DEF Slots
  <2>2. s[(NumIntervals - 1) + 1] = s[NumIntervals - 1] + f[NumIntervals - 1]
    BY <1>1, <2>1 DEF RunningTotals
  <2> QED
    BY <1>1, <1>2, <2>1, <2>2, LimiterAssumption DEF Slots
<1> QED
  BY <1>3, <1>4, <1>5 DEF SumIs

-----------------------------------------------------------------------------
(* The tokens that are not counted in a window.                            *)
Elsewhere == permits + got + owed + lost

(* The invariant over the log instead of the windows.                      *)
Conserved == SumIs(granted, Capacity - permits - got - owed - lost)

LEMMA InitInv == Init => IInv
<1> SUFFICES ASSUME Init PROVE IInv
  OBVIOUS
<1>1. TypeOK
  <2>1. 0 \in Slots /\ Zeroes \in [Slots -> 0..Capacity]
    BY LimiterAssumption DEF Slots, Zeroes
  <2>2. /\ permits \in 0..Capacity /\ owed \in 0..Capacity /\ lost \in 0..Capacity
        /\ want \in Nat /\ got \in 0..want
    BY LimiterAssumption DEF Init
  <2> QED
    BY <2>1, <2>2 DEF Init, TypeOK
<1>2. LogOK /\ AheadOK /\ ControlOK
  BY LimiterAssumption DEF Init, LogOK, AheadOK, ControlOK, Outstanding, Zeroes, Slots
<1>3. TokensConserved
  <2>1. Capacity - permits - got - owed - lost = 0
    BY LimiterAssumption DEF Init
  <2>2. Outstanding = Zeroes
    BY <1>2 DEF LogOK, Init
  <2> QED
    BY <2>1, <2>2, SumOfZeroes DEF TokensConserved
<1> QED
  BY <1>1, <1>2, <1>3 DEF IInv

(* What every step may use.                                                *)
LEMMA InvFacts ==
  ASSUME IInv
  PROVE  /\ Conserved
         /\ granted \in [Slots -> Nat]
         /\ permits + got + owed + lost <= Capacity
         /\ \A age \in Slots :
              granted[age] <= Capacity - permits - got - owed - lost
<1>1. Conserved
  BY DEF IInv, LogOK, TokensConserved, Conserved
<1>2. granted \in [Slots -> Nat]
  BY LimiterAssumption DEF IInv, TypeOK
<1>3. Capacity - permits - got - owed - lost \in 0..Capacity
  BY <1>1, <1>2, SumBounds DEF Conserved
<1>4. \A age \in Slots : granted[age] <= Capacity - permits - got - owed - lost
  BY <1>1, <1>2, SumBounds DEF Conserved
<1>5. permits + got + owed + lost <= Capacity
  BY <1>3, LimiterAssumption DEF IInv, TypeOK
<1> QED
  BY <1>1, <1>2, <1>4, <1>5

(* Tokens that only change their place outside the windows.                *)
LEMMA SameWindows ==
  ASSUME IInv, TypeOK', ControlOK', UNCHANGED <<curr, prev, interval, granted>>,
         Elsewhere' = Elsewhere
  PROVE  IInv'
<1>1. LogOK' /\ AheadOK'
  BY DEF IInv, LogOK, AheadOK, Outstanding
<1>2. Capacity - permits' - got' - owed' - lost' = Capacity - permits - got - owed - lost
  <2>1. {permits, got, owed, lost, permits', got', owed', lost'} \subseteq Nat
    BY LimiterAssumption DEF IInv, TypeOK
  <2> QED
    BY <2>1, LimiterAssumption DEF Elsewhere
<1>3. TokensConserved'
  <2>1. Outstanding' = Outstanding
    BY DEF Outstanding
  <2> QED
    BY <1>2, <2>1 DEF IInv, TokensConserved
<1> QED
  BY <1>1, <1>3 DEF IInv

LEMMA RequestStep == ASSUME IInv, NEW n \in Demands, Request(n) PROVE IInv'
<1>1. TypeOK' /\ ControlOK' /\ Elsewhere' = Elsewhere
  BY LimiterAssumption DEF IInv, TypeOK, ControlOK, Request, Elsewhere
<1> QED
  BY <1>1, SameWindows DEF Request

LEMMA TakePermitStep == ASSUME IInv, TakePermit PROVE IInv'
<1>1. TypeOK' /\ ControlOK' /\ Elsewhere' = Elsewhere
  BY LimiterAssumption DEF IInv, TypeOK, ControlOK, TakePermit, Elsewhere
<1> QED
  BY <1>1, SameWindows DEF TakePermit

LEMMA CancelStep == ASSUME IInv, Cancel PROVE IInv'
<1>1. lost + got <= Capacity
  BY InvFacts, LimiterAssumption DEF IInv, TypeOK
<1>2. TypeOK' /\ ControlOK' /\ Elsewhere' = Elsewhere
  BY <1>1, LimiterAssumption DEF IInv, TypeOK, ControlOK, Cancel, Elsewhere
<1> QED
  BY <1>2, SameWindows DEF Cancel

LEMMA ReclaimStep == ASSUME IInv, Reclaim PROVE IInv'
<1>1. TypeOK' /\ ControlOK' /\ Elsewhere' = Elsewhere
  BY LimiterAssumption DEF IInv, TypeOK, ControlOK, Reclaim, Elsewhere
<1> QED
  BY <1>1, SameWindows DEF Reclaim

(* Steps that move no token.                                               *)
LEMMA QuietStep ==
  ASSUME IInv, BeginReset \/ EndSlide \/ Shutdown \/ StopTicker \/ UNCHANGED vars
  PROVE  IInv'
<1>1. UNCHANGED <<permits, curr, prev, interval, owed, want, got, lost, granted>>
  BY DEF BeginReset, EndSlide, Shutdown, StopTicker, vars
<1>2. TypeOK'
  BY LimiterAssumption
     DEF IInv, TypeOK, BeginReset, EndSlide, Shutdown, StopTicker, vars
<1>3. ControlOK'
  BY DEF IInv, TypeOK, ControlOK, BeginReset, EndSlide, Shutdown, StopTicker, vars
<1>4. Elsewhere' = Elsewhere
  BY <1>1 DEF Elsewhere
<1> QED
  BY <1>1, <1>2, <1>3, <1>4, SameWindows

LEMMA GrantStep == ASSUME IInv, Grant PROVE IInv'
<1>1. want \in Nat /\ want = got /\ interval \in Slots /\ 0 \in Slots
  BY LimiterAssumption DEF IInv, TypeOK, Grant, Slots
<1>2. granted' = [granted EXCEPT ![0] = @ + want]
  BY DEF Grant
<1>3. LogOK'
  <2>1. granted = Outstanding
    BY DEF IInv, LogOK
  <2>2. ASSUME NEW age \in Slots PROVE granted'[age] = Outstanding'[age]
    <3>1. granted[age] = IF age <= interval THEN curr[interval - age]
                         ELSE prev[NumIntervals + interval - age]
      BY <2>1 DEF Outstanding
    <3>2. curr' = [curr EXCEPT ![interval] = @ + want] /\ UNCHANGED <<prev, interval>>
      BY DEF Grant
    <3>3. granted'[age] = IF age = 0 THEN granted[age] + want ELSE granted[age]
      BY <1>1, <1>2 DEF IInv, TypeOK
    <3>4. age <= interval =>
            curr'[interval - age] = IF age = 0 THEN curr[interval - age] + want
                                    ELSE curr[interval - age]
      BY <1>1, <3>2, LimiterAssumption DEF IInv, TypeOK, Slots
    <3> QED
      BY <1>1, <3>1, <3>2, <3>3, <3>4, LimiterAssumption DEF Outstanding, Slots
  <2>3. granted' \in [Slots -> Int]
    BY <1>1, <1>2, LimiterAssumption DEF IInv, TypeOK
  <2> QED
    BY <2>2, <2>3 DEF LogOK, Outstanding
<1>4. TokensConserved'
  <2> DEFINE t == Capacity - permits - got - owed - lost
  <2>1. t + want <= Capacity /\ t + want = (Capacity - permits - got - owed - lost)'
    BY <1>1, LimiterAssumption DEF IInv, TypeOK, Grant
  <2>2. SumIs([granted EXCEPT ![0] = @ + want], t + want)
    BY <1>1, <2>1, InvFacts, SumOfGrant DEF Conserved
  <2> QED
    BY <1>2, <1>3, <2>1, <2>2 DEF LogOK, TokensConserved
<1>5. TypeOK'
  <2>1. curr[interval] = granted[0]
    BY <1>1, LimiterAssumption DEF IInv, LogOK, Outstanding, Slots
  <2>2. granted[0] + want \in 0..Capacity
    BY <1>1, InvFacts, LimiterAssumption DEF IInv, TypeOK
  <2>3. curr' \in [Slots -> 0..Capacity] /\ granted' \in [Slots -> 0..Capacity]
    BY <1>1, <1>2, <2>1, <2>2 DEF IInv, TypeOK, Grant
  <2> QED
    BY <2>3, LimiterAssumption DEF IInv, TypeOK, Grant
<1>6. AheadOK' /\ ControlOK'
  BY <1>1, LimiterAssumption DEF IInv, TypeOK, AheadOK, ControlOK, Grant, Slots
<1> QED
  BY <1>3, <1>4, <1>5, <1>6 DEF IInv

LEMMA ResetStep == ASSUME IInv, Reset PROVE IInv'
<1>1. owed = 0 /\ got = 0
  BY DEF IInv, ControlOK, Reset
<1>2. TypeOK' /\ AheadOK' /\ ControlOK'
  BY <1>1, LimiterAssumption DEF IInv, TypeOK, AheadOK, ControlOK, Reset, Zeroes
<1>3. granted' = Zeroes /\ Outstanding' = Zeroes
  BY LimiterAssumption DEF Reset, Outstanding, Zeroes, Slots, IInv, TypeOK
<1>4. (Capacity - permits - got - owed - lost)' = 0
  BY <1>1, LimiterAssumption DEF Reset
<1>5. TokensConserved'
  BY <1>3, <1>4, SumOfZeroes DEF TokensConserved
<1> QED
  BY <1>2, <1>3, <1>5 DEF IInv, LogOK

(* The slide: the oldest interval's grants are owed to the channel.        *)
LEMMA TickStep == ASSUME IInv, Tick PROVE IInv'
<1> DEFINE last == NumIntervals - 1
           aged == [age \in Slots |-> IF age = 0 THEN 0 ELSE granted[age - 1]]
<1>1. interval \in Slots /\ owed = 0 /\ last \in Slots /\ 0 \in Slots
  BY LimiterAssumption DEF IInv, TypeOK, ControlOK, Tick, Slots
<1>2. granted' = aged /\ owed' = prev'[interval']
  BY DEF Tick
<1>3. interval' = IF interval = last THEN 0 ELSE interval + 1
  BY <1>1, NextSlot, LimiterAssumption DEF Tick, NextInterval, Slots
<1>4. IF interval = last THEN prev' = curr /\ curr' = Zeroes
                         ELSE UNCHANGED <<prev, curr>>
  BY <1>1, NextSlot, LimiterAssumption DEF Tick, NextInterval, Slots
<1>5. \A age \in Slots :
        granted[age] = IF age <= interval THEN curr[interval - age]
                       ELSE prev[NumIntervals + interval - age]
  BY DEF IInv, LogOK, Outstanding
<1>6. owed' = granted[last]
  <2>1. CASE interval = last
    BY <1>1, <1>2, <1>3, <1>4, <1>5, <2>1, LimiterAssumption DEF Slots
  <2>2. CASE interval # last
    BY <1>1, <1>2, <1>3, <1>4, <1>5, <2>2, LimiterAssumption DEF Slots
  <2> QED
    BY <2>1, <2>2
<1>7. LogOK'
  <2>1. ASSUME NEW age \in Slots
        PROVE  aged[age] = IF age <= interval' THEN curr'[interval' - age]
                           ELSE prev'[NumIntervals + interval' - age]
    <3>1. CASE age = 0
      <4>1. CASE interval = last
        BY <1>1, <1>3, <1>4, <3>1, <4>1, LimiterAssumption DEF Zeroes, Slots
      <4>2. CASE interval # last
        <5>1. curr[interval + 1] = 0
          BY <1>1, <4>2, LimiterAssumption DEF IInv, AheadOK, Slots
        <5> QED
          BY <1>1, <1>3, <1>4, <3>1, <4>2, <5>1, LimiterAssumption DEF Slots
      <4> QED
        BY <4>1, <4>2
    <3>2. CASE age # 0
      <4>1. /\ age - 1 \in Slots
            /\ aged[age] = granted[age - 1]
            /\ interval - (age - 1) = interval + 1 - age
            /\ NumIntervals + interval - (age - 1) = NumIntervals + (interval + 1) - age
        BY <1>1, <3>2, LimiterAssumption DEF Slots
      <4>2. granted[age - 1] = IF age - 1 <= interval THEN curr[interval - (age - 1)]
                               ELSE prev[NumIntervals + interval - (age - 1)]
        BY <1>5, <4>1
      <4>3. CASE interval = last
        BY <1>1, <1>3, <1>4, <3>2, <4>1, <4>2, <4>3, LimiterAssumption DEF Slots
      <4>4. CASE interval # last
        BY <1>1, <1>3, <1>4, <3>2, <4>1, <4>2, <4>4, LimiterAssumption DEF Slots
      <4> QED
        BY <4>3, <4>4
    <3> QED
      BY <3>1, <3>2
  <2> QED
    BY <1>2, <2>1 DEF LogOK, Outstanding
<1>8. TokensConserved'
  <2> DEFINE t == Capacity - permits - got - owed - lost
  <2>1. SumIs(aged, t - granted[last])
    BY InvFacts, SumOfSlide DEF Conserved
  <2>2. t - granted[last] = (Capacity - permits - got - owed - lost)'
    <3>1. granted[last] \in Int /\ {permits, got, lost} \subseteq Int
      BY <1>1, LimiterAssumption DEF IInv, TypeOK
    <3> QED
      BY <1>1, <1>6, <3>1, LimiterAssumption DEF Tick
  <2> QED
    BY <1>2, <1>7, <2>1, <2>2 DEF LogOK, TokensConserved
<1>9. TypeOK'
  <2>1. curr' \in [Slots -> 0..Capacity] /\ prev' \in [Slots -> 0..Capacity]
    BY <1>4, LimiterAssumption DEF IInv, TypeOK, Zeroes
  <2>2. granted' \in [Slots -> 0..Capacity]
    <3>1. ASSUME NEW age \in Slots
          PROVE  (IF age = 0 THEN 0 ELSE granted[age - 1]) \in 0..Capacity
      BY LimiterAssumption DEF IInv, TypeOK, Slots
    <3> QED
      BY <1>2, <3>1
  <2>3. interval' \in Slots
    BY <1>1, <1>3, LimiterAssumption DEF Slots
  <2>4. owed' \in 0..Capacity
    BY <1>2, <2>1, <2>3
  <2> QED
    BY <2>1, <2>2, <2>3, <2>4 DEF IInv, TypeOK, Tick
<1>10. AheadOK'
  <2>1. CASE interval = last
    BY <1>1, <1>3, <1>4, <2>1 DEF AheadOK, Zeroes
  <2>2. CASE interval # last
    BY <1>1, <1>3, <1>4, <2>2, LimiterAssumption DEF IInv, AheadOK, Slots
  <2> QED
    BY <2>1, <2>2
<1>11. ControlOK'
  BY DEF IInv, ControlOK, Tick
<1> QED
  BY <1>7, <1>8, <1>9, <1>10, <1>11 DEF IInv

LEMMA StepInv == IInv /\ [Next]_vars => IInv'
<1> SUFFICES ASSUME IInv, [Next]_vars PROVE IInv'
  OBVIOUS
<1>1. CASE \E n \in Demands : Request(n)
  BY <1>1, RequestStep
<1>2. CASE TakePermit
  BY <1>2, TakePermitStep
<1>3. CASE Grant
  BY <1>3, GrantStep
<1>4. CASE Cancel
  BY <1>4, CancelStep
<1>5. CASE Reset
  BY <1>5, ResetStep
<1>6. CASE Tick
  BY <1>6, TickStep
<1>7. CASE Reclaim
  BY <1>7, ReclaimStep
<1>8. CASE BeginReset \/ EndSlide \/ Shutdown \/ StopTicker \/ UNCHANGED vars
  BY <1>8, QuietStep
<1> QED
  BY <1>1, <1>2, <1>3, <1>4, <1>5, <1>6, <1>7, <1>8 DEF Next, Waiting, Sliding

THEOREM Invariance == Spec => []IInv
  BY InitInv, StepInv, PTL DEF Spec

-----------------------------------------------------------------------------
(* Every variable of the limiter keeps its type, its counters within the   *)
(* capacity.                                                               *)
THEOREM LimiterTypeCorrect == Spec => []TypeOK
<1>1. IInv => TypeOK
  BY DEF IInv
<1> QED
  BY <1>1, Invariance, PTL

(* WaitN, slide, Reset and cancellation neither make nor lose a token, but *)
(* for those that leave with a cancelled request.                          *)
THEOREM NoTokenIsMade == Spec => []TokensConserved
<1>1. IInv => TokensConserved
  BY DEF IInv
<1> QED
  BY <1>1, Invariance, PTL

(* NumIntervals consecutive intervals see at most Capacity grants.         *)
THEOREM WindowIsBounded == Spec => []AtMostCapacityPerWindow
<1>1. IInv => AtMostCapacityPerWindow
  <2> SUFFICES ASSUME IInv PROVE AtMostCapacityPerWindow
    OBVIOUS
  <2>1. Conserved /\ granted \in [Slots -> Nat]
    BY InvFacts
  <2>2. Capacity - permits - got - owed - lost \in 0..Capacity
    BY <2>1, SumBounds DEF Conserved
  <2> QED
    BY <2>1, <2>2 DEF Conserved, AtMostCapacityPerWindow
<1> QED
  BY <1>1, Invariance, PTL

(* The goroutine never blocks on a full channel while it holds mu, which   *)
(* would keep every later request, reset and slide from mu for ever.       *)
THEOREM SlideHasRoom == Spec => []SlideNeverBlocks
<1>1. IInv => SlideNeverBlocks
  <2> SUFFICES ASSUME IInv, owed > 0 PROVE permits < Capacity
    BY DEF SlideNeverBlocks
  <2>1. permits + got + owed + lost <= Capacity
    BY InvFacts
  <2> QED
    BY <2>1, LimiterAssumption DEF IInv, TypeOK
<1> QED
  BY <1>1, Invariance, PTL
=============================================================================
