---------------------------- MODULE SlidingWindow ----------------------------
(***************************************************************************)
(* The rate limiter for Exchange requests: WaitN, Reset, Shutdown and the  *)
(* goroutine that slides the window and hands tokens back.                 *)
(*                                                                         *)
(*   internal/common/limiters/sliding_window.go                            *)
(*                                                                         *)
(* Callers are anonymous: requestMu lets one of them in at a time, and the *)
(* others have no state.  A step that does all its work under mu is one    *)
(* action; the slide is several, because it hands tokens out while a       *)
(* request takes them.                                                     *)
(***************************************************************************)
EXTENDS Integers

CONSTANTS
  Capacity,      \* tokens per window
  NumIntervals,  \* slide intervals per window
  Demands        \* the n that WaitN is called with

ASSUME LimiterAssumption ==
  /\ Capacity \in Nat          \* validate: 0 is allowed, for tests
  /\ NumIntervals \in Nat \ {0}
  /\ Demands \subseteq Nat

Slots == 0..NumIntervals - 1

VARIABLES
  permits,   \* the number of tokens in the permits channel
  curr,      \* [Slots -> Nat], grants in this window, by interval
  prev,      \* [Slots -> Nat], and in the window before
  interval,  \* currentInterval
  sliding,   \* the goroutine is inside slide and holds mu
  owed,      \* the tokens it has still to hand back
  ticker,    \* the life of the goroutine
  request,   \* who holds requestMu
  want, got, \* n and the loop counter of the WaitN that holds requestMu
  lost,      \* ghost: tokens that cancelled requests took with them
  granted    \* ghost: [Slots -> Nat], grants by age, in intervals

vars == <<permits, curr, prev, interval, sliding, owed, ticker,
          request, want, got, lost, granted>>

Zeroes == [i \in Slots |-> 0]

-----------------------------------------------------------------------------
(* WaitN takes its tokens from the channel one at a time, with requestMu   *)
(* but not mu; a done context may end it before any of them.               *)

Request(n) ==
  /\ request = "none"
  /\ request' = "waiting"
  /\ want' = n
  /\ got' = 0
  /\ UNCHANGED <<permits, curr, prev, interval, sliding, owed, ticker, lost, granted>>

TakePermit ==
  /\ request = "waiting"
  /\ got < want
  /\ permits > 0
  /\ permits' = permits - 1
  /\ got' = got + 1
  /\ UNCHANGED <<curr, prev, interval, sliding, owed, ticker, request, want, lost, granted>>

(* Mutant: the tokens taken so far go back to the channel.                 *)
Cancel_Refunds ==
  /\ request = "waiting"
  /\ got < want
  /\ request' = "none"
  /\ permits' = permits + want
  /\ got' = 0
  /\ want' = 0
  /\ UNCHANGED <<curr, prev, interval, sliding, owed, ticker, lost, granted>>

Cancel ==
  /\ request = "waiting"
  /\ got < want
  /\ request' = "none"
  /\ lost' = lost + got
  /\ got' = 0
  /\ want' = 0
  /\ UNCHANGED <<permits, curr, prev, interval, sliding, owed, ticker, granted>>

(* The grant is counted in the interval in which mu is had.                *)
Grant ==
  /\ request = "waiting"
  /\ got = want
  /\ ~sliding
  /\ curr' = [curr EXCEPT ![interval] = @ + want]
  /\ granted' = [granted EXCEPT ![0] = @ + want]
  /\ request' = "none"
  /\ got' = 0
  /\ want' = 0
  /\ UNCHANGED <<permits, prev, interval, sliding, owed, ticker, lost>>

(* Reset has requestMu and then waits for mu.                              *)
BeginReset ==
  /\ request = "none"
  /\ request' = "reset"
  /\ UNCHANGED <<permits, curr, prev, interval, sliding, owed, ticker, want, got, lost, granted>>

(* Mutant: the counts of the window before survive the reset.              *)
Reset_KeepsPrev ==
  /\ request = "reset"
  /\ ~sliding
  /\ curr' = Zeroes
  /\ permits' = Capacity
  /\ request' = "none"
  /\ lost' = 0
  /\ granted' = Zeroes
  /\ UNCHANGED <<prev, interval, sliding, owed, ticker, want, got>>

(* Mutant: requestMu stays locked.                                         *)
Reset_KeepsLock ==
  /\ request = "reset"
  /\ ~sliding
  /\ curr' = Zeroes
  /\ prev' = Zeroes
  /\ permits' = Capacity
  /\ lost' = 0
  /\ granted' = Zeroes
  /\ UNCHANGED <<request, interval, sliding, owed, ticker, want, got>>

Reset ==
  /\ request = "reset"
  /\ ~sliding
  /\ curr' = Zeroes
  /\ prev' = Zeroes
  /\ permits' = Capacity
  /\ request' = "none"
  /\ lost' = 0
  /\ granted' = Zeroes
  /\ UNCHANGED <<interval, sliding, owed, ticker, want, got>>

-----------------------------------------------------------------------------
(* The goroutine.                                                          *)

(* Mutant: an off-by-one, the windows are never swapped.                   *)
NextInterval_OffByOne ==
  LET next == (interval + 1) % NumIntervals
  IN  /\ interval' = next
      /\ IF next = NumIntervals
         THEN prev' = curr /\ curr' = Zeroes
         ELSE UNCHANGED <<prev, curr>>

NextInterval ==
  LET next == (interval + 1) % NumIntervals
  IN  /\ interval' = next
      /\ IF next = 0
         THEN prev' = curr /\ curr' = Zeroes
         ELSE UNCHANGED <<prev, curr>>

(* Mutant: an off-by-one, intervals are reclaimed early.                   *)
Tick_Early ==
  /\ ticker # "stopped"
  /\ ~sliding
  /\ NextInterval
  /\ sliding' = TRUE
  /\ owed' = prev'[(interval' + 1) % NumIntervals]
  /\ granted' = [age \in Slots |-> IF age = 0 THEN 0 ELSE granted[age - 1]]
  /\ UNCHANGED <<permits, ticker, request, want, got, lost>>

(* The ticker fires; it may once more while the goroutine is being stopped.*)
Tick ==
  /\ ticker # "stopped"
  /\ ~sliding
  /\ NextInterval
  /\ sliding' = TRUE
  /\ owed' = prev'[interval']
  /\ granted' = [age \in Slots |-> IF age = 0 THEN 0 ELSE granted[age - 1]]
  /\ UNCHANGED <<permits, ticker, request, want, got, lost>>

(* One send to the channel, which blocks, with mu held, when it is full.   *)
Reclaim ==
  /\ sliding
  /\ owed > 0
  /\ permits < Capacity
  /\ permits' = permits + 1
  /\ owed' = owed - 1
  /\ UNCHANGED <<curr, prev, interval, sliding, ticker, request, want, got, lost, granted>>

EndSlide ==
  /\ sliding
  /\ owed = 0
  /\ sliding' = FALSE
  /\ UNCHANGED <<permits, curr, prev, interval, owed, ticker, request, want, got, lost, granted>>

(* closeOnce: only the first call does anything.                           *)
Shutdown ==
  /\ ticker = "running"
  /\ ticker' = "stopping"
  /\ UNCHANGED <<permits, curr, prev, interval, sliding, owed, request, want, got, lost, granted>>

StopTicker ==
  /\ ticker = "stopping"
  /\ ~sliding
  /\ ticker' = "stopped"
  /\ UNCHANGED <<permits, curr, prev, interval, sliding, owed, request, want, got, lost, granted>>

-----------------------------------------------------------------------------
(* initialize: the first interval is entered and the channel is filled.    *)
Init ==
  /\ permits = Capacity
  /\ curr = Zeroes
  /\ prev = Zeroes
  /\ interval = 0
  /\ sliding = FALSE
  /\ owed = 0
  /\ ticker = "running"
  /\ request = "none"
  /\ want = 0
  /\ got = 0
  /\ lost = 0
  /\ granted = Zeroes

Waiting == TakePermit \/ Grant

Sliding == Tick \/ Reclaim \/ EndSlide

Next ==
  \/ \E n \in Demands : Request(n)
  \/ Waiting
  \/ Cancel
  \/ BeginReset
  \/ Reset
  \/ Sliding
  \/ Shutdown
  \/ StopTicker

Spec == Init /\ [][Next]_vars

(* Goroutines that can run do: the request that has requestMu, a reset     *)
(* that waits for mu, and the slide, which runs whenever the ticker fires. *)
(* A grant or a reset competes for mu with slides that hold it again and   *)
(* again: sync.Mutex starves neither of them.                              *)
FairSpec ==
  /\ Spec
  /\ WF_vars(TakePermit)
  /\ SF_vars(Grant)
  /\ SF_vars(Reset)
  /\ WF_vars(Tick)
  /\ WF_vars(Reclaim \/ EndSlide)

-----------------------------------------------------------------------------
(* Properties.                                                             *)

(* Every variable has its type, and no count ever exceeds the capacity.    *)
TypeOK ==
  /\ permits \in 0..Capacity
  /\ curr \in [Slots -> 0..Capacity]
  /\ prev \in [Slots -> 0..Capacity]
  /\ interval \in Slots
  /\ sliding \in BOOLEAN
  /\ owed \in 0..Capacity
  /\ ticker \in {"running", "stopping", "stopped"}
  /\ request \in {"none", "waiting", "reset"}
  /\ want \in Nat
  /\ got \in 0..want
  /\ lost \in 0..Capacity
  /\ granted \in [Slots -> 0..Capacity]

(* s holds the running totals of f.                                        *)
RunningTotals(s, f) ==
  /\ s[0] = 0
  /\ \A i \in Slots : s[i + 1] = s[i] + f[i]
  /\ \A i, j \in 0..NumIntervals : i <= j => s[i] <= s[j]

(* The sum of f is t, which is at most Capacity.                           *)
SumIs(f, t) ==
  \E s \in [0..NumIntervals -> 0..Capacity] :
    RunningTotals(s, f) /\ s[NumIntervals] = t

(* The counts a slide has yet to reclaim, by the age of their interval.    *)
Outstanding ==
  [age \in Slots |-> IF age <= interval THEN curr[interval - age]
                     ELSE prev[NumIntervals + interval - age]]

(* Every token is in one place: in the channel, with a request, with the   *)
(* slide, counted as granted in a window, or lost with a cancelled request.*)
(* So the channel has room for all that a slide sends, mu held.            *)
TokensConserved ==
  SumIs(Outstanding, Capacity - permits - got - owed - lost)

(* "Limiter will allow at most capacity requests in this duration"         *)
(* (sliding_window.go:23), counted in whole intervals and from the last    *)
(* Reset on, which refills the channel at once: whatever requests, slides  *)
(* and cancellations do at the same time, no more than Capacity tokens are *)
(* granted in NumIntervals consecutive intervals.                          *)
AtMostCapacityPerWindow ==
  \E total \in 0..Capacity : SumIs(granted, total)

(* A slide that holds mu can always send its next token.                   *)
SlideNeverBlocks == sliding /\ owed > 0 => permits < Capacity

(* A request for no more than the capacity is answered, unless tokens were *)
(* lost to cancelled requests before it or the limiter is shut down.       *)
ServedUnlessLost ==
  request = "waiting" /\ want <= Capacity ~>
    request # "waiting" \/ lost > 0 \/ ticker # "running"

(* "WaitN should be called with n <= capacity otherwise it will block      *)
(* forever" (sliding_window.go:97): called so, it does not.                *)
Served ==
  request = "waiting" /\ want <= Capacity ~>
    request # "waiting" \/ ticker # "running"

(* A reset that has begun ends: slides do not keep it from mu for ever.    *)
ResetEnds == request = "reset" ~> request # "reset"

-----------------------------------------------------------------------------
(* The inductive invariant: the ghost log of grants is what the two        *)
(* windows hold, and the slots of this window that lie ahead are empty.    *)

LogOK == granted = Outstanding

AheadOK == \A i \in Slots : i > interval => curr[i] = 0

ControlOK ==
  /\ request # "waiting" => got = 0
  /\ ~sliding => owed = 0

IInv == TypeOK /\ LogOK /\ AheadOK /\ ControlOK /\ TokensConserved
=============================================================================
