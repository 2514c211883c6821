----------------------------- MODULE RetryReader -----------------------------
(***************************************************************************)
(* The reader of a file's content that reconnects: resetRetryHandler, over *)
(* a Getter that may or may not support ranges.                            *)
(*                                                                         *)
(*   internal/common/readers/retry_handler.go                              *)
(*                                                                         *)
(* A connection that has failed goes on failing in the same way, as the    *)
(* bodies of net/http responses do.                                        *)
(***************************************************************************)
EXTENDS Integers

CONSTANTS
  Size,          \* the bytes of the content are 1..Size
  MaxBuffer,     \* bound: the length of the buffer given to Read
  MaxCalls,      \* bound: calls of Read
  numMaxRetries  \* connections made for one call, or for the first one

ASSUME ReaderAssumption ==
  /\ Size \in Nat
  /\ MaxBuffer \in Nat
  /\ MaxCalls \in Nat
  /\ numMaxRetries \in Nat \ {0}

VARIABLES
  ranged,   \* getter.SupportsRange
  inner,    \* the connection [at: bytes it is past, health]
  offset,   \* rrh.offset
  out,      \* the bytes given to callers: [1..offset -> byte]
  reading,  \* the call in progress, see NoCall
  answer,   \* what the last call returned: "none", "ok", "eof" or "error"
  calls

readerVars == <<ranged, inner, offset, out, reading, answer, calls>>

Health == {"none", "good", "retriable", "fatal"}

NoConnection == [at |-> 0, health |-> "none"]

(* step is the place in Read and reconnect; read and retries their local   *)
(* variables; left the attempts that reconnect has; err its last error.    *)
NoCall == [step |-> "idle", room |-> 0, read |-> 0, retries |-> 0, left |-> 0, err |-> "none"]

ReaderInit ==
  /\ ranged \in BOOLEAN
  /\ inner = NoConnection
  /\ offset = 0 /\ out = [i \in 1..0 |-> i]
  /\ reading = [NoCall EXCEPT !.step = "new", !.left = numMaxRetries, !.err = "retriable"]
  /\ answer = "none"
  /\ calls = 0

-----------------------------------------------------------------------------
(* Read(p), with a buffer of n bytes; the caller may call again after an   *)
(* error.                                                                  *)
Call(n) ==
  /\ reading.step = "idle"
  /\ inner.health # "none"
  /\ calls < MaxCalls
  /\ calls' = calls + 1
  /\ reading' = [NoCall EXCEPT !.step = "read", !.room = n]
  /\ answer' = "none"
  /\ UNCHANGED <<ranged, inner, offset, out>>

(* Close: later calls fail, "not initialized".                             *)
Close ==
  /\ reading.step = "idle"
  /\ inner.health # "none"
  /\ inner' = NoConnection
  /\ answer' = "none"
  /\ UNCHANGED <<ranged, offset, out, reading, calls>>

Return(a) ==
  /\ reading' = NoCall
  /\ answer' = a

(* innerReader.Read(p[read:]) gives n bytes and the error e.               *)
Receive(n, e) ==
  /\ inner' = [at |-> inner.at + n, health |-> IF e \in {"ok", "eof"} THEN "good" ELSE e]
  /\ out' = [i \in 1..(offset + n) |->
               IF i \in 1..offset THEN out[i] ELSE inner.at + (i - offset)]
  /\ offset' = offset + n

InnerResult(n, e) ==
  /\ n <= reading.room - reading.read
  /\ inner.at + n <= Size
  /\ e = "eof" => inner.at + n = Size
  /\ inner.health # "good" => n = 0 /\ e = inner.health

(* Mutant: every reconnection starts with all the attempts.                *)
AttemptsLeft_All == numMaxRetries

AttemptsLeft == numMaxRetries - reading.retries

(* Short reads, the end and errors that are not retried return at once.    *)
ReadInner(n, e) ==
  /\ reading.step = "read"
  /\ reading.retries < numMaxRetries
  /\ InnerResult(n, e)
  /\ Receive(n, e)
  /\ IF e # "retriable"
     THEN Return(IF e = "fatal" THEN "error" ELSE e)
     ELSE /\ reading' = [reading EXCEPT !.step = "connect",
                                        !.read = @ + n,
                                        !.left = AttemptsLeft,
                                        !.err = "retriable"]
          /\ UNCHANGED answer
  /\ UNCHANGED <<ranged, calls>>

(* The loop of Read ends: nothing was read and nothing failed is an error  *)
(* too, ErrNoProgress.                                                     *)
GiveUp ==
  /\ reading.step = "read"
  /\ reading.retries >= numMaxRetries
  /\ Return(IF reading.err # "none" \/ reading.read = 0 THEN "error" ELSE "ok")
  /\ UNCHANGED <<ranged, inner, offset, out, calls>>

-----------------------------------------------------------------------------
(* reconnect(left).                                                        *)

Connecting == reading.step \in {"new", "connect"}

GoesOn == reading.left > 0 /\ reading.err = "retriable"

(* Mutant: only attempts that make a connection are counted.               *)
Attempted_FreeFailures(e) ==
  reading' = [reading EXCEPT !.left = IF e = "none" THEN @ - 1 ELSE @,
                             !.retries = IF e = "none" THEN @ + 1 ELSE @,
                             !.err = e]

Attempted(e) ==
  reading' = [reading EXCEPT !.left = @ - 1, !.retries = @ + 1, !.err = e]

(* Get fails: the old connection stays.                                    *)
GetFails(e) ==
  /\ Connecting /\ GoesOn
  /\ Attempted(e)
  /\ UNCHANGED <<ranged, inner, offset, out, answer, calls>>

(* Mutant: what was read before is also skipped after a range.             *)
Resumed_SkipsRange(n, e) ==
  /\ n <= offset
  /\ IF n = offset THEN e = "none" ELSE e \in {"retriable", "fatal"}
  /\ inner' = [at |-> IF ranged /\ offset + n <= Size THEN offset + n ELSE n,
               health |-> IF e = "none" THEN "good" ELSE e]

(* Get succeeds, at the offset with a range; otherwise what was read       *)
(* before is skipped, which can fail after n bytes.                        *)
Resumed(n, e) ==
  /\ IF ranged THEN n = offset ELSE n <= offset
  /\ IF n = offset THEN e = "none" ELSE e \in {"retriable", "fatal"}
  /\ inner' = [at |-> n, health |-> IF e = "none" THEN "good" ELSE e]

GetSucceeds(n, e) ==
  /\ Connecting /\ GoesOn
  /\ Resumed(n, e)
  /\ Attempted(e)
  /\ UNCHANGED <<ranged, offset, out, answer, calls>>

(* Back in Read, or in NewResetRetryHandler, where an error leaves no      *)
(* reader.                                                                 *)
Reconnected ==
  /\ Connecting /\ ~GoesOn
  /\ IF reading.step = "new"
     THEN /\ reading' = NoCall
          /\ answer' = IF reading.err = "none" THEN "none" ELSE "error"
     ELSE /\ reading' = [reading EXCEPT !.step = "read"]
          /\ UNCHANGED answer
  /\ UNCHANGED <<ranged, inner, offset, out, calls>>

(* One step of the code or of the service it reads from.                   *)
ReaderStep ==
  \/ \E n \in 0..Size, e \in {"ok", "eof", "retriable", "fatal"} : ReadInner(n, e)
  \/ GiveUp
  \/ \E e \in {"retriable", "fatal"} : GetFails(e)
  \/ \E n \in 0..Size, e \in {"none", "retriable", "fatal"} : GetSucceeds(n, e)
  \/ Reconnected

ReaderNext ==
  \/ ReaderStep
  \/ \E n \in 1..MaxBuffer : Call(n)
  \/ Close

ReaderSpec == ReaderInit /\ [][ReaderNext]_readerVars

-----------------------------------------------------------------------------
(* Properties.                                                             *)

(* One call makes at most numMaxRetries connections: the attempts of its   *)
(* reconnections add up, and do not multiply.                              *)
ReaderTypeOK ==
  /\ ranged \in BOOLEAN
  /\ inner \in [at : 0..Size, health : Health]
  /\ offset \in 0..Size
  /\ reading.step \in {"idle", "new", "read", "connect"}
  /\ reading.retries \in 0..numMaxRetries
  /\ reading.left \in 0..numMaxRetries
  /\ reading.err \in {"none", "retriable", "fatal"}
  /\ Connecting => reading.left + reading.retries = numMaxRetries
  /\ answer \in {"none", "ok", "eof", "error"}

(* However often the connection is lost, the caller is given the bytes of  *)
(* the content from the first on, none twice and none left out, and the    *)
(* end is not reported before all of them.                                 *)
ContentInOrder ==
  /\ out = [i \in 1..offset |-> i]
  /\ answer = "eof" => offset = Size

(* A call returns, with something or an error, on a connection that fails  *)
(* for ever too.                                                           *)
EveryCallReturns == reading.step = "read" ~> reading.step = "idle"
=============================================================================
