---------------------------- MODULE MCParts_proofs ----------------------------
(***************************************************************************)
(* Proofs about what reads from Graph: the retrying reader of a file, the  *)
(* pagers of deltas and the URL cache of a drive; about what keeps the     *)
(* repository: the counted connections to it and the models in it; and     *)
(* about MCParts: side by side, the parts keep what each keeps when it is  *)
(* alone.  For contents, pages, items, numbers and limits of any size, and *)
(* any processes, clients, models and bounds.                              *)
(***************************************************************************)
EXTENDS MCParts, DriveRestore_proofs

-----------------------------------------------------------------------------
(* RetryReader.                                                            *)

Calls ==
  [step : {"idle", "new", "read", "connect"}, room : Nat, read : Nat,
   retries : 0..numMaxRetries, left : 0..numMaxRetries, err : {"none", "retriable", "fatal"}]

(* What the steps preserve: a connection that works is where the caller is,*)
(* which is why its next bytes are the next bytes; and while a call runs,  *)
(* the end has not been reported.                                          *)
ReaderIInv ==
  /\ ranged \in BOOLEAN
  /\ inner \in [at : 0..Size, health : Health]
  /\ offset \in 0..Size
  /\ reading \in Calls
  /\ answer \in {"none", "ok", "eof", "error"}
  /\ Connecting => reading.left + reading.retries = numMaxRetries
  /\ inner.health = "good" => inner.at = offset
  /\ reading.step # "idle" => answer = "none"
  /\ ContentInOrder

LEMMA NoCallType == NoCall \in Calls
  BY ReaderAssumption DEF NoCall, Calls

LEMMA ReaderInitIInv == ReaderInit => ReaderIInv
  <1> SUFFICES ASSUME ReaderInit PROVE ReaderIInv
    OBVIOUS
  <1>1. reading \in Calls /\ reading.left + reading.retries = numMaxRetries
    <2>1. reading = [step |-> "new", room |-> 0, read |-> 0, retries |-> 0,
                     left |-> numMaxRetries, err |-> "retriable"]
      BY DEF ReaderInit, NoCall
    <2> QED
      BY <2>1, ReaderAssumption DEF Calls
  <1>2. inner \in [at : 0..Size, health : Health] /\ inner.health = "none"
    BY ReaderAssumption DEF ReaderInit, NoConnection, Health
  <1>3. offset = 0 /\ offset \in 0..Size /\ answer = "none" /\ out = [i \in 1..0 |-> i]
    BY ReaderAssumption DEF ReaderInit
  <1>4. ranged \in BOOLEAN
    BY DEF ReaderInit
  <1> QED
    BY <1>1, <1>2, <1>3, <1>4 DEF ReaderIInv, ContentInOrder

(* The only step that gives bytes to the caller.                           *)
LEMMA ReadInnerIInv ==
  ASSUME ReaderIInv, NEW n \in 0..Size, NEW e \in {"ok", "eof", "retriable", "fatal"},
         ReadInner(n, e)
  PROVE  ReaderIInv'
  <1>1. /\ inner \in [at : 0..Size, health : Health] /\ offset \in 0..Size /\ reading \in Calls
        /\ Size \in Nat /\ numMaxRetries \in Nat
        /\ out = [i \in 1..offset |-> i]
    BY ReaderAssumption DEF ReaderIInv, ContentInOrder
  <1>2. n = 0 \/ inner.at = offset
    BY DEF ReaderIInv, ReadInner, InnerResult
  <1>3. offset' = offset + n /\ offset' \in 0..Size
    <2>1. n # 0 => offset + n <= Size
      BY <1>1, <1>2 DEF ReadInner, InnerResult
    <2> QED
      BY <1>1, <2>1 DEF ReadInner, Receive
  <1>4. out' = [i \in 1..offset' |-> i]
    <2>1. \A i \in 1..(offset + n) :
            (IF i \in 1..offset THEN out[i] ELSE inner.at + (i - offset)) = i
      BY <1>1, <1>2
    <2> QED
      BY <1>3, <2>1 DEF ReadInner, Receive
  <1>5. /\ inner' \in [at : 0..Size, health : Health]
        /\ inner'.health = "good" => inner'.at = offset'
    <2>1. inner' = [at |-> inner.at + n, health |-> IF e \in {"ok", "eof"} THEN "good" ELSE e]
      BY DEF ReadInner, Receive
    <2>2. inner.at + n \in 0..Size
      BY <1>1 DEF ReadInner, InnerResult
    <2>3. e \in {"ok", "eof"} => inner.health = "good"
      BY <1>1 DEF ReadInner, InnerResult, Health
    <2>4. e \in {"ok", "eof"} => inner.at = offset
      BY <2>3 DEF ReaderIInv
    <2> QED
      BY <1>1, <1>3, <2>1, <2>2, <2>4 DEF Health
  <1>6. CASE e # "retriable"
    <2>1. reading' = NoCall /\ answer' = IF e = "fatal" THEN "error" ELSE e
      BY <1>6 DEF ReadInner, Return
    <2>2. e = "eof" => offset' = Size
      <3>1. e = "eof" => inner.health = "good" /\ inner.at + n = Size
        BY <1>1 DEF ReadInner, InnerResult, Health
      <3> QED
        BY <1>1, <1>3, <3>1 DEF ReaderIInv
    <2>3. answer' \in {"none", "ok", "eof", "error"} /\ (answer' = "eof" => offset' = Size)
      BY <1>6, <2>1, <2>2
    <2>4. NoCall.step = "idle"
      BY DEF NoCall
    <2>5. ranged' \in BOOLEAN
      BY DEF ReadInner, ReaderIInv
    <2> QED
      BY <1>3, <1>4, <1>5, <2>1, <2>3, <2>4, <2>5, NoCallType DEF ReaderIInv, ContentInOrder, Connecting
  <1>7. CASE e = "retriable"
    <2>1. /\ reading.retries < numMaxRetries
          /\ reading' = [reading EXCEPT !.step = "connect", !.read = @ + n,
                           !.left = numMaxRetries - reading.retries, !.err = "retriable"]
          /\ answer' = answer /\ ranged' = ranged
      BY <1>7 DEF ReadInner, AttemptsLeft
    <2>2. /\ reading.retries \in 0..numMaxRetries /\ reading.room \in Nat
          /\ reading.read + n \in Nat /\ numMaxRetries - reading.retries \in 0..numMaxRetries
      BY <1>1 DEF Calls
    <2>4. reading' = [step |-> "connect", room |-> reading.room, read |-> reading.read + n,
                      retries |-> reading.retries, left |-> numMaxRetries - reading.retries,
                      err |-> "retriable"]
      BY <1>1, <2>1 DEF Calls
    <2>5. reading' \in Calls
      BY <2>2, <2>4 DEF Calls
    <2>6. reading'.left + reading'.retries = numMaxRetries
      BY <1>1, <2>2, <2>4
    <2>3. answer = "none"
      BY DEF ReaderIInv, ReadInner
    <2> QED
      BY <1>3, <1>4, <1>5, <2>1, <2>3, <2>5, <2>6 DEF ReaderIInv, ContentInOrder
  <1> QED
    BY <1>6, <1>7

(* The steps of reconnect.                                                 *)
LEMMA AttemptedType ==
  ASSUME ReaderIInv, Connecting, GoesOn, NEW e \in {"none", "retriable", "fatal"}, Attempted(e)
  PROVE  /\ reading' \in Calls /\ reading'.step = reading.step
         /\ reading'.left + reading'.retries = numMaxRetries
  <1>1. reading \in Calls /\ numMaxRetries \in Nat
    BY ReaderAssumption DEF ReaderIInv
  <1>2. reading.left + reading.retries = numMaxRetries /\ reading.left > 0
    BY DEF ReaderIInv, GoesOn
  <1>3. /\ reading.left - 1 \in 0..numMaxRetries /\ reading.retries + 1 \in 0..numMaxRetries
        /\ reading.room \in Nat /\ reading.read \in Nat
        /\ reading.step \in {"idle", "new", "read", "connect"}
        /\ (reading.left - 1) + (reading.retries + 1) = numMaxRetries
    BY <1>1, <1>2 DEF Calls
  <1>4. reading' = [step |-> reading.step, room |-> reading.room, read |-> reading.read,
                    retries |-> reading.retries + 1, left |-> reading.left - 1, err |-> e]
    BY <1>1 DEF Attempted, Calls
  <1> QED
    BY <1>3, <1>4 DEF Calls

LEMMA ReaderStepIInv == ReaderIInv /\ [ReaderNext]_readerVars => ReaderIInv'
  <1> SUFFICES ASSUME ReaderIInv, [ReaderNext]_readerVars PROVE ReaderIInv'
    OBVIOUS
  <1> USE DEF ContentInOrder
  <1>1. ASSUME NEW n \in 1..MaxBuffer, Call(n) PROVE ReaderIInv'
    <2>1. reading' \in Calls /\ reading'.step = "read"
      <3>1. n \in Nat
        BY <1>1, ReaderAssumption
      <3> QED
        BY <1>1, <3>1, NoCallType DEF Call, NoCall, Calls
    <2> QED
      BY <1>1, <2>1 DEF Call, ReaderIInv, Connecting
  <1>2. CASE Close
    <2>1. /\ inner' \in [at : 0..Size, health : Health] /\ inner'.health = "none"
          /\ answer' = "none" /\ UNCHANGED <<ranged, offset, out, reading>>
      BY <1>2, ReaderAssumption DEF Close, NoConnection, Health
    <2> QED
      BY <2>1 DEF ReaderIInv, Connecting
  <1>3. ASSUME NEW n \in 0..Size, NEW e \in {"ok", "eof", "retriable", "fatal"}, ReadInner(n, e)
        PROVE  ReaderIInv'
    BY <1>3, ReadInnerIInv
  <1>4. CASE GiveUp
    <2>1. /\ reading' = NoCall /\ answer' \in {"error", "ok"}
          /\ UNCHANGED <<ranged, inner, offset, out>>
      BY <1>4 DEF GiveUp, Return
    <2>2. NoCall.step = "idle"
      BY DEF NoCall
    <2> QED
      BY <2>1, <2>2, NoCallType DEF ReaderIInv, Connecting
  <1>5. ASSUME NEW e \in {"retriable", "fatal"}, GetFails(e) PROVE ReaderIInv'
    <2>1. /\ reading' \in Calls /\ reading'.step = reading.step
          /\ reading'.left + reading'.retries = numMaxRetries
      BY <1>5, AttemptedType DEF GetFails
    <2> QED
      BY <1>5, <2>1 DEF GetFails, ReaderIInv
  <1>6. ASSUME NEW n \in 0..Size, NEW e \in {"none", "retriable", "fatal"}, GetSucceeds(n, e)
        PROVE  ReaderIInv'
    <2>1. /\ reading' \in Calls /\ reading'.step = reading.step
          /\ reading'.left + reading'.retries = numMaxRetries
      BY <1>6, AttemptedType DEF GetSucceeds
    <2>2. /\ inner' \in [at : 0..Size, health : Health]
          /\ inner'.health = "good" => inner'.at = offset
      BY <1>6 DEF GetSucceeds, Resumed, Health
    <2> QED
      BY <1>6, <2>1, <2>2 DEF GetSucceeds, ReaderIInv
  <1>7. CASE Reconnected
    <2>1. CASE reading.step = "new"
      <3>1. reading' = NoCall /\ answer' \in {"none", "error"} /\ UNCHANGED <<ranged, inner, offset, out>>
        BY <1>7, <2>1 DEF Reconnected
      <3>2. NoCall.step = "idle"
        BY DEF NoCall
      <3> QED
        BY <3>1, <3>2, NoCallType DEF ReaderIInv, Connecting
    <2>2. CASE reading.step # "new"
      <3>1. reading' = [reading EXCEPT !.step = "read"] /\ UNCHANGED <<ranged, inner, offset, out, answer>>
        BY <1>7, <2>2 DEF Reconnected
      <3>2. reading' \in Calls /\ reading'.step = "read" /\ reading.step # "idle"
        BY <1>7, <3>1 DEF ReaderIInv, Calls, Reconnected, Connecting
      <3> QED
        BY <3>1, <3>2 DEF ReaderIInv, Connecting
    <2> QED
      BY <2>1, <2>2
  <1>8. CASE UNCHANGED readerVars
    BY <1>8 DEF readerVars, ReaderIInv, Connecting
  <1> QED
    BY <1>1, <1>2, <1>3, <1>4, <1>5, <1>6, <1>7, <1>8 DEF ReaderNext, ReaderStep

(* Whatever fails, and however often, the bytes that Read has given are    *)
(* the first bytes of the content in their order, and it reports the end   *)
(* only after the last.                                                    *)
THEOREM ReadsContentInOrder == ReaderSpec => []ContentInOrder
  <1>1. ReaderIInv => ContentInOrder
    BY DEF ReaderIInv
  <1> QED
    BY <1>1, ReaderInitIInv, ReaderStepIInv, PTL DEF ReaderSpec

(* ReaderTypes, and the budget of connections that Read and reconnect share.     *)
THEOREM ReaderTypeCorrect == ReaderSpec => []ReaderTypeOK
  <1>1. ReaderIInv => ReaderTypeOK
    BY DEF ReaderIInv, ReaderTypeOK, Calls
  <1> QED
    BY <1>1, ReaderInitIInv, ReaderStepIInv, PTL DEF ReaderSpec

-----------------------------------------------------------------------------
(* NextPager.                                                              *)

Pages == Seq(SUBSET Records) \ {<<>>}

Producers ==
  [step : {"get", "write", "closed"}, kind : {"delta", "plain"}, token : BOOLEAN,
   taken : Nat, page : SUBSET Records, reset : BOOLEAN, url : BOOLEAN,
   err : {"none", "error", "not supported"}]

Consumers ==
  [step : {"loop", "next", "results", "ok", "error"}, added : SUBSET PageItems,
   removed : SUBSET PageItems, url : BOOLEAN, reset : BOOLEAN]

PagerTypes ==
  /\ withToken \in Pages /\ fromStart \in Pages /\ limit \in Nat
  /\ producer \in Producers /\ consumer \in Consumers
  /\ cancelled \in BOOLEAN /\ stopped \in BOOLEAN /\ invalid \in 0..MaxInvalid
  /\ limit > 0 => Cardinality(consumer.added) <= limit

(* Where a goroutine is in its enumeration of pages.                       *)
Progress(p, pages) ==
  /\ p.taken <= Len(pages)
  /\ p.step = "get" => p.taken < Len(pages) /\ p.err = "none"
  /\ p.step = "write" /\ ~p.reset =>
       p.taken < Len(pages) /\ p.page = pages[p.taken + 1] /\ p.err = "none"
  /\ p.step = "write" /\ p.reset => p.taken = 0 /\ p.page = {}
  /\ p.url => p.step = "closed" /\ p.taken = Len(pages)

(* Without a limit it only ends without an error when it has no more pages,*)
(* unless its consumer has failed.                                         *)
EndsWithLast ==
  limit = 0 /\ consumer.step # "error" =>
    /\ cancelled => producer.step = "closed"
    /\ producer.step = "closed" /\ producer.err = "none" =>
         producer.taken = Len(PagesOf(producer))

AllThere(pages, n) == UNION {There(pages[i]) : i \in 1..n}
AllGone(pages, n)  == UNION {Gone(pages[i]) : i \in 1..n}

(* Its consumer has the pages it took, and nothing else: but for a reset it*)
(* has not been told of.                                                   *)
Gathered ==
  limit = 0 /\ consumer.step # "error" /\ producer.err # "error"
  /\ ~(producer.step = "write" /\ producer.reset) =>
    /\ consumer.added = AllThere(PagesOf(producer), producer.taken)
    /\ consumer.removed = AllGone(PagesOf(producer), producer.taken)

Answered ==
  consumer.step = "ok" =>
    /\ producer.step = "closed" /\ producer.err = "none"
    /\ consumer.url = producer.url
    /\ consumer.reset = ~producer.token

PagerIInv ==
  /\ PagerTypes
  /\ Progress(producer, PagesOf(producer))
  /\ EndsWithLast /\ Gathered /\ Answered

-----------------------------------------------------------------------------
LEMMA NoPages ==
  ASSUME NEW pages PROVE AllThere(pages, 0) = {} /\ AllGone(pages, 0) = {}
  BY DEF AllThere, AllGone

LEMMA NextOfPages ==
  ASSUME NEW pages, NEW n \in Nat
  PROVE  /\ AllThere(pages, n + 1) = AllThere(pages, n) \cup There(pages[n + 1])
         /\ AllGone(pages, n + 1) = AllGone(pages, n) \cup Gone(pages[n + 1])
  <1>1. 1..(n + 1) = (1..n) \cup {n + 1}
    OBVIOUS
  <1> QED
    BY <1>1 DEF AllThere, AllGone

LEMMA PagesOfSome == ASSUME NEW pages \in Pages PROVE Len(pages) \in Nat /\ Len(pages) > 0
  BY DEF Pages

LEMMA PageTypes ==
  ASSUME NEW page \in SUBSET Records
  PROVE  There(page) \subseteq PageItems /\ Gone(page) \subseteq PageItems
  BY DEF Records, There, Gone

LEMMA PagesOfType == ASSUME PagerTypes, NEW p \in Producers PROVE PagesOf(p) \in Pages
  BY DEF PagerTypes, PagesOf

LEMMA PagerInitIInv == PagerInit => PagerIInv
  <1> SUFFICES ASSUME PagerInit PROVE PagerIInv
    OBVIOUS
  <1>1. PICK kind \in {"delta", "plain"}, token \in BOOLEAN : producer = Producer(kind, token)
    BY DEF PagerInit
  <1>2. /\ withToken \in Pages /\ fromStart \in Pages /\ limit \in Nat
        /\ invalid \in 0..MaxInvalid
    BY PagerAssumption DEF PagerInit, Pages
  <1>9. cancelled = FALSE /\ cancelled \in BOOLEAN /\ stopped \in BOOLEAN
    BY DEF PagerInit
  <1>3. /\ producer \in Producers /\ producer.step = "get" /\ producer.taken = 0
        /\ producer.url = FALSE /\ producer.err = "none"
    BY <1>1 DEF Producer, Producers
  <1>4. /\ consumer \in Consumers /\ consumer.step = "loop"
        /\ consumer.added = {} /\ consumer.removed = {}
    BY DEF PagerInit, Consumer, Consumers
  <1>5. PagerTypes
    <2>1. Cardinality(consumer.added) = 0
      BY <1>4, FS_EmptySet
    <2>2. limit > 0 => Cardinality(consumer.added) <= limit
      BY <1>2, <2>1
    <2> QED
      BY <1>2, <1>3, <1>4, <1>9, <2>2, Zenon DEF PagerTypes
  <1>6. Len(PagesOf(producer)) \in Nat /\ Len(PagesOf(producer)) > 0
    BY <1>3, <1>5, PagesOfType, PagesOfSome
  <1>7. Progress(producer, PagesOf(producer)) /\ EndsWithLast /\ Answered
    BY <1>3, <1>4, <1>6, <1>9 DEF Progress, EndsWithLast, Answered
  <1>8. Gathered
    BY <1>3, <1>4, NoPages DEF Gathered
  <1> QED
    BY <1>5, <1>7, <1>8 DEF PagerIInv

(* What the producer does on its own: it goes on with the pages it is at,  *)
(* or drops them to start over, or ends.                                   *)
LEMMA ProducerAlone ==
  ASSUME PagerIInv, producer' \in Producers, Progress(producer, PagesOf(producer))',
         UNCHANGED <<inputs, consumer, cancelled, stopped>>, invalid' \in 0..MaxInvalid,
         producer.step # "closed",
         \/ /\ producer'.step = "write"
            /\ \/ producer'.reset
               \/ /\ ~producer'.reset /\ producer.step = "get"
                  /\ producer'.token = producer.token /\ producer'.taken = producer.taken
         \/ producer'.step = "closed" /\ producer'.err = "error"
         \/ producer'.step = "closed" /\ cancelled
  PROVE  PagerIInv'
  <1>1. PagerTypes'
    BY DEF PagerIInv, PagerTypes, inputs
  <1>2. EndsWithLast' /\ Answered'
    BY DEF PagerIInv, EndsWithLast, Answered, inputs
  <1>3. Gathered'
    BY DEF PagerIInv, EndsWithLast, Gathered, PagesOf, Progress, PagerTypes, inputs
  <1> QED
    BY <1>1, <1>2, <1>3 DEF PagerIInv

LEMMA ResetProgress ==
  ASSUME NEW p, NEW pages \in Pages,
         p.step = "write", p.reset = TRUE, p.taken = 0, p.page = {}, p.url = FALSE
  PROVE  Progress(p, pages)
  BY PagesOfSome DEF Progress

LEMMA ProducerIInv == ASSUME PagerIInv, ProducerStep PROVE PagerIInv'
  <1> DEFINE n == Len(PagesOf(producer))
  <1>1. /\ producer \in Producers /\ PagesOf(producer) \in Pages /\ n \in Nat /\ n > 0
        /\ Progress(producer, PagesOf(producer))
        /\ invalid \in 0..MaxInvalid /\ MaxInvalid \in Nat
    BY PagesOfType, PagesOfSome, PagerAssumption DEF PagerIInv, PagerTypes
  <1>2. CASE GetPage
    <2>1. /\ producer.step = "get" /\ producer.taken \in Nat /\ producer.taken < n
          /\ producer.err = "none" /\ ~producer.url
      BY <1>1, <1>2 DEF GetPage, Progress, Producers
    <2>2. PagesOf(producer)[producer.taken + 1] \in SUBSET Records
      BY <1>1, <2>1 DEF Pages
    <2>3. /\ producer' = [producer EXCEPT !.step = "write",
                            !.page = PagesOf(producer)[producer.taken + 1], !.reset = FALSE]
          /\ UNCHANGED <<inputs, consumer, cancelled, stopped, invalid>>
      BY <1>2 DEF GetPage, Fetched
    <2>4. /\ producer' \in Producers /\ producer'.step = "write" /\ ~producer'.reset
          /\ producer'.token = producer.token /\ producer'.taken = producer.taken
          /\ producer'.page = PagesOf(producer)[producer.taken + 1]
          /\ producer'.err = "none" /\ ~producer'.url
      BY <1>1, <2>1, <2>2, <2>3 DEF Producers
    <2>6. PagesOf(producer)' = PagesOf(producer)
      BY <2>3, <2>4 DEF PagesOf, inputs
    <2>5. Progress(producer, PagesOf(producer))'
      BY <1>1, <2>1, <2>4, <2>6 DEF Progress
    <2> QED
      BY <1>1, <2>1, <2>3, <2>4, <2>5, ProducerAlone
  <1>3. CASE InvalidDelta \/ DeltaNotSupported
    <2>1. /\ producer.step = "get" /\ ~producer.url
          /\ UNCHANGED <<inputs, consumer, cancelled, stopped>>
      BY <1>1, <1>3 DEF InvalidDelta, DeltaNotSupported, Progress
    <2>6. invalid' \in 0..MaxInvalid
      <3>1. invalid' = invalid \/ (invalid < MaxInvalid /\ invalid' = invalid + 1)
        BY <1>3, Zenon DEF InvalidDelta, DeltaNotSupported
      <3>2. invalid \in 0..MaxInvalid /\ MaxInvalid \in Nat
        BY <1>1
      <3> QED
        BY <3>1, <3>2
    <2>2. PICK token \in {FALSE, producer.token}, err \in {producer.err, "not supported"} :
            producer' = [producer EXCEPT !.step = "write", !.page = {}, !.reset = TRUE,
                                         !.token = token, !.taken = 0, !.err = err]
      <3>1. CASE InvalidDelta
        <4>1. producer' = [producer EXCEPT !.step = "write", !.page = {}, !.reset = TRUE,
                                           !.token = FALSE, !.taken = 0, !.err = producer.err]
          BY <1>1, <3>1 DEF InvalidDelta, Reset, Producers
        <4> QED
          BY <4>1
      <3>2. CASE DeltaNotSupported
        <4>1. producer' = [producer EXCEPT !.step = "write", !.page = {}, !.reset = TRUE,
                                           !.token = producer.token, !.taken = 0,
                                           !.err = "not supported"]
          BY <1>1, <3>2 DEF DeltaNotSupported, Reset, Producers
        <4> QED
          BY <4>1
      <3> QED
        BY <1>3, <3>1, <3>2
    <2>3. /\ producer' \in Producers /\ producer'.step = "write"
          /\ producer'.taken = 0 /\ producer'.page = {}
      BY <1>1, <2>2 DEF Producers
    <2>7. producer'.reset = TRUE /\ producer'.url = FALSE
      BY <1>1, <2>1, <2>2 DEF Producers
    <2>4. PICK pages \in Pages : PagesOf(producer)' = pages
      BY <2>1 DEF PagerIInv, PagerTypes, PagesOf, inputs
    <2>5. Progress(producer, PagesOf(producer))'
      BY <2>3, <2>4, <2>7, ResetProgress
    <2> QED
      BY <2>1, <2>3, <2>5, <2>6, <2>7, ProducerAlone
  <1>4. ASSUME NEW err \in {"none", "error"}, StopWriting(err) \/ (GetPageError /\ err = "error")
        PROVE  PagerIInv'
    <2>1. /\ producer.step # "closed" /\ ~producer.url
          /\ producer' = [producer EXCEPT !.step = "closed", !.err = err]
          /\ err = "error" \/ cancelled
          /\ UNCHANGED <<inputs, consumer, cancelled, stopped, invalid>>
      BY <1>1, <1>4 DEF StopWriting, GetPageError, MayStop, Closed, Progress
    <2>2. /\ producer' \in Producers /\ producer'.step = "closed" /\ producer'.err = err
          /\ producer'.token = producer.token /\ producer'.taken = producer.taken
          /\ ~producer'.url
      BY <1>1, <2>1 DEF Producers
    <2>4. PagesOf(producer)' = PagesOf(producer)
      BY <2>1, <2>2 DEF PagesOf, inputs
    <2>3. Progress(producer, PagesOf(producer))'
      BY <1>1, <2>1, <2>2, <2>4 DEF Progress
    <2> QED
      BY <1>1, <2>1, <2>2, <2>3, ProducerAlone
  <1> QED
    BY <1>2, <1>3, <1>4 DEF ProducerStep

(* The goroutine after the consumer has taken its page.                    *)
LEMMA WrittenFacts ==
  ASSUME PagerTypes, Progress(producer, PagesOf(producer)), producer.step = "write"
  PROVE  /\ Written(producer) \in Producers
         /\ Written(producer).token = producer.token
         /\ Written(producer).step # "write"
         /\ producer.reset => Written(producer).taken = 0
         /\ ~producer.reset => Written(producer).taken = producer.taken + 1
         /\ Written(producer).err = producer.err
         /\ Written(producer).step = "closed" /\ producer.err = "none" =>
              Written(producer).taken = Len(PagesOf(producer))
         /\ Progress(Written(producer), PagesOf(producer))
  <1> DEFINE n == Len(PagesOf(producer))
  <1>1. /\ producer \in Producers /\ PagesOf(producer) \in Pages /\ n \in Nat /\ n > 0
    BY PagesOfType, PagesOfSome DEF PagerTypes
  <1>2. CASE producer.err # "none"
    <2>1. producer.reset /\ producer.taken = 0 /\ ~producer.url
      BY <1>2 DEF Progress
    <2>2. Written(producer) = [producer EXCEPT !.step = "closed", !.err = producer.err]
      BY <1>2 DEF Written, Closed
    <2> QED
      BY <1>1, <1>2, <2>1, <2>2 DEF Producers, Progress
  <1>3. CASE producer.err = "none" /\ producer.reset
    <2>1. producer.taken = 0 /\ ~producer.url
      BY <1>3 DEF Progress
    <2>2. Written(producer) = [producer EXCEPT !.step = "get"]
      BY <1>3 DEF Written
    <2> QED
      BY <1>1, <1>3, <2>1, <2>2 DEF Producers, Progress
  <1>4. CASE producer.err = "none" /\ ~producer.reset
    <2>1. producer.taken \in Nat /\ producer.taken < n
      BY <1>1, <1>4 DEF Progress, Producers
    <2>2. CASE producer.taken + 1 = n
      <3>1. Written(producer) =
              [producer EXCEPT !.step = "closed", !.taken = producer.taken + 1,
                               !.url = producer.kind = "delta"]
        BY <1>4, <2>2 DEF Written
      <3>4. (producer.kind = "delta") \in BOOLEAN /\ producer.taken + 1 \in Nat
        BY <2>1
      <3>2. /\ Written(producer) \in Producers
            /\ Written(producer).step = "closed" /\ Written(producer).taken = n
            /\ Written(producer).token = producer.token /\ Written(producer).err = "none"
        BY <1>1, <1>4, <2>2, <3>1, <3>4 DEF Producers
      <3>3. Progress(Written(producer), PagesOf(producer))
        BY <1>1, <3>2 DEF Progress
      <3> QED
        BY <1>1, <1>4, <2>2, <3>2, <3>3
    <2>3. CASE producer.taken + 1 # n
      <3>1. Written(producer) =
              [producer EXCEPT !.step = "get", !.taken = producer.taken + 1, !.url = FALSE]
        BY <1>4, <2>3 DEF Written
      <3>4. producer.taken + 1 \in Nat
        BY <2>1
      <3>2. /\ Written(producer) \in Producers
            /\ Written(producer).step = "get" /\ Written(producer).taken = producer.taken + 1
            /\ Written(producer).token = producer.token /\ Written(producer).err = "none"
            /\ ~Written(producer).url
        BY <1>1, <1>4, <3>1, <3>4 DEF Producers
      <3>3. Progress(Written(producer), PagesOf(producer))
        BY <1>1, <2>1, <2>3, <3>2 DEF Progress
      <3> QED
        BY <1>1, <1>4, <2>3, <3>2, <3>3
    <2> QED
      BY <2>2, <2>3
  <1> QED
    BY <1>2, <1>3, <1>4

(* The limit is on what was added, and the pages are finite.               *)
LEMMA WithinLimit ==
  ASSUME PagerTypes, NEW added \in SUBSET PageItems, NEW S, NEW page \in SUBSET Records,
         UpToLimit(added, S, page)
  PROVE  /\ added \cup S \subseteq PageItems
         /\ limit > 0 => Cardinality(added \cup S) <= limit
         /\ limit = 0 => S = There(page) /\ ~Full(added \cup S)
  <1>1. limit \in Nat
    BY DEF PagerTypes
  <1>2. added \cup S \subseteq PageItems
    BY PageTypes DEF UpToLimit
  <1>3. Cardinality(added \cup S) \in Nat
    BY <1>2, PagerAssumption, FS_Subset, FS_CardinalityType
  <1>4. limit > 0 => Cardinality(added \cup S) <= limit
    BY <1>1, <1>3 DEF UpToLimit, Full
  <1>5. limit = 0 => S = There(page) /\ ~Full(added \cup S)
    BY <1>1 DEF UpToLimit, Full
  <1> QED
    BY <1>2, <1>4, <1>5

LEMMA TakeIInv == ASSUME PagerIInv, NEW S, Take(S) PROVE PagerIInv'
  <1> DEFINE pages == PagesOf(producer)
             added == SinceReset(consumer.added)
             removed == SinceReset(consumer.removed)
             page == producer.page
  <1>1. /\ producer.step = "write" /\ consumer.step = "next" /\ UpToLimit(added, S, page)
        /\ producer' = Written(producer)
        /\ cancelled' = Full(added \cup S)
        /\ UNCHANGED <<inputs, stopped, invalid>>
    BY DEF Take
  <1>2. consumer' = [consumer EXCEPT
          !.added = added \cup S,
          !.removed = removed \cup Gone(page),
          !.step = IF Full(added \cup S) THEN "results" ELSE "loop"]
    BY DEF Take
  <1>3. /\ producer \in Producers /\ consumer \in Consumers /\ page \in SUBSET Records
        /\ limit \in Nat
        /\ added \in SUBSET PageItems /\ removed \in SUBSET PageItems
        /\ pages \in Pages /\ producer.taken \in Nat
    BY PagesOfType DEF PagerIInv, PagerTypes, Producers, Consumers, SinceReset
  <1>4. /\ producer' \in Producers /\ producer'.token = producer.token
        /\ producer'.step # "write"
        /\ producer.reset => producer'.taken = 0
        /\ ~producer.reset => producer'.taken = producer.taken + 1
        /\ producer'.err = producer.err
        /\ producer'.step = "closed" /\ producer.err = "none" => producer'.taken = Len(pages)
        /\ Progress(producer', pages)
    BY <1>1, WrittenFacts DEF PagerIInv
  <1>5. PagesOf(producer)' = pages
    BY <1>1, <1>4 DEF PagesOf, inputs
  <1>6. /\ added \cup S \subseteq PageItems
        /\ limit > 0 => Cardinality(added \cup S) <= limit
        /\ limit = 0 => S = There(page) /\ ~Full(added \cup S)
    BY <1>1, <1>3, WithinLimit DEF PagerIInv
  <1>7. /\ consumer' \in Consumers /\ consumer'.step \in {"results", "loop"}
        /\ consumer'.added = added \cup S /\ consumer'.removed = removed \cup Gone(page)
    BY <1>2, <1>3, <1>6, PageTypes DEF Consumers
  <1>8. PagerTypes'
    <2>1. cancelled' \in BOOLEAN
      BY <1>1 DEF Full
    <2>2. limit' = limit /\ withToken' = withToken /\ fromStart' = fromStart
          /\ stopped' = stopped /\ invalid' = invalid
      BY <1>1 DEF inputs
    <2>3. (limit > 0 => Cardinality(consumer.added) <= limit)'
      BY <1>6, <1>7, <2>2
    <2> QED
      BY <1>4, <1>7, <2>1, <2>2, <2>3, Zenon DEF PagerIInv, PagerTypes
  <1>9. EndsWithLast'
    BY <1>1, <1>4, <1>5, <1>6 DEF EndsWithLast, inputs
  <1>10. Answered'
    BY <1>7 DEF Answered
  <1>11. Gathered'
    <2> SUFFICES ASSUME limit = 0, producer.err # "error"
                 PROVE  /\ consumer'.added = AllThere(pages, producer'.taken)
                        /\ consumer'.removed = AllGone(pages, producer'.taken)
      BY <1>1, <1>4, <1>5 DEF Gathered, inputs
    <2>1. CASE producer.reset
      <3>1. page = {} /\ added = {} /\ removed = {}
        BY <1>1, <2>1 DEF PagerIInv, Progress, SinceReset
      <3>2. There(page) = {} /\ Gone(page) = {}
        BY <3>1 DEF There, Gone
      <3> QED
        BY <1>4, <1>6, <1>7, <2>1, <3>1, <3>2, NoPages
    <2>2. CASE ~producer.reset
      <3>1. page = pages[producer.taken + 1]
        BY <1>1, <2>2 DEF PagerIInv, Progress
      <3>2. added = AllThere(pages, producer.taken) /\ removed = AllGone(pages, producer.taken)
        BY <1>1, <2>2 DEF PagerIInv, Gathered, SinceReset
      <3>3. /\ AllThere(pages, producer.taken + 1)
                  = AllThere(pages, producer.taken) \cup There(pages[producer.taken + 1])
            /\ AllGone(pages, producer.taken + 1)
                  = AllGone(pages, producer.taken) \cup Gone(pages[producer.taken + 1])
        BY <1>3, NextOfPages
      <3>4. producer'.taken = producer.taken + 1 /\ S = There(page)
        BY <1>4, <1>6, <2>2
      <3>5. /\ consumer'.added = added \cup There(page)
            /\ consumer'.removed = removed \cup Gone(page)
        BY <1>7, <3>4
      <3> HIDE DEF added, removed, page, pages
      <3> QED
        BY <3>1, <3>2, <3>3, <3>4, <3>5
    <2> QED
      BY <2>1, <2>2
  <1> QED
    BY <1>4, <1>5, <1>8, <1>9, <1>10, <1>11 DEF PagerIInv

(* A consumer that does not take anything.                                 *)
LEMMA ConsumerAlone ==
  ASSUME PagerIInv, NEW step \in {"next", "results", "error"},
         consumer' = [consumer EXCEPT !.step = step],
         UNCHANGED <<inputs, stopped, invalid>>, consumer.step # "error",
         cancelled' \in BOOLEAN,
         \/ producer' = producer /\ (cancelled' = cancelled \/ producer.step = "closed")
         \/ /\ step = "error" /\ producer' \in Producers
            /\ Progress(producer, PagesOf(producer))'
  PROVE  PagerIInv'
  <1>1. /\ consumer' \in Consumers /\ consumer'.step = step
        /\ consumer'.added = consumer.added /\ consumer'.removed = consumer.removed
    BY DEF PagerIInv, PagerTypes, Consumers
  <1>2. limit' = limit /\ withToken' = withToken /\ fromStart' = fromStart
        /\ stopped' = stopped /\ invalid' = invalid
    BY DEF inputs
  <1>3. PagerTypes'
    <2>1. producer' \in Producers
      BY DEF PagerIInv, PagerTypes
    <2>2. (limit > 0 => Cardinality(consumer.added) <= limit)'
      BY <1>1, <1>2 DEF PagerIInv, PagerTypes
    <2> QED
      BY <1>1, <1>2, <2>1, <2>2, Zenon DEF PagerIInv, PagerTypes
  <1>4. CASE producer' = producer /\ (cancelled' = cancelled \/ producer.step = "closed")
    <2>1. PagesOf(producer)' = PagesOf(producer)
      BY <1>2, <1>4 DEF PagesOf
    <2>2. EndsWithLast' /\ Gathered' /\ Answered'
      BY <1>1, <1>2, <1>4, <2>1 DEF PagerIInv, EndsWithLast, Gathered, Answered
    <2> QED
      BY <1>3, <1>4, <2>1, <2>2 DEF PagerIInv
  <1>5. CASE step = "error" /\ Progress(producer, PagesOf(producer))'
    <2>1. EndsWithLast' /\ Gathered' /\ Answered'
      BY <1>1, <1>5 DEF EndsWithLast, Gathered, Answered
    <2> QED
      BY <1>3, <1>5, <2>1 DEF PagerIInv
  <1> QED
    BY <1>4, <1>5

(* The end of the call, or a new start without delta queries.              *)
LEMMA ResultsIInv == ASSUME PagerIInv, Results PROVE PagerIInv'
  <1>1. /\ producer.step = "closed" /\ consumer.step = "results"
        /\ withToken' = withToken /\ fromStart' = fromStart /\ limit' = limit
        /\ stopped' = stopped /\ invalid' = invalid
    BY DEF Results, inputs
  <1>2. CASE producer.kind = "delta" /\ producer.err = "not supported"
    <2>1. /\ consumer' = Consumer /\ producer' = Producer("plain", FALSE)
          /\ cancelled' = FALSE
      BY <1>2 DEF Results
    <2>2. /\ producer' \in Producers /\ producer'.step = "get" /\ producer'.taken = 0
          /\ producer'.url = FALSE /\ producer'.err = "none"
      BY <2>1 DEF Producer, Producers
    <2>3. /\ consumer' \in Consumers /\ consumer'.step = "loop"
          /\ consumer'.added = {} /\ consumer'.removed = {}
      BY <2>1 DEF Consumer, Consumers
    <2>4. PagerTypes'
      <3>1. Cardinality(consumer'.added) = 0
        BY <2>3, FS_EmptySet
      <3>2. (limit > 0 => Cardinality(consumer.added) <= limit)'
        BY <1>1, <3>1 DEF PagerIInv, PagerTypes
      <3>3. cancelled' \in BOOLEAN
        BY <2>1
      <3> QED
        BY <1>1, <2>2, <2>3, <3>2, <3>3, Zenon DEF PagerIInv, PagerTypes
    <2>5. PICK pages \in Pages : PagesOf(producer)' = pages
      BY <1>1 DEF PagerIInv, PagerTypes, PagesOf
    <2>6. Progress(producer, PagesOf(producer))'
      <3>1. Len(pages) \in Nat /\ Len(pages) > 0
        BY PagesOfSome
      <3> QED
        BY <2>2, <2>5, <3>1 DEF Progress
    <2>7. EndsWithLast' /\ Answered'
      BY <2>1, <2>2, <2>3 DEF EndsWithLast, Answered
    <2>8. Gathered'
      BY <2>2, <2>3, NoPages DEF Gathered
    <2> QED
      BY <2>4, <2>6, <2>7, <2>8 DEF PagerIInv
  <1>3. CASE ~(producer.kind = "delta" /\ producer.err = "not supported")
    <2>1. PICK step \in {"ok", "error"} :
            /\ step = "ok" <=> producer.err = "none"
            /\ consumer' = [consumer EXCEPT !.step = step, !.url = producer.url,
                                            !.reset = ~producer.token]
            /\ producer' = producer /\ cancelled' = cancelled
      <3>1. consumer' = [consumer EXCEPT !.step = IF producer.err = "none" THEN "ok" ELSE "error",
                                         !.url = producer.url, !.reset = ~producer.token]
        BY <1>3 DEF Results
      <3> QED
        BY <1>3, <3>1 DEF Results
    <2>2. producer \in Producers /\ producer.url \in BOOLEAN /\ (~producer.token) \in BOOLEAN
      BY DEF PagerIInv, PagerTypes, Producers
    <2>3. /\ consumer' \in Consumers /\ consumer'.step = step
          /\ consumer'.added = consumer.added /\ consumer'.removed = consumer.removed
          /\ consumer'.url = producer.url /\ consumer'.reset = ~producer.token
      BY <2>1, <2>2 DEF PagerIInv, PagerTypes, Consumers
    <2>4. PagerTypes'
      <3>1. (limit > 0 => Cardinality(consumer.added) <= limit)'
        BY <1>1, <2>3 DEF PagerIInv, PagerTypes
      <3> QED
        BY <1>1, <2>1, <2>3, <3>1, Zenon DEF PagerIInv, PagerTypes
    <2>5. PagesOf(producer)' = PagesOf(producer)
      BY <1>1, <2>1 DEF PagesOf
    <2>6. EndsWithLast' /\ Gathered'
      BY <1>1, <2>1, <2>3, <2>5 DEF PagerIInv, EndsWithLast, Gathered
    <2>7. Answered'
      BY <1>1, <2>1, <2>3 DEF Answered
    <2> QED
      BY <2>1, <2>4, <2>5, <2>6, <2>7 DEF PagerIInv
  <1> QED
    BY <1>2, <1>3

LEMMA ConsumerIInv == ASSUME PagerIInv, ConsumerStep PROVE PagerIInv'
  <1>1. CASE NextOrStop
    <2>1. PICK step \in {"next", "error"} : consumer' = [consumer EXCEPT !.step = step]
      BY <1>1 DEF NextOrStop
    <2> QED
      BY <1>1, <2>1, ConsumerAlone DEF NextOrStop, PagerIInv, PagerTypes
  <1>2. CASE \E S \in SUBSET PageItems : Take(S)
    BY <1>2, TakeIInv
  <1>3. CASE TakeFails
    <2>1. /\ producer.step = "write" /\ producer' = Written(producer) /\ cancelled' = TRUE
          /\ consumer.step # "error" /\ consumer' = [consumer EXCEPT !.step = "error"]
          /\ UNCHANGED <<inputs, stopped, invalid>>
      BY <1>3 DEF TakeFails
    <2>2. /\ producer' \in Producers /\ producer'.token = producer.token
          /\ Progress(producer', PagesOf(producer))
      BY <2>1, WrittenFacts DEF PagerIInv
    <2>3. PagesOf(producer)' = PagesOf(producer)
      BY <2>1, <2>2 DEF PagesOf, inputs
    <2> QED
      BY <2>1, <2>2, <2>3, ConsumerAlone
  <1>4. CASE NoMorePages
    BY <1>4, ConsumerAlone DEF NoMorePages
  <1>5. CASE Results
    BY <1>5, ResultsIInv
  <1> QED
    BY <1>1, <1>2, <1>3, <1>4, <1>5 DEF ConsumerStep

LEMMA PagerStepIInv == PagerIInv /\ [PagerNext]_pagerVars => PagerIInv'
  <1> SUFFICES ASSUME PagerIInv, [PagerNext]_pagerVars PROVE PagerIInv'
    OBVIOUS
  <1>1. CASE Stop \/ UNCHANGED pagerVars
    <2>1. /\ UNCHANGED <<withToken, fromStart, limit, producer, consumer, cancelled, invalid>>
          /\ stopped' \in BOOLEAN
      BY <1>1 DEF Stop, pagerVars, inputs, PagerIInv, PagerTypes
    <2>2. PagerTypes'
      BY <2>1 DEF PagerIInv, PagerTypes
    <2>3. PagesOf(producer)' = PagesOf(producer)
      BY <2>1 DEF PagesOf
    <2>4. EndsWithLast' /\ Gathered' /\ Answered'
      BY <2>1, <2>3 DEF PagerIInv, EndsWithLast, Gathered, Answered
    <2> QED
      BY <2>1, <2>2, <2>3, <2>4 DEF PagerIInv
  <1> QED
    BY <1>1, ProducerIInv, ConsumerIInv DEF PagerNext

LEMMA PagerInvariance == PagerSpec => []PagerIInv
  BY PagerInitIInv, PagerStepIInv, PTL DEF PagerSpec

(* The types of the goroutine and of the call, and that no more items are  *)
(* gathered than the limit.                                                *)
THEOREM PagerTypeCorrect == PagerSpec => []PagerTypeOK
  <1>1. ASSUME PagerIInv PROVE PagerTypeOK
    <2>1. /\ producer.step \in {"get", "write", "closed"} /\ producer.taken \in Nat
          /\ consumer.step \in {"loop", "next", "results", "ok", "error"}
          /\ consumer.added \subseteq PageItems /\ consumer.removed \subseteq PageItems
      BY <1>1 DEF PagerIInv, PagerTypes, Producers, Consumers
    <2>2. Len(PagesOf(producer)) \in Nat
      BY <1>1, PagesOfType, PagesOfSome DEF PagerIInv, PagerTypes
    <2>3. /\ producer.taken \in 0..Len(PagesOf(producer))
          /\ producer.step = "get" => producer.taken < Len(PagesOf(producer))
      BY <1>1, <2>1, <2>2 DEF PagerIInv, Progress
    <2> QED
      BY <1>1, <2>1, <2>3, Zenon DEF PagerIInv, PagerTypes, PagerTypeOK
  <1> QED
    BY <1>1, PagerInvariance, PTL

(* A token is only returned with all the pages it stands for, for pages of *)
(* any content and any limit: getPages sets newDeltaLink after the last of *)
(* its pages was written, and batchWithMaxItemCount stops in between.      *)
THEOREM TokenWithAllPages == PagerSpec => []TokenOnlyWithAllPages
  <1>1. PagerIInv => TokenOnlyWithAllPages
    BY DEF PagerIInv, Answered, Progress, TokenOnlyWithAllPages
  <1> QED
    BY <1>1, PagerInvariance, PTL

(* Without a limit the answer is exactly what one enumeration reported,    *)
(* whatever resets, fallbacks to a plain one and errors came before.       *)
THEOREM AnswerOfOneEnumeration == PagerSpec => []AnswerIsOneEnumeration
  <1>1. ASSUME PagerIInv, consumer.step = "ok", limit = 0
        PROVE  LET pages == IF consumer.reset THEN fromStart ELSE withToken
               IN  /\ consumer.added = UNION {There(pages[i]) : i \in DOMAIN pages}
                   /\ consumer.removed = UNION {Gone(pages[i]) : i \in DOMAIN pages}
    <2> DEFINE pages == PagesOf(producer)
    <2>1. /\ producer.step = "closed" /\ producer.err = "none"
          /\ consumer.reset = ~producer.token
      BY <1>1 DEF PagerIInv, Answered
    <2>2. pages = IF consumer.reset THEN fromStart ELSE withToken
      BY <2>1 DEF PagesOf, PagerIInv, PagerTypes, Producers
    <2>3. /\ producer.taken = Len(pages)
          /\ consumer.added = AllThere(pages, Len(pages))
          /\ consumer.removed = AllGone(pages, Len(pages))
      BY <1>1, <2>1 DEF PagerIInv, EndsWithLast, Gathered
    <2>4. DOMAIN pages = 1..Len(pages)
      BY <1>1, PagesOfType DEF PagerIInv, PagerTypes, Pages
    <2> QED
      BY <2>2, <2>3, <2>4 DEF AllThere, AllGone
  <1>2. PagerIInv => AnswerIsOneEnumeration
    BY <1>1 DEF AnswerIsOneEnumeration
  <1> QED
    BY <1>2, PagerInvariance, PTL

-----------------------------------------------------------------------------
(* UrlCache.                                                               *)

DownloadSteps == {"wait", "check", "lock", "refresh", "read", "get", "again",
          "content", "not found", "error"}

DownloadStates ==
  [step : DownloadSteps, item : DriveItems \cup {"none"}, url : Nat, known : Nat, gone : BOOLEAN]

Refreshings ==
  [by : Downloads \cup {"none"}, todo : SUBSET DriveItems, gone : SUBSET DriveItems,
   reset : BOOLEAN]

CacheTypes ==
  /\ exists \subseteq DriveItems
  /\ refreshCount \in Nat
  /\ clock \in Nat
  /\ lastRefresh \in Int
  /\ refreshing \in Refreshings
  /\ seen \in [DriveItems -> 0..refreshCount]
  /\ idToProps \in [DriveItems -> [url : 0..refreshCount, deleted : BOOLEAN]]
  /\ download \in [Downloads -> DownloadStates]

(* Who refreshes the cache holds it.                                       *)
HoldersRefresh ==
  \A d \in Downloads : (refreshing.by = d) <=> (download[d].step = "refresh")

(* An entry is of the last refresh that had to report its item, or newer.  *)
(* In a refresh, those that are no longer awaited are of this one; all are *)
(* after a reset, while those of items that were gone may be older before. *)
EntriesAreCurrent ==
  /\ \A i \in DriveItems : idToProps[i] = Absent \/ idToProps[i].url >= seen[i]
  /\ refreshing.by # "none" =>
       \A i \in DriveItems :
         refreshing.reset \/ i \notin refreshing.todo \cup refreshing.gone =>
           idToProps[i] = Absent \/ idToProps[i].url = refreshCount

(* A download is of an item, and knows when that is not there.             *)
GoneIsSeen ==
  \A d \in Downloads :
    download[d].step \notin {"wait", "content", "error"} =>
      /\ download[d].item \in DriveItems
      /\ download[d].item \notin exists => download[d].gone

CacheIInv ==
  /\ CacheTypes
  /\ HoldersRefresh
  /\ EntriesAreCurrent
  /\ GoneIsSeen
  /\ ServedURLsAreCurrent
  /\ NotFoundOnlyIfGone

LEMMA CacheInitIInv == CacheInit => CacheIInv
  <1> SUFFICES ASSUME CacheInit PROVE CacheIInv
    OBVIOUS
  <1>1. CacheTypes
    <2>1. refreshCount = 0 /\ clock = 0 /\ exists = DriveItems
      BY DEF CacheInit
    <2>6. -refreshInterval - 1 \in Int
      <3>1. refreshInterval \in Nat
        BY CacheAssumption
      <3> QED
        BY <3>1
    <2>2. refreshing \in Refreshings
      BY DEF CacheInit, Refreshings, Free
    <2>3. /\ seen \in [DriveItems -> 0..refreshCount]
          /\ idToProps \in [DriveItems -> [url : 0..refreshCount, deleted : BOOLEAN]]
      <3>1. 0 \in 0..refreshCount
        BY <2>1
      <3>2. Absent \in [url : 0..refreshCount, deleted : BOOLEAN]
        BY <3>1 DEF Absent
      <3>3. seen = [i \in DriveItems |-> 0] /\ idToProps = [i \in DriveItems |-> Absent]
        BY DEF CacheInit
      <3> QED
        BY <3>1, <3>2, <3>3
    <2>4. download \in [Downloads -> DownloadStates]
      BY DEF CacheInit, Waiting, DownloadStates, DownloadSteps
    <2>5. lastRefresh = -refreshInterval - 1
      BY DEF CacheInit
    <2> QED
      BY <2>1, <2>2, <2>3, <2>4, <2>5, <2>6 DEF CacheTypes
  <1>2. HoldersRefresh /\ EntriesAreCurrent /\ GoneIsSeen
    BY CacheAssumption
       DEF CacheInit, HoldersRefresh, EntriesAreCurrent, GoneIsSeen, Absent, Free, Waiting
  <1>3. ServedURLsAreCurrent /\ NotFoundOnlyIfGone
    BY DEF CacheInit, ServedURLsAreCurrent, NotFoundOnlyIfGone, Waiting
  <1> QED
    BY <1>1, <1>2, <1>3 DEF CacheIInv

(* What a download does to itself when it goes on to another step.         *)
LEMMA GoToFacts ==
  ASSUME CacheTypes, NEW d \in Downloads, NEW step \in DownloadSteps, GoTo(d, step)
  PROVE  /\ download' \in [Downloads -> DownloadStates]
         /\ download'[d].step = step
         /\ download'[d].item = download[d].item /\ download'[d].url = download[d].url
         /\ download'[d].known = download[d].known /\ download'[d].gone = download[d].gone
         /\ \A e \in Downloads : e # d => download'[e] = download[e]
  BY DEF CacheTypes, GoTo, DownloadStates

(* A step of a download that leaves the cache and the lock alone.          *)
LEMMA GoToIInv ==
  ASSUME CacheIInv, NEW d \in Downloads, NEW step \in DownloadSteps \ {"wait", "refresh", "get", "not found"},
         download[d].step \notin {"wait", "refresh", "content", "error"}, GoTo(d, step),
         UNCHANGED <<exists, idToProps, lastRefresh, refreshing, refreshCount, seen, clock, toggles>>
  PROVE  CacheIInv'
  <1>1. /\ download' \in [Downloads -> DownloadStates]
        /\ download'[d].step = step /\ download'[d].item = download[d].item
        /\ download'[d].gone = download[d].gone
        /\ \A e \in Downloads : e # d => download'[e] = download[e]
    BY GoToFacts DEF CacheIInv
  <1>2. CacheTypes'
    BY <1>1 DEF CacheIInv, CacheTypes
  <1>3. HoldersRefresh'
    BY <1>1 DEF CacheIInv, HoldersRefresh
  <1>4. EntriesAreCurrent' /\ GoneIsSeen'
    BY <1>1 DEF CacheIInv, EntriesAreCurrent, GoneIsSeen
  <1>5. ServedURLsAreCurrent' /\ NotFoundOnlyIfGone'
    BY <1>1 DEF CacheIInv, ServedURLsAreCurrent, NotFoundOnlyIfGone
  <1> QED
    BY <1>2, <1>3, <1>4, <1>5 DEF CacheIInv

(* A download that ends and is forgotten.                                  *)
LEMMA EndsIInv ==
  ASSUME CacheIInv, NEW d \in Downloads, NEW step \in {"content", "error"},
         download[d].step \notin {"wait", "refresh"}, Ends(d, step),
         UNCHANGED <<exists, idToProps, lastRefresh, refreshing, refreshCount, seen, clock, toggles>>
  PROVE  CacheIInv'
  <1>1. /\ download' \in [Downloads -> DownloadStates]
        /\ download'[d].step = step
        /\ \A e \in Downloads : e # d => download'[e] = download[e]
    BY DEF CacheIInv, CacheTypes, Ends, Waiting, DownloadStates, DownloadSteps
  <1>2. CacheTypes'
    BY <1>1 DEF CacheIInv, CacheTypes
  <1>3. HoldersRefresh'
    BY <1>1 DEF CacheIInv, HoldersRefresh
  <1>4. EntriesAreCurrent' /\ GoneIsSeen'
    BY <1>1 DEF CacheIInv, EntriesAreCurrent, GoneIsSeen
  <1>5. ServedURLsAreCurrent' /\ NotFoundOnlyIfGone'
    BY <1>1 DEF CacheIInv, ServedURLsAreCurrent, NotFoundOnlyIfGone
  <1> QED
    BY <1>2, <1>3, <1>4, <1>5 DEF CacheIInv

LEMMA ToggleIInv == ASSUME CacheIInv, NEW i \in DriveItems, Toggle(i) PROVE CacheIInv'
  <1>1. /\ download' \in [Downloads -> DownloadStates]
        /\ \A d \in Downloads :
             /\ download'[d].step = download[d].step /\ download'[d].item = download[d].item
             /\ download'[d].url = download[d].url /\ download'[d].known = download[d].known
             /\ download[d].gone => download'[d].gone
             /\ download[d].item = i /\ i \in exists => download'[d].gone
    <2>1. download \in [Downloads -> DownloadStates]
      BY DEF CacheIInv, CacheTypes
    <2>2. ASSUME NEW d \in Downloads
          PROVE  download'[d] = [download[d] EXCEPT !.gone = @ \/ (download[d].item = i /\ i \in exists)]
      BY DEF Toggle
    <2>3. ASSUME NEW d \in Downloads
          PROVE  /\ download'[d] \in DownloadStates
                 /\ download'[d].step = download[d].step /\ download'[d].item = download[d].item
                 /\ download'[d].url = download[d].url /\ download'[d].known = download[d].known
                 /\ download[d].gone => download'[d].gone
                 /\ download[d].item = i /\ i \in exists => download'[d].gone
      BY <2>1, <2>2 DEF DownloadStates
    <2> QED BY <2>3 DEF Toggle
  <1>6. /\ refreshing' \in Refreshings
        /\ refreshing'.by = refreshing.by /\ refreshing'.reset = refreshing.reset
        /\ refreshing.todo \subseteq refreshing'.todo /\ refreshing.gone \subseteq refreshing'.gone
    <2>1. PICK more \in SUBSET {i} :
            refreshing' = IF refreshing = Free THEN Free
                          ELSE [refreshing EXCEPT !.todo = @ \cup more, !.gone = @ \cup {i}]
      BY DEF Toggle
    <2>2. refreshing \in Refreshings
      BY DEF CacheIInv, CacheTypes
    <2> QED
      BY <2>1, <2>2 DEF Refreshings
  <1>2. CacheTypes'
    BY <1>1, <1>6 DEF CacheIInv, CacheTypes, Toggle
  <1>3. HoldersRefresh' /\ EntriesAreCurrent'
    BY <1>1, <1>6 DEF CacheIInv, HoldersRefresh, EntriesAreCurrent, Toggle
  <1>4. GoneIsSeen'
    BY <1>1 DEF CacheIInv, GoneIsSeen, Toggle
  <1>5. ServedURLsAreCurrent' /\ NotFoundOnlyIfGone'
    BY <1>1 DEF CacheIInv, ServedURLsAreCurrent, NotFoundOnlyIfGone
  <1> QED
    BY <1>2, <1>3, <1>4, <1>5 DEF CacheIInv

LEMMA ExpiredIInv ==
  ASSUME CacheIInv, NEW d \in Downloads, NEW i \in DriveItems, Expired(d, i) PROVE CacheIInv'
  <1>1. /\ download' \in [Downloads -> DownloadStates]
        /\ download'[d].step = "check" /\ download'[d].item = i
        /\ i \notin exists => download'[d].gone
        /\ \A e \in Downloads : e # d => download'[e] = download[e]
    BY DEF CacheIInv, CacheTypes, Expired, Waiting, DownloadStates, DownloadSteps
  <1>2. CacheTypes'
    BY <1>1 DEF CacheIInv, CacheTypes, Expired
  <1>3. HoldersRefresh' /\ EntriesAreCurrent' /\ GoneIsSeen'
    BY <1>1 DEF CacheIInv, HoldersRefresh, EntriesAreCurrent, GoneIsSeen, Expired
  <1>4. ServedURLsAreCurrent' /\ NotFoundOnlyIfGone'
    BY <1>1 DEF CacheIInv, ServedURLsAreCurrent, NotFoundOnlyIfGone
  <1> QED
    BY <1>2, <1>3, <1>4 DEF CacheIInv

LEMMA LockCacheIInv == ASSUME CacheIInv, NEW d \in Downloads, LockCache(d) PROVE CacheIInv'
  <1>1. CASE NeedsRefresh
    <2>1. /\ GoTo(d, "refresh") /\ refreshing = Free
          /\ refreshing' = [by |-> d, todo |-> Reportable(prevDelta),
                            gone |-> DriveItems \ exists, reset |-> FALSE]
          /\ refreshCount' = refreshCount + 1
          /\ UNCHANGED <<exists, idToProps, lastRefresh, seen, clock, toggles>>
      BY <1>1 DEF LockCache
    <2>7. Reportable(prevDelta) \in SUBSET DriveItems /\ exists \subseteq Reportable(prevDelta)
      BY DEF CacheIInv, CacheTypes, Reportable
    <2>2. /\ download' \in [Downloads -> DownloadStates]
          /\ download'[d].step = "refresh"
          /\ download'[d].item = download[d].item /\ download'[d].gone = download[d].gone
          /\ \A e \in Downloads : e # d => download'[e] = download[e]
      BY <2>1, GoToFacts DEF CacheIInv, DownloadSteps
    <2>3. CacheTypes'
      <3>1. /\ 0..refreshCount \subseteq 0..refreshCount' /\ refreshCount' \in Nat
        BY <2>1 DEF CacheIInv, CacheTypes
      <3>2. refreshing' \in Refreshings
        BY <2>1, <2>7 DEF Refreshings
      <3> QED
        BY <2>1, <2>2, <3>1, <3>2 DEF CacheIInv, CacheTypes
    <2>4. HoldersRefresh'
      BY <2>1, <2>2, CacheAssumption DEF CacheIInv, HoldersRefresh, Free
    <2>5. EntriesAreCurrent' /\ GoneIsSeen'
      BY <2>1, <2>2, <2>7 DEF CacheIInv, EntriesAreCurrent, GoneIsSeen, LockCache
    <2>6. ServedURLsAreCurrent' /\ NotFoundOnlyIfGone'
      BY <2>2 DEF CacheIInv, ServedURLsAreCurrent, NotFoundOnlyIfGone
    <2> QED
      BY <2>3, <2>4, <2>5, <2>6 DEF CacheIInv
  <1>2. CASE ~NeedsRefresh
    BY <1>2, GoToIInv DEF LockCache, DownloadSteps
  <1> QED
    BY <1>1, <1>2

LEMMA RefreshResetIInv == ASSUME CacheIInv, NEW d \in Downloads, RefreshReset(d) PROVE CacheIInv'
  <1>1. /\ idToProps' \in [DriveItems -> [url : 0..refreshCount, deleted : BOOLEAN]]
        /\ \A i \in DriveItems : idToProps'[i] = Absent
    BY DEF CacheIInv, CacheTypes, RefreshReset, Cleared, Absent
  <1>2. refreshing' \in Refreshings /\ refreshing'.by = refreshing.by
    BY DEF CacheIInv, CacheTypes, Refreshings, RefreshReset, Reportable
  <1>3. UNCHANGED <<exists, lastRefresh, refreshCount, seen, download, clock, toggles>>
    BY DEF RefreshReset
  <1>4. CacheTypes'
    BY <1>1, <1>2, <1>3 DEF CacheIInv, CacheTypes
  <1>5. HoldersRefresh' /\ GoneIsSeen' /\ ServedURLsAreCurrent' /\ NotFoundOnlyIfGone'
    BY <1>2, <1>3 DEF CacheIInv, HoldersRefresh, GoneIsSeen, ServedURLsAreCurrent, NotFoundOnlyIfGone
  <1>6. EntriesAreCurrent'
    BY <1>1 DEF EntriesAreCurrent, Absent
  <1> QED
    BY <1>4, <1>5, <1>6 DEF CacheIInv

LEMMA RefreshPageIInv ==
  ASSUME CacheIInv, NEW d \in Downloads, NEW S \in SUBSET DriveItems, RefreshPage(d, S)
  PROVE  CacheIInv'
  <1>1. /\ idToProps' \in [DriveItems -> [url : 0..refreshCount, deleted : BOOLEAN]]
        /\ \A i \in DriveItems :
             IF i \in S THEN idToProps'[i].url = refreshCount ELSE idToProps'[i] = idToProps[i]
    BY DEF CacheIInv, CacheTypes, RefreshPage, Updated
  <1>2. /\ refreshing' \in Refreshings
        /\ refreshing'.by = refreshing.by /\ refreshing'.reset = refreshing.reset
        /\ refreshing'.todo = refreshing.todo \ S /\ refreshing'.gone = refreshing.gone
    BY DEF CacheIInv, CacheTypes, Refreshings, RefreshPage
  <1>3. UNCHANGED <<exists, lastRefresh, refreshCount, seen, download, clock, toggles>>
    BY DEF RefreshPage
  <1>4. CacheTypes'
    BY <1>1, <1>2, <1>3 DEF CacheIInv, CacheTypes
  <1>5. HoldersRefresh' /\ GoneIsSeen' /\ ServedURLsAreCurrent' /\ NotFoundOnlyIfGone'
    BY <1>2, <1>3 DEF CacheIInv, HoldersRefresh, GoneIsSeen, ServedURLsAreCurrent, NotFoundOnlyIfGone
  <1>6. EntriesAreCurrent'
    <2>1. \A i \in DriveItems : seen[i] \in Nat /\ seen[i] <= refreshCount
      BY DEF CacheIInv, CacheTypes
    <2> QED
      BY <1>1, <1>2, <1>3, <2>1 DEF CacheIInv, CacheTypes, EntriesAreCurrent
  <1> QED
    BY <1>4, <1>5, <1>6 DEF CacheIInv

LEMMA RefreshDoneIInv == ASSUME CacheIInv, NEW d \in Downloads, RefreshDone(d) PROVE CacheIInv'
  <1>1. /\ download' \in [Downloads -> DownloadStates]
        /\ download'[d].step = "read"
        /\ download'[d].item = download[d].item /\ download'[d].gone = download[d].gone
        /\ \A e \in Downloads : e # d => download'[e] = download[e]
    BY GoToFacts DEF CacheIInv, RefreshDone, DownloadSteps
  <1>2. /\ refreshing.by = d /\ d # "none" /\ refreshing.todo \subseteq refreshing.gone
        /\ lastRefresh' = clock /\ refreshing' = Free
        /\ UNCHANGED <<exists, idToProps, refreshCount, clock, toggles>>
    BY CacheAssumption DEF RefreshDone, CacheIInv, HoldersRefresh
  <1>7. /\ seen' \in [DriveItems -> 0..refreshCount]
        /\ \A i \in DriveItems :
             IF refreshing.reset \/ i \notin refreshing.gone
             THEN seen'[i] = refreshCount ELSE seen'[i] = seen[i]
    BY DEF CacheIInv, CacheTypes, RefreshDone
  <1>3. CacheTypes'
    BY <1>1, <1>2, <1>7 DEF CacheIInv, CacheTypes, Refreshings, Free
  <1>4. HoldersRefresh' /\ GoneIsSeen'
    BY <1>1, <1>2, CacheAssumption DEF CacheIInv, HoldersRefresh, GoneIsSeen, Free
  <1>5. EntriesAreCurrent'
    BY <1>2, <1>7 DEF CacheIInv, CacheTypes, EntriesAreCurrent, Free
  <1>6. ServedURLsAreCurrent' /\ NotFoundOnlyIfGone'
    BY <1>1 DEF CacheIInv, ServedURLsAreCurrent, NotFoundOnlyIfGone
  <1> QED
    BY <1>3, <1>4, <1>5, <1>6 DEF CacheIInv

LEMMA RefreshFailsIInv == ASSUME CacheIInv, NEW d \in Downloads, RefreshFails(d) PROVE CacheIInv'
  <1>1. /\ download' \in [Downloads -> DownloadStates]
        /\ download'[d].step = "again"
        /\ download'[d].item = download[d].item /\ download'[d].gone = download[d].gone
        /\ \A e \in Downloads : e # d => download'[e] = download[e]
    BY GoToFacts DEF CacheIInv, RefreshFails, DownloadSteps
  <1>2. /\ refreshing.by = d /\ refreshing' = Free
        /\ UNCHANGED <<exists, idToProps, lastRefresh, refreshCount, seen, clock, toggles>>
    BY DEF RefreshFails, Unlocked, CacheIInv, HoldersRefresh
  <1>3. CacheTypes'
    BY <1>1, <1>2 DEF CacheIInv, CacheTypes, Refreshings, Free
  <1>4. HoldersRefresh' /\ GoneIsSeen' /\ EntriesAreCurrent'
    BY <1>1, <1>2, CacheAssumption DEF CacheIInv, HoldersRefresh, GoneIsSeen, EntriesAreCurrent, Free
  <1>5. ServedURLsAreCurrent' /\ NotFoundOnlyIfGone'
    BY <1>1 DEF CacheIInv, ServedURLsAreCurrent, NotFoundOnlyIfGone
  <1> QED
    BY <1>3, <1>4, <1>5 DEF CacheIInv

LEMMA ReadCacheIInv == ASSUME CacheIInv, NEW d \in Downloads, ReadCache(d) PROVE CacheIInv'
  <1> DEFINE props == idToProps[download[d].item]
  <1>1. /\ download[d].step = "read" /\ refreshing = Free
        /\ download[d].item \in DriveItems
        /\ UNCHANGED <<exists, idToProps, lastRefresh, refreshing, refreshCount, seen, clock, toggles>>
    BY DEF ReadCache, CacheIInv, GoneIsSeen
  <1>2. /\ props \in [url : 0..refreshCount, deleted : BOOLEAN]
        /\ props = Absent \/ props.url >= seen[download[d].item]
        /\ seen[download[d].item] \in Nat /\ props.url \in Nat
    BY <1>1 DEF CacheIInv, CacheTypes, EntriesAreCurrent
  <1>8. CASE GoTo(d, "again")
    BY <1>1, <1>8, GoToIInv DEF DownloadSteps
  <1>9. CASE ~GoTo(d, "again")
    <2>3. /\ props # Absent
          /\ download' = [download EXCEPT ![d].step = "get", ![d].url = props.url,
                                          ![d].known = seen[download[d].item]]
      BY <1>9 DEF ReadCache, OnDeleted
    <2>4. /\ download' \in [Downloads -> DownloadStates]
          /\ download'[d].step = "get" /\ download'[d].url = props.url
          /\ download'[d].known = seen[download[d].item]
          /\ download'[d].item = download[d].item /\ download'[d].gone = download[d].gone
          /\ \A e \in Downloads : e # d => download'[e] = download[e]
      <3>1. download \in [Downloads -> DownloadStates]
        BY DEF CacheIInv, CacheTypes
      <3> HIDE DEF props
      <3> QED BY <1>2, <2>3, <3>1 DEF DownloadStates, DownloadSteps
    <2>5. CacheTypes'
      BY <1>1, <2>4 DEF CacheIInv, CacheTypes
    <2>6. HoldersRefresh' /\ EntriesAreCurrent' /\ GoneIsSeen'
      BY <1>1, <2>4 DEF CacheIInv, HoldersRefresh, EntriesAreCurrent, GoneIsSeen
    <2>7. ServedURLsAreCurrent' /\ NotFoundOnlyIfGone'
      BY <1>2, <2>3, <2>4 DEF CacheIInv, ServedURLsAreCurrent, NotFoundOnlyIfGone
    <2> QED
      BY <2>5, <2>6, <2>7 DEF CacheIInv
  <1> QED
    BY <1>8, <1>9

(* The only step that finds that there is no item.                         *)
LEMMA GetItemIInv ==
  ASSUME CacheIInv, NEW d \in Downloads, NEW ok \in BOOLEAN, GetItem(d, ok) PROVE CacheIInv'
  <1>1. \/ GoTo(d, "not found") /\ download[d].item \notin exists
        \/ \E step \in {"content", "error"} : Ends(d, step)
    BY DEF GetItem
  <1>2. /\ download[d].step = "again"
        /\ UNCHANGED <<exists, idToProps, lastRefresh, refreshing, refreshCount, seen, clock, toggles>>
    BY DEF GetItem
  <1>3. CASE \E step \in {"content", "error"} : Ends(d, step)
    BY <1>2, <1>3, EndsIInv
  <1>4. CASE GoTo(d, "not found") /\ download[d].item \notin exists
    <2>1. /\ download' \in [Downloads -> DownloadStates]
          /\ download'[d].step = "not found" /\ download'[d].item = download[d].item
          /\ download'[d].gone = download[d].gone
          /\ \A e \in Downloads : e # d => download'[e] = download[e]
      BY <1>4, GoToFacts DEF CacheIInv, DownloadSteps
    <2>2. download[d].gone
      BY <1>2, <1>4 DEF CacheIInv, GoneIsSeen
    <2>3. CacheTypes'
      BY <1>2, <2>1 DEF CacheIInv, CacheTypes
    <2>4. HoldersRefresh' /\ EntriesAreCurrent'
      BY <1>2, <2>1 DEF CacheIInv, HoldersRefresh, EntriesAreCurrent
    <2>5. GoneIsSeen'
      BY <1>2, <2>1 DEF CacheIInv, GoneIsSeen
    <2>6. ServedURLsAreCurrent' /\ NotFoundOnlyIfGone'
      BY <2>1, <2>2 DEF CacheIInv, ServedURLsAreCurrent, NotFoundOnlyIfGone
    <2> QED
      BY <2>3, <2>4, <2>5, <2>6 DEF CacheIInv
  <1> QED
    BY <1>1, <1>3, <1>4

LEMMA DownloadStepIInv == ASSUME CacheIInv, NEW d \in Downloads, DownloadStep(d) PROVE CacheIInv'
  <1>1. CASE CheckCache(d)
    <2>1. PICK step \in {"lock", "read"} : GoTo(d, step)
      BY <1>1 DEF CheckCache
    <2> QED
      BY <1>1, <2>1, GoToIInv DEF CheckCache, DownloadSteps
  <1>2. CASE LockCache(d)
    BY <1>2, LockCacheIInv
  <1>3. CASE RefreshReset(d)
    BY <1>3, RefreshResetIInv
  <1>9. CASE \E S \in SUBSET DriveItems : RefreshPage(d, S)
    BY <1>9, RefreshPageIInv
  <1>4. CASE RefreshDone(d)
    BY <1>4, RefreshDoneIInv
  <1>5. CASE RefreshFails(d)
    BY <1>5, RefreshFailsIInv
  <1>6. CASE ReadCache(d)
    BY <1>6, ReadCacheIInv
  <1>7. CASE \E ok \in BOOLEAN : GetByCachedURL(d, ok)
    <2>1. /\ download[d].step = "get"
          /\ UNCHANGED <<exists, idToProps, lastRefresh, refreshing, refreshCount, seen, clock, toggles>>
      BY <1>7 DEF GetByCachedURL
    <2>2. CASE GoTo(d, "again")
      BY <2>1, <2>2, GoToIInv DEF DownloadSteps
    <2>3. CASE Ends(d, "content")
      BY <2>1, <2>3, EndsIInv
    <2> QED
      BY <1>7, <2>2, <2>3 DEF GetByCachedURL
  <1>8. CASE \E ok \in BOOLEAN : GetItem(d, ok)
    BY <1>8, GetItemIInv
  <1> QED
    BY <1>1, <1>2, <1>3, <1>4, <1>5, <1>6, <1>7, <1>8, <1>9 DEF DownloadStep

LEMMA CacheStepIInv == CacheIInv /\ [CacheNext]_cacheVars => CacheIInv'
  <1> SUFFICES ASSUME CacheIInv, [CacheNext]_cacheVars PROVE CacheIInv'
    OBVIOUS
  <1>1. CASE Tick \/ UNCHANGED cacheVars
    <2>1. /\ clock' \in Nat
          /\ UNCHANGED <<exists, idToProps, lastRefresh, refreshing, refreshCount, seen, download>>
      BY <1>1 DEF Tick, cacheVars, CacheIInv, CacheTypes
    <2>2. CacheTypes'
      BY <2>1 DEF CacheIInv, CacheTypes
    <2>3. HoldersRefresh' /\ EntriesAreCurrent' /\ GoneIsSeen'
      BY <2>1 DEF CacheIInv, HoldersRefresh, EntriesAreCurrent, GoneIsSeen
    <2>4. ServedURLsAreCurrent' /\ NotFoundOnlyIfGone'
      BY <2>1 DEF CacheIInv, ServedURLsAreCurrent, NotFoundOnlyIfGone
    <2> QED
      BY <2>2, <2>3, <2>4 DEF CacheIInv
  <1> QED
    BY <1>1, ToggleIInv, ExpiredIInv, DownloadStepIInv DEF CacheNext

LEMMA CacheInvariance == CacheSpec => []CacheIInv
  BY CacheInitIInv, CacheStepIInv, PTL DEF CacheSpec

LEMMA IInvType == CacheIInv => CacheTypeOK
  <1> SUFFICES ASSUME CacheIInv PROVE CacheTypeOK
    OBVIOUS
  <1>1. refreshing.todo \subseteq DriveItems /\ refreshing.gone \subseteq DriveItems
    BY DEF CacheIInv, CacheTypes, Refreshings
  <1> QED
    BY <1>1 DEF CacheIInv, CacheTypes, Refreshings, HoldersRefresh, CacheTypeOK

(* The types of the cache and of its downloads, and that a download that   *)
(* refreshes the cache is the one that holds it.                           *)
THEOREM CacheTypeCorrect == CacheSpec => []CacheTypeOK
  BY CacheInvariance, IInvType, PTL

(* readCache serves no URL older than the last refresh that had to report  *)
(* the item, from any token: for any number of downloads and items, resets *)
(* and changes by the user in the middle, and any order of their steps.    *)
THEOREM ServesCurrentURLs == CacheSpec => []ServedURLsAreCurrent
  <1>1. CacheIInv => ServedURLsAreCurrent
    BY DEF CacheIInv
  <1> QED
    BY <1>1, CacheInvariance, PTL

(* downloadContent reports a file as deleted in flight only if it was gone *)
(* at some time since the download began.                                  *)
THEOREM ReportsGoneOnlyIfGone == CacheSpec => []NotFoundOnlyIfGone
  <1>1. CacheIInv => NotFoundOnlyIfGone
    BY DEF CacheIInv
  <1> QED
    BY <1>1, CacheInvariance, PTL

-----------------------------------------------------------------------------
(* KopiaConn.                                                              *)

Users == {"setup", "data", "model"}

Conns ==
  [step : Steps, init : BOOLEAN, existed : BOOLEAN, refCount : Nat, open : BOOLEAN,
   held : SUBSET Users, ask : AnyAsk, cached : Configs, last : Configs]

EpochSteps     == {"readEpoch", "writeEpoch"}
RetentionSteps == {"readRetention", "writeRetention", "flushRetention"}

(* The references are counted, and the handle is there if there are any.   *)
Counted(c) ==
  /\ c.step # "failed" => c.refCount = Cardinality(c.held)
  /\ c.open <=> c.held # {}

(* Who holds a reference when.                                             *)
Holds(c) ==
  /\ c.step \in {"none", "create", "open"} => c.held = {}
  /\ c.step = "policy" => c.held = {"setup"}
  /\ c.step = "ready" => "setup" \notin c.held
  /\ c.step \in EpochSteps \cup RetentionSteps =>
       c.held = {"setup"} \/ (c.held # {} /\ "setup" \notin c.held)

(* The epochs are set, or were lost in one of the two ways there are.      *)
Epochs == config.epoch \/ stale \/ undone

(* What a client has been through with the epochs, if it initializes.      *)
PastEpoch(c) ==
  \/ c.step \in {"wrap", "ready"} \cup RetentionSteps
  \/ c.step \in EpochSteps /\ "setup" \notin c.held

(* What a client has seen to, or has read, is so; but that the locking and *)
(* the epochs were changed since only counts if it may write them.         *)
WholeConfig(c) ==
  /\ c.step \in {"policy", "wrap", "ready"} \cup EpochSteps \cup RetentionSteps => made
  /\ c.cached.epoch \/ c.last.epoch => Epochs
  /\ c.init /\ c.step \in {"wrap", "ready"} \cup EpochSteps \cup RetentionSteps => policy
  /\ c.init /\ PastEpoch(c) => Epochs

(* A handle knows of its own changes of the locking and of maintenance, and*)
(* a session is flushed when the blobs are locked as was asked for.        *)
Knows(c) ==
  /\ stale \/ (c.cached.locked = c.last.locked /\ c.cached.extend = c.last.extend)
  /\ c.step = "flushRetention" =>
       /\ c.ask.extend # "keep"
       /\ c.ask.locked # "keep" => c.cached.locked = c.ask.locked

RepoTypes ==
  /\ made \in BOOLEAN /\ config \in Configs /\ policy \in BOOLEAN
  /\ asked \in [locked : SUBSET Lockings, extend : SUBSET Extensions]
  /\ stale \in BOOLEAN /\ undone \in BOOLEAN
  /\ starts \in 0..MaxStarts /\ changes \in 0..MaxChanges /\ faults \in 0..MaxFaults

(* Nothing is configured before there is a repository.                     *)
Unmade == ~made => config = NoConfig

ConnIInv ==
  /\ RepoTypes
  /\ conn \in [Procs -> Conns]
  /\ \A p \in Procs : Counted(conn[p]) /\ Holds(conn[p]) /\ WholeConfig(conn[p]) /\ Knows(conn[p])
  /\ Unmade
  /\ RetentionIsAsAsked

-----------------------------------------------------------------------------
LEMMA HeldFacts ==
  ASSUME NEW held \in SUBSET Users
  PROVE  /\ IsFiniteSet(held)
         /\ Cardinality(held) \in Nat
         /\ Cardinality(held) = 0 <=> held = {}
         /\ \A user \in Users \ held : Cardinality(held \cup {user}) = Cardinality(held) + 1
         /\ \A user \in held : Cardinality(held \ {user}) = Cardinality(held) - 1
  <1>1. IsFiniteSet(Users)
    <2>1. IsFiniteSet({} \cup {"setup"})
      BY FS_EmptySet, FS_AddElement
    <2>2. IsFiniteSet(({} \cup {"setup"}) \cup {"data"})
      BY <2>1, FS_AddElement
    <2>3. IsFiniteSet((({} \cup {"setup"}) \cup {"data"}) \cup {"model"})
      BY <2>2, FS_AddElement
    <2>4. Users = (({} \cup {"setup"}) \cup {"data"}) \cup {"model"}
      BY DEF Users
    <2> QED
      BY <2>3, <2>4
  <1>2. IsFiniteSet(held)
    BY <1>1, FS_Subset
  <1> QED
    BY <1>2, FS_CardinalityType, FS_EmptySet, FS_AddElement, FS_RemoveElement

LEMMA NoConnFacts ==
  /\ NoConfig \in Configs /\ ~NoConfig.epoch /\ NoConfig.extend = "no"
  /\ KeepIt \in AnyAsk
  /\ NoConn \in Conns
  /\ NoConn.step = "none" /\ NoConn.held = {} /\ NoConn.refCount = 0 /\ ~NoConn.open
  /\ NoConn.cached = NoConfig /\ NoConn.last = NoConfig
  <1>1. NoConfig \in Configs /\ ~NoConfig.epoch /\ NoConfig.extend = "no"
    BY DEF NoConfig, Configs, Lockings, Extensions
  <1>2. KeepIt \in AnyAsk
    BY DEF KeepIt, AnyAsk
  <1>3. NoConn \in Conns
    BY <1>1, <1>2 DEF NoConn, Conns, Steps, Configuring, Users
  <1> QED
    BY <1>1, <1>2, <1>3 DEF NoConn

(* A client that holds nothing yet, or no more, and has read nothing.      *)
LEMMA NothingHeld ==
  ASSUME NEW c, c.step \in {"none", "create", "open", "failed"}, c.held = {}, c.refCount = 0,
         ~c.open, c.cached = NoConfig, c.last = NoConfig
  PROVE  Counted(c) /\ Holds(c) /\ WholeConfig(c) /\ Knows(c)
  <1>1. Cardinality({}) = 0
    BY FS_EmptySet
  <1>2. Counted(c)
    BY <1>1 DEF Counted
  <1>3. Holds(c) /\ WholeConfig(c) /\ Knows(c)
    BY NoConnFacts DEF Holds, WholeConfig, Knows, PastEpoch, EpochSteps, RetentionSteps
  <1> QED
    BY <1>2, <1>3

LEMMA ConnInitIInv == ConnInit => ConnIInv
  <1> SUFFICES ASSUME ConnInit PROVE ConnIInv
    OBVIOUS
  <1>1. RepoTypes
    <2>1. starts \in 0..MaxStarts /\ changes \in 0..MaxChanges /\ faults \in 0..MaxFaults
      BY ConnAssumption DEF ConnInit
    <2>2. asked \in [locked : SUBSET Lockings, extend : SUBSET Extensions]
      BY DEF ConnInit, Lockings, Extensions
    <2>3. /\ made \in BOOLEAN /\ config \in Configs /\ policy \in BOOLEAN
          /\ stale \in BOOLEAN /\ undone \in BOOLEAN
      BY NoConnFacts DEF ConnInit
    <2> QED
      BY <2>1, <2>2, <2>3, Zenon DEF RepoTypes
  <1>2. Counted(NoConn) /\ Holds(NoConn) /\ WholeConfig(NoConn) /\ Knows(NoConn)
    BY NoConnFacts, NothingHeld
  <1>3. /\ conn \in [Procs -> Conns]
        /\ \A p \in Procs : conn[p] = NoConn
    BY NoConnFacts DEF ConnInit
  <1>4. Unmade /\ RetentionIsAsAsked
    BY DEF ConnInit, NoConfig, Unmade, RetentionIsAsAsked
  <1> QED
    BY <1>1, <1>2, <1>3, <1>4 DEF ConnIInv

(* What every step of p has to see to: the other clients can rely on what  *)
(* was in the repository to stay.                                          *)
LEMMA AnyStep ==
  ASSUME ConnIInv, NEW p \in Procs, RepoTypes', conn' \in [Procs -> Conns],
         \A q \in Procs : q # p => conn'[q] = conn[q],
         Counted(conn'[p]), Holds(conn'[p]), WholeConfig(conn[p])', Knows(conn[p])',
         made => made',
         policy => policy',
         stale => stale',
         Epochs => Epochs',
         Unmade',
         RetentionIsAsAsked'
  PROVE  ConnIInv'
  <1>1. ASSUME NEW q \in Procs, q # p
        PROVE  Counted(conn[q])' /\ Holds(conn[q])' /\ WholeConfig(conn[q])' /\ Knows(conn[q])'
    <2>1. /\ conn'[q] = conn[q]
          /\ Counted(conn[q]) /\ Holds(conn[q]) /\ WholeConfig(conn[q]) /\ Knows(conn[q])
      BY <1>1 DEF ConnIInv
    <2>2. Counted(conn[q])' /\ Holds(conn[q])'
      BY <2>1 DEF Counted, Holds
    <2>3. WholeConfig(conn[q])'
      BY <2>1 DEF WholeConfig, PastEpoch
    <2>4. Knows(conn[q])'
      BY <2>1 DEF Knows
    <2> QED
      BY <2>2, <2>3, <2>4
  <1>2. Counted(conn[p])' /\ Holds(conn[p])'
    BY DEF Counted, Holds
  <1>3. \A q \in Procs : (Counted(conn[q]) /\ Holds(conn[q]) /\ WholeConfig(conn[q]) /\ Knows(conn[q]))'
    BY <1>1, <1>2
  <1> QED
    BY <1>3 DEF ConnIInv

(* And one that leaves the repository alone.                               *)
LEMMA OwnStep ==
  ASSUME ConnIInv, NEW p \in Procs, conn' \in [Procs -> Conns],
         \A q \in Procs : q # p => conn'[q] = conn[q],
         Counted(conn'[p]), Holds(conn'[p]), WholeConfig(conn[p])', Knows(conn[p])',
         UNCHANGED <<made, config, policy, history>>,
         starts' \in 0..MaxStarts, changes' \in 0..MaxChanges, faults' \in 0..MaxFaults
  PROVE  ConnIInv'
  <1>1. UNCHANGED <<made, config, policy, asked, stale, undone>>
    BY DEF history
  <1>2. RepoTypes'
    BY <1>1 DEF ConnIInv, RepoTypes
  <1>3. RetentionIsAsAsked' /\ Unmade' /\ (Epochs => Epochs')
    BY <1>1 DEF ConnIInv, RetentionIsAsAsked, Unmade, Epochs
  <1> QED
    BY <1>1, <1>2, <1>3, AnyStep

(* The steps at which a client has no reference yet, or none any more.     *)
LEMMA ConnForgetIInv ==
  ASSUME ConnIInv, NEW p \in Procs, NEW c \in Conns, conn' = [conn EXCEPT ![p] = c],
         c.step \in {"none", "create", "open"}, c.held = {}, c.refCount = 0,
         ~c.open, c.cached = NoConfig, c.last = NoConfig,
         UNCHANGED <<made, config, policy, history>>,
         starts' \in 0..MaxStarts, changes' \in 0..MaxChanges, faults' \in 0..MaxFaults
  PROVE  ConnIInv'
  <1>1. /\ conn' \in [Procs -> Conns] /\ conn'[p] = c
        /\ \A q \in Procs : q # p => conn'[q] = conn[q]
    BY DEF ConnIInv
  <1>2. Counted(c) /\ Holds(c)
    BY NothingHeld
  <1>3. WholeConfig(conn[p])' /\ Knows(conn[p])'
    BY <1>1, NoConnFacts DEF WholeConfig, Knows, PastEpoch, EpochSteps, RetentionSteps
  <1> QED
    BY <1>1, <1>2, <1>3, OwnStep

LEMMA ConnFacts ==
  ASSUME ConnIInv, NEW p \in Procs
  PROVE  /\ conn[p] \in Conns /\ conn \in [Procs -> Conns]
         /\ Counted(conn[p]) /\ Holds(conn[p]) /\ WholeConfig(conn[p]) /\ Knows(conn[p])
         /\ RepoTypes /\ config \in Configs
         /\ MaxStarts \in Nat /\ MaxChanges \in Nat /\ MaxFaults \in Nat
         /\ starts \in 0..MaxStarts /\ changes \in 0..MaxChanges /\ faults \in 0..MaxFaults
  BY ConnAssumption DEF ConnIInv, RepoTypes

(* p goes on to another step with the references it has.                   *)
Kept(p) ==
  /\ conn' \in [Procs -> Conns]
  /\ conn'[p].held = conn[p].held /\ conn'[p].refCount = conn[p].refCount
  /\ conn'[p].open = conn[p].open /\ conn'[p].init = conn[p].init
  /\ \A q \in Procs : q # p => conn'[q] = conn[q]

LEMMA KeptCounted ==
  ASSUME ConnIInv, NEW p \in Procs, Kept(p), conn[p].step # "failed"
  PROVE  Counted(conn'[p])
  BY ConnFacts DEF Kept, Counted

(* With another step only, or the configuration that is read then too.     *)
LEMMA StepFacts ==
  ASSUME ConnIInv, NEW p \in Procs, NEW step \in Steps, Step(p, step)
  PROVE  /\ Kept(p) /\ conn'[p].step = step
         /\ conn'[p].cached = conn[p].cached /\ conn'[p].last = conn[p].last
         /\ conn'[p].ask = conn[p].ask
  BY ConnFacts DEF Step, Kept, Conns

LEMMA ReadFacts ==
  ASSUME ConnIInv, NEW p \in Procs, NEW loads \in BOOLEAN, NEW step \in Steps,
         LET c == IF loads THEN Loaded(conn[p]) ELSE conn[p]
         IN  conn' = [conn EXCEPT ![p] = [c EXCEPT !.step = step]]
  PROVE  /\ Kept(p) /\ conn'[p].step = step /\ conn'[p].ask = conn[p].ask
         /\ \/ conn'[p].cached = conn[p].cached /\ conn'[p].last = conn[p].last
            \/ conn'[p].cached = config /\ conn'[p].last = config
  <1>1. CASE loads
    <2>1. conn' = [conn EXCEPT ![p] = [[conn[p] EXCEPT !.cached = config, !.last = config]
                                         EXCEPT !.step = step]]
      BY <1>1 DEF Loaded
    <2>2. conn[p] \in Conns /\ conn \in [Procs -> Conns] /\ config \in Configs
      BY ConnFacts
    <2> DEFINE c == [[conn[p] EXCEPT !.cached = config, !.last = config] EXCEPT !.step = step]
    <2>3. /\ c \in Conns /\ c.step = step /\ c.cached = config /\ c.last = config
          /\ c.ask = conn[p].ask /\ c.held = conn[p].held /\ c.refCount = conn[p].refCount
          /\ c.open = conn[p].open /\ c.init = conn[p].init
      BY <2>2 DEF Conns
    <2>4. conn' = [conn EXCEPT ![p] = c]
      BY <2>1
    <2> HIDE DEF c
    <2> QED
      BY <2>2, <2>3, <2>4 DEF Kept
  <1>2. CASE ~loads
    <2>1. Step(p, step)
      BY <1>2 DEF Step
    <2> QED
      BY <2>1, StepFacts
  <1> QED
    BY <1>1, <1>2

(* What a client that goes on in this way has read, or knows.              *)
LEMMA ReadIInv ==
  ASSUME ConnIInv, NEW p \in Procs, Kept(p), conn[p].step # "failed", Holds(conn'[p]),
         conn'[p].step # "flushRetention",
         \/ conn'[p].cached = conn[p].cached /\ conn'[p].last = conn[p].last
         \/ conn'[p].cached = config /\ conn'[p].last = config,
         conn'[p].step \in {"policy", "wrap", "ready"} \cup EpochSteps \cup RetentionSteps => made,
         conn[p].init /\ conn'[p].step \in {"wrap", "ready"} \cup EpochSteps \cup RetentionSteps =>
           policy,
         conn[p].init /\ PastEpoch(conn'[p]) => Epochs,
         UNCHANGED <<made, config, policy, history>>,
         starts' \in 0..MaxStarts, changes' \in 0..MaxChanges, faults' \in 0..MaxFaults
  PROVE  ConnIInv'
  <1>1. Counted(conn'[p])
    BY KeptCounted
  <1>2. UNCHANGED <<made, config, policy, asked, stale, undone>> /\ (Epochs' <=> Epochs)
    BY DEF history, Epochs
  <1>3. WholeConfig(conn[p])'
    <2>1. conn'[p].cached.epoch \/ conn'[p].last.epoch => Epochs
      <3>1. WholeConfig(conn[p])
        BY ConnFacts
      <3> QED
        BY <3>1 DEF WholeConfig, Epochs
    <2>2. conn'[p].init = conn[p].init
      BY DEF Kept
    <2>5. PastEpoch(conn[p])' <=> PastEpoch(conn'[p])
      BY DEF PastEpoch, EpochSteps, RetentionSteps
    <2>3. /\ conn'[p].cached.epoch \/ conn'[p].last.epoch => Epochs'
          /\ conn'[p].init /\ PastEpoch(conn[p])' => Epochs'
      BY <1>2, <2>1, <2>2, <2>5, Zenon
    <2>4. /\ conn'[p].step \in {"policy", "wrap", "ready"} \cup EpochSteps \cup RetentionSteps =>
               made'
          /\ conn'[p].init
             /\ conn'[p].step \in {"wrap", "ready"} \cup EpochSteps \cup RetentionSteps => policy'
      BY <1>2, <2>2
    <2> QED
      BY <2>3, <2>4 DEF WholeConfig, EpochSteps, RetentionSteps
  <1>4. Knows(conn[p])'
    BY <1>2, ConnFacts DEF Knows
  <1> QED
    BY <1>1, <1>3, <1>4, OwnStep DEF Kept

LEMMA SetupIInv == ASSUME ConnIInv, NEW p \in Procs, Setup(p) PROVE ConnIInv'
  <1> USE DEF Steps, Configuring, EpochSteps, RetentionSteps
  <1>1. /\ conn[p] \in Conns /\ conn \in [Procs -> Conns]
        /\ Counted(conn[p]) /\ Holds(conn[p]) /\ WholeConfig(conn[p]) /\ Knows(conn[p])
        /\ RepoTypes /\ config \in Configs
        /\ MaxStarts \in Nat /\ MaxFaults \in Nat
        /\ starts \in 0..MaxStarts /\ changes \in 0..MaxChanges /\ faults \in 0..MaxFaults
    BY ConnFacts
  <1>2. ASSUME NEW init \in BOOLEAN, NEW ask \in Asks \cup {KeepIt}, Start(p, init, ask) PROVE ConnIInv'
    <2>1. PICK c \in Conns :
            /\ c.step \in {"create", "open"} /\ c.held = {} /\ c.refCount = 0 /\ ~c.open
            /\ c.cached = NoConfig /\ c.last = NoConfig
            /\ conn' = [conn EXCEPT ![p] = c]
      BY <1>2, NoConnFacts, ConnAssumption DEF Start, Conns, AnyAsk, KeepIt
    <2>2. starts' \in 0..MaxStarts
      BY <1>1, <1>2 DEF Start
    <2> QED
      BY <1>1, <1>2, <2>1, <2>2, ConnForgetIInv DEF Start
  <1>3. CASE CreateRepo(p)
    <2>1. /\ conn[p].step = "create" /\ made'
          /\ conn' = [conn EXCEPT ![p] = [conn[p] EXCEPT !.step = "open", !.existed = made]]
          /\ UNCHANGED <<policy, stale, undone, starts, changes, faults>>
      BY <1>3 DEF CreateRepo
    <2>2. /\ Kept(p) /\ conn'[p].step = "open"
          /\ conn'[p].cached = conn[p].cached /\ conn'[p].last = conn[p].last
      <3>1. made \in BOOLEAN
        BY <1>1 DEF RepoTypes
      <3> QED
        BY <1>1, <2>1, <3>1 DEF Conns, Kept
    <2>3. /\ config' \in Configs /\ asked' \in [locked : SUBSET Lockings, extend : SUBSET Extensions]
          /\ Epochs => Epochs'
          /\ RetentionIsAsAsked'
      <3>1. CASE made
        <4>1. config' = config /\ asked' = asked
          BY <1>3, <3>1 DEF CreateRepo
        <4> QED
          BY <1>1, <2>1, <4>1 DEF RepoTypes, Epochs, ConnIInv, RetentionIsAsAsked
      <3>2. CASE ~made
        <4>1. /\ config' = [NoConfig EXCEPT !.locked = Wanted(NoConfig.locked, conn[p].ask.locked)]
              /\ asked' = [asked EXCEPT !.locked = {config'.locked}]
              /\ config = NoConfig
          BY <1>3, <3>2 DEF CreateRepo, ConnIInv, Unmade
        <4>2. Wanted(NoConfig.locked, conn[p].ask.locked) \in Lockings
          BY <1>1, NoConnFacts DEF Wanted, Conns, AnyAsk, Configs
        <4>3. /\ config' \in Configs /\ config'.epoch = config.epoch
              /\ config'.extend = config.extend /\ config'.locked \in Lockings
          BY <4>1, <4>2, NoConnFacts DEF Configs
        <4>4. /\ asked' \in [locked : SUBSET Lockings, extend : SUBSET Extensions]
              /\ asked'.locked = {config'.locked} /\ asked'.extend = asked.extend
          BY <1>1, <4>1, <4>3 DEF RepoTypes
        <4>5. Epochs => Epochs'
          BY <2>1, <4>3 DEF Epochs
        <4>6. RetentionIsAsAsked'
          BY <2>1, <4>3, <4>4 DEF ConnIInv, RetentionIsAsAsked
        <4> QED
          BY <4>3, <4>4, <4>5, <4>6
      <3> QED
        BY <3>1, <3>2
    <2>4. RepoTypes'
      BY <1>1, <2>1, <2>3 DEF RepoTypes
    <2>5. Counted(conn'[p]) /\ Holds(conn'[p])
      BY <1>1, <2>1, <2>2, KeptCounted DEF Holds, Kept
    <2>6. WholeConfig(conn[p])' /\ Knows(conn[p])'
      BY <1>1, <2>1, <2>2, <2>3 DEF WholeConfig, PastEpoch, Knows
    <2>7. Unmade'
      BY <2>1 DEF Unmade
    <2> QED
      BY <2>1, <2>2, <2>3, <2>4, <2>5, <2>6, <2>7, AnyStep DEF Kept
  <1>4. CASE OpenRepo(p)
    <2>7. /\ conn[p].step = "open" /\ made
          /\ UNCHANGED <<made, config, policy, history, starts, changes, faults>>
      BY <1>4 DEF OpenRepo
    <2>1. conn[p].held = {} /\ conn[p].refCount = 0
      <3>1. conn[p].held = {} /\ conn[p].refCount = Cardinality(conn[p].held)
        BY <1>1, <2>7 DEF Holds, Counted
      <3>2. conn[p].refCount = 0
        BY <3>1, FS_EmptySet
      <3> QED
        BY <3>1, <3>2
    <2>2. PICK next \in {"policy", "wrap"} :
            /\ conn[p].init => next = "policy"
            /\ conn' = [conn EXCEPT ![p] = [Loaded(conn[p]) EXCEPT !.step = next,
                          !.refCount = @ + 1, !.open = TRUE, !.held = {"setup"}]]
      BY <1>4 DEF OpenRepo, AfterOpen
    <2>3. Cardinality({"setup"}) = 1
      BY FS_Singleton
    <2>8. PICK d \in Conns : d = Loaded(conn[p])
      BY <1>1 DEF Loaded, Conns
    <2>9. d.refCount = 0 /\ d.init = conn[p].init /\ d.cached = config /\ d.last = config
      BY <1>1, <2>1, <2>8 DEF Loaded, Conns
    <2>4. PICK c \in Conns :
            /\ conn' = [conn EXCEPT ![p] = c]
            /\ c.step = next /\ c.held = {"setup"} /\ c.refCount = 1 /\ c.open
            /\ c.init = conn[p].init /\ c.cached = config /\ c.last = config
      <3> DEFINE c == [d EXCEPT !.step = next, !.refCount = 1, !.open = TRUE, !.held = {"setup"}]
      <3>1. /\ c \in Conns
            /\ c.step = next /\ c.held = {"setup"} /\ c.refCount = 1 /\ c.open
            /\ c.init = d.init /\ c.cached = d.cached /\ c.last = d.last
        BY DEF Conns, Users
      <3>2. conn' = [conn EXCEPT ![p] = c]
        <4>1. d.refCount + 1 = 1
          BY <2>9
        <4>2. conn' = [conn EXCEPT ![p] = [d EXCEPT !.step = next, !.refCount = d.refCount + 1,
                                                    !.open = TRUE, !.held = {"setup"}]]
          BY <2>2, <2>8
        <4> QED
          BY <4>1, <4>2
      <3> HIDE DEF c
      <3> QED
        BY <2>9, <3>1, <3>2
    <2>10. /\ conn' \in [Procs -> Conns] /\ conn'[p] = c
           /\ \A q \in Procs : q # p => conn'[q] = conn[q]
      BY <1>1, <2>4
    <2>5. Counted(conn'[p]) /\ Holds(conn'[p])
      BY <2>2, <2>3, <2>4, <2>10 DEF Counted, Holds
    <2>6. WholeConfig(conn[p])' /\ Knows(conn[p])'
      BY <2>2, <2>4, <2>7, <2>10 DEF WholeConfig, PastEpoch, Knows, Epochs, history
    <2> QED
      BY <1>1, <2>5, <2>6, <2>7, <2>10, OwnStep
  <1>5. ASSUME NEW counted \in BOOLEAN, OpenFails(p, counted) PROVE ConnIInv'
    <2>1. /\ conn[p].step = "open"
          /\ UNCHANGED <<made, config, policy, history, starts, changes>>
      BY <1>5 DEF OpenFails
    <2> DEFINE count == IF counted THEN conn[p].refCount + 1 ELSE conn[p].refCount
    <2>6. /\ count \in Nat
          /\ conn' = [conn EXCEPT ![p] = [conn[p] EXCEPT !.step = "failed", !.refCount = count]]
      <3>1. count \in Nat
        <4>1. conn[p].refCount \in Nat
          BY <1>1 DEF Conns
        <4> QED
          BY <4>1
      <3>2. conn' = [conn EXCEPT ![p] = [conn[p] EXCEPT !.step = "failed",
                !.refCount = IF counted THEN conn[p].refCount + 1 ELSE conn[p].refCount]]
        BY <1>5 DEF OpenFails
      <3> QED
        BY <3>1, <3>2
    <2> HIDE DEF count
    <2>2. faults' \in 0..MaxFaults
      BY <1>1, <1>5 DEF OpenFails
    <2>3. /\ conn' \in [Procs -> Conns]
          /\ conn'[p].step = "failed" /\ conn'[p].held = conn[p].held
          /\ conn'[p].open = conn[p].open
          /\ conn'[p].cached = conn[p].cached /\ conn'[p].last = conn[p].last
          /\ \A q \in Procs : q # p => conn'[q] = conn[q]
      BY <1>1, <2>6 DEF Conns
    <2>4. Counted(conn'[p]) /\ Holds(conn'[p])
      BY <1>1, <2>1, <2>3 DEF Counted, Holds
    <2>5. WholeConfig(conn[p])' /\ Knows(conn[p])'
      BY <1>1, <2>1, <2>3 DEF WholeConfig, PastEpoch, Knows, Epochs, history
    <2> QED
      BY <1>1, <2>1, <2>2, <2>3, <2>4, <2>5, OwnStep
  <1>6. CASE SetDefaultConfigValues(p)
    <2>1. /\ conn[p].step = "policy" /\ policy' = TRUE /\ Step(p, "readEpoch")
          /\ UNCHANGED <<made, config, asked, stale, undone, starts, changes, faults>>
      BY <1>6 DEF SetDefaultConfigValues, history
    <2>2. /\ Kept(p) /\ conn'[p].step = "readEpoch"
          /\ conn'[p].cached = conn[p].cached /\ conn'[p].last = conn[p].last
      BY <2>1, StepFacts
    <2>3. RepoTypes'
      BY <1>1, <2>1 DEF RepoTypes
    <2>4. Counted(conn'[p]) /\ Holds(conn'[p])
      BY <1>1, <2>1, <2>2, KeptCounted DEF Holds, Kept
    <2>5. WholeConfig(conn[p])' /\ Knows(conn[p])'
      BY <1>1, <2>1, <2>2 DEF WholeConfig, PastEpoch, Knows, Epochs, Kept, Holds
    <2>6. RetentionIsAsAsked' /\ Unmade' /\ (Epochs => Epochs')
      BY <2>1 DEF ConnIInv, RetentionIsAsAsked, Unmade, Epochs
    <2> QED
      BY <2>1, <2>2, <2>3, <2>4, <2>5, <2>6, AnyStep DEF Kept
  <1> QED
    BY <1>2, <1>3, <1>4, <1>5, <1>6 DEF Setup

LEMMA EpochIInv == ASSUME ConnIInv, NEW p \in Procs, Epoch(p) PROVE ConnIInv'
  <1> USE DEF Steps, Configuring, EpochSteps, RetentionSteps
  <1>1. /\ conn[p] \in Conns /\ conn \in [Procs -> Conns]
        /\ Counted(conn[p]) /\ Holds(conn[p]) /\ WholeConfig(conn[p]) /\ Knows(conn[p])
        /\ RepoTypes /\ config \in Configs
        /\ MaxChanges \in Nat
        /\ starts \in 0..MaxStarts /\ changes \in 0..MaxChanges /\ faults \in 0..MaxFaults
    BY ConnFacts
  <1>2. CASE ChangeEpoch(p)
    <2>1. /\ conn[p].step = "ready" /\ conn[p].held # {} /\ Step(p, "readEpoch")
          /\ UNCHANGED <<made, config, policy, history, starts, faults>>
      BY <1>2 DEF ChangeEpoch
    <2>2. changes' \in 0..MaxChanges
      BY <1>1, <1>2 DEF ChangeEpoch
    <2>3. /\ Kept(p) /\ conn'[p].step = "readEpoch"
          /\ conn'[p].cached = conn[p].cached /\ conn'[p].last = conn[p].last
      BY <2>1, StepFacts
    <2>4. Holds(conn'[p])
      BY <1>1, <2>1, <2>3 DEF Holds, Kept
    <2>5. made /\ (conn[p].init => policy /\ Epochs)
      BY <1>1, <2>1 DEF WholeConfig, PastEpoch
    <2> QED
      BY <1>1, <2>1, <2>2, <2>3, <2>4, <2>5, ReadIInv
  <1>3. ASSUME NEW loads \in BOOLEAN, ReadEpoch(p, loads) PROVE ConnIInv'
    <2>1. /\ conn[p].step = "readEpoch"
          /\ UNCHANGED <<made, config, policy, history, starts, changes, faults>>
      BY <1>3 DEF ReadEpoch
    <2>2. /\ Kept(p) /\ conn'[p].step = "writeEpoch"
          /\ \/ conn'[p].cached = conn[p].cached /\ conn'[p].last = conn[p].last
             \/ conn'[p].cached = config /\ conn'[p].last = config
      BY <1>3, ReadFacts DEF ReadEpoch
    <2>3. Holds(conn'[p])
      BY <1>1, <2>1, <2>2 DEF Holds, Kept
    <2>4. /\ made /\ (conn[p].init => policy)
          /\ conn[p].init /\ PastEpoch(conn'[p]) => Epochs
      BY <1>1, <2>1, <2>2 DEF WholeConfig, PastEpoch, Kept
    <2> QED
      BY <1>1, <2>1, <2>2, <2>3, <2>4, ReadIInv
  <1>4. ASSUME NEW differs \in BOOLEAN, WriteEpoch(p, differs) PROVE ConnIInv'
    <2>1. /\ conn[p].step = "writeEpoch" /\ (conn[p].cached.epoch \/ differs)
          /\ UNCHANGED <<made, policy, asked, undone, starts, changes, faults>>
      BY <1>4 DEF WriteEpoch
    <2>2. PICK next \in {"readRetention", "ready"} :
            /\ next = AfterEpoch(conn[p])
            /\ next = "ready" => "setup" \notin conn[p].held
            /\ next = "readRetention" => "setup" \in conn[p].held
      BY DEF AfterEpoch
    <2>3. made /\ (conn[p].init => policy)
      BY <1>1, <2>1 DEF WholeConfig
    <2>4. conn[p].cached \in Configs /\ conn[p].last \in Configs
      BY <1>1 DEF Conns
    <2>5. CASE differs
      <3>1. /\ config' = [config EXCEPT !.epoch = TRUE, !.locked = conn[p].cached.locked]
            /\ conn' = [conn EXCEPT ![p] = [conn[p] EXCEPT !.step = next, !.last = config']]
            /\ stale' = (stale \/ Interfered(conn[p]))
        BY <1>4, <2>2, <2>5 DEF WriteEpoch
      <3>2. /\ config' \in Configs /\ config'.epoch = TRUE
            /\ config'.locked = conn[p].cached.locked /\ config'.extend = config.extend
        BY <1>1, <2>4, <3>1 DEF Configs
      <3>3. /\ stale' \in BOOLEAN /\ (stale => stale') /\ (stale' \/ conn[p].last = config)
        BY <1>1, <3>1 DEF Interfered, RepoTypes
      <3>4. /\ Kept(p) /\ conn'[p].step = next
            /\ conn'[p].cached = conn[p].cached /\ conn'[p].last = config'
        BY <1>1, <3>1, <3>2 DEF Conns, Kept
      <3>5. Epochs'
        BY <3>2 DEF Epochs
      <3>6. stale' \/ (config'.locked = config.locked /\ conn[p].cached.extend = config.extend)
        BY <1>1, <3>2, <3>3 DEF Knows
      <3>7. RepoTypes' /\ RetentionIsAsAsked' /\ Unmade'
        BY <1>1, <2>1, <2>3, <3>2, <3>3, <3>6
           DEF RepoTypes, ConnIInv, RetentionIsAsAsked, Unmade
      <3>8. Counted(conn'[p]) /\ Holds(conn'[p])
        BY <1>1, <2>1, <2>2, <3>4, KeptCounted DEF Holds, Kept
      <3>9. WholeConfig(conn[p])'
        BY <2>1, <2>3, <3>4, <3>5 DEF WholeConfig, Kept
      <3>10. Knows(conn[p])'
        BY <2>2, <3>2, <3>4, <3>6 DEF Knows
      <3> QED
        BY <2>1, <3>3, <3>4, <3>5, <3>7, <3>8, <3>9, <3>10, AnyStep DEF Kept
    <2>6. CASE ~differs
      <3>1. Step(p, next) /\ UNCHANGED <<made, config, policy, history>>
        BY <1>4, <2>1, <2>2, <2>6 DEF WriteEpoch, Step, history
      <3>2. /\ Kept(p) /\ conn'[p].step = next
            /\ conn'[p].cached = conn[p].cached /\ conn'[p].last = conn[p].last
        BY <3>1, StepFacts
      <3>3. Holds(conn'[p])
        BY <1>1, <2>1, <2>2, <3>2 DEF Holds, Kept
      <3>4. Epochs
        BY <1>1, <2>1, <2>6 DEF WholeConfig
      <3> QED
        BY <1>1, <2>1, <2>3, <3>1, <3>2, <3>3, <3>4, ReadIInv
    <2> QED
      BY <2>5, <2>6
  <1> QED
    BY <1>2, <1>3, <1>4 DEF Epoch

LEMMA RetentionIInv == ASSUME ConnIInv, NEW p \in Procs, Retention(p) PROVE ConnIInv'
  <1> USE DEF Steps, Configuring, EpochSteps, RetentionSteps
  <1>1. /\ conn[p] \in Conns /\ conn \in [Procs -> Conns]
        /\ Counted(conn[p]) /\ Holds(conn[p]) /\ WholeConfig(conn[p]) /\ Knows(conn[p])
        /\ RepoTypes /\ config \in Configs
        /\ MaxChanges \in Nat
        /\ starts \in 0..MaxStarts /\ changes \in 0..MaxChanges /\ faults \in 0..MaxFaults
    BY ConnFacts
  <1>2. /\ conn[p].cached \in Configs /\ conn[p].last \in Configs /\ conn[p].ask \in AnyAsk
        /\ conn[p].ask.locked \in Lockings \cup {"keep"}
        /\ conn[p].ask.extend \in Extensions \cup {"keep"}
    BY <1>1 DEF Conns, AnyAsk
  <1>3. ASSUME NEW ask \in Asks \ {KeepIt}, ChangeRetention(p, ask) PROVE ConnIInv'
    <2>1. /\ conn[p].step = "ready" /\ conn[p].held # {}
          /\ conn' = [conn EXCEPT ![p] = [conn[p] EXCEPT !.step = "readRetention", !.ask = ask]]
          /\ UNCHANGED <<made, config, policy, history, starts, faults>>
      BY <1>3 DEF ChangeRetention
    <2>2. changes' \in 0..MaxChanges
      BY <1>1, <1>3 DEF ChangeRetention
    <2>3. /\ Kept(p) /\ conn'[p].step = "readRetention"
          /\ conn'[p].cached = conn[p].cached /\ conn'[p].last = conn[p].last
      <3>1. ask \in AnyAsk
        BY ConnAssumption
      <3> QED
        BY <1>1, <2>1, <3>1 DEF Conns, Kept
    <2>4. Holds(conn'[p])
      BY <1>1, <2>1, <2>3 DEF Holds, Kept
    <2>5. made /\ (conn[p].init => policy /\ Epochs)
      BY <1>1, <2>1 DEF WholeConfig, PastEpoch
    <2> QED
      BY <1>1, <2>1, <2>2, <2>3, <2>4, <2>5, ReadIInv
  <1>4. ASSUME NEW loads \in BOOLEAN, ReadRetention(p, loads) PROVE ConnIInv'
    <2>1. /\ conn[p].step = "readRetention"
          /\ UNCHANGED <<made, config, policy, history, starts, changes, faults>>
      BY <1>4 DEF ReadRetention
    <2>2. PICK next \in {"wrap", "ready", "writeRetention"} :
            /\ next = "ready" => "setup" \notin conn[p].held
            /\ Kept(p) /\ conn'[p].step = next
            /\ \/ conn'[p].cached = conn[p].cached /\ conn'[p].last = conn[p].last
               \/ conn'[p].cached = config /\ conn'[p].last = config
      <3>1. CASE conn[p].ask = KeepIt
        <4>1. PICK next \in {"wrap", "ready"} :
                next = AfterRetention(conn[p]) /\ (next = "ready" => "setup" \notin conn[p].held)
          BY DEF AfterRetention
        <4>2. Step(p, next)
          BY <1>4, <3>1, <4>1 DEF ReadRetention
        <4> QED
          BY <4>1, <4>2, StepFacts
      <3>2. CASE conn[p].ask # KeepIt
        <4>1. Kept(p) /\ conn'[p].step = "writeRetention"
              /\ \/ conn'[p].cached = conn[p].cached /\ conn'[p].last = conn[p].last
                 \/ conn'[p].cached = config /\ conn'[p].last = config
          BY <1>4, <3>2, ReadFacts DEF ReadRetention
        <4> QED
          BY <4>1
      <3> QED
        BY <3>1, <3>2
    <2>3. Holds(conn'[p])
      BY <1>1, <2>1, <2>2 DEF Holds, Kept
    <2>4. made /\ (conn[p].init => policy /\ Epochs)
      BY <1>1, <2>1 DEF WholeConfig, PastEpoch
    <2> QED
      BY <1>1, <2>1, <2>2, <2>3, <2>4, ReadIInv
  <1>5. CASE WriteLocking(p)
    <2> DEFINE params == ParamsChanged(conn[p])
               blob   == BlobChanged(conn[p])
    <2>1. /\ conn[p].step = "writeRetention"
          /\ stale' = (stale \/ Interfered(conn[p]))
          /\ UNCHANGED <<made, policy, starts, changes, faults>>
      BY <1>5 DEF WriteLocking
    <2>2. made /\ (conn[p].init => policy /\ Epochs)
      BY <1>1, <2>1 DEF WholeConfig, PastEpoch
    <2>3. /\ stale' \in BOOLEAN /\ (stale => stale') /\ (stale' \/ conn[p].last = config)
      BY <1>1, <2>1 DEF Interfered, RepoTypes
    <2>4. PICK step \in {"flushRetention", "wrap", "ready"}, ask \in AnyAsk :
            /\ step = "ready" => "setup" \notin conn[p].held
            /\ step = "flushRetention" <=> params
            /\ step = "flushRetention" => ask = conn[p].ask
            /\ IF blob
               THEN conn' = [conn EXCEPT ![p] = [conn[p] EXCEPT !.step = step, !.ask = ask,
                      !.cached = [conn[p].cached EXCEPT !.locked = conn[p].ask.locked],
                      !.last = config']]
               ELSE conn' = [conn EXCEPT ![p] = [conn[p] EXCEPT !.step = step, !.ask = ask]]
      <3>1. CASE params
        <4>1. IF blob
              THEN conn' = [conn EXCEPT ![p] = [[conn[p] EXCEPT !.step = "flushRetention"] EXCEPT
                              !.cached.locked = conn[p].ask.locked, !.last = config']]
              ELSE conn' = [conn EXCEPT ![p] = [conn[p] EXCEPT !.step = "flushRetention"]]
          BY <1>5, <3>1 DEF WriteLocking
        <4>2. IF blob
              THEN conn' = [conn EXCEPT ![p] = [conn[p] EXCEPT !.step = "flushRetention",
                              !.ask = conn[p].ask,
                              !.cached = [conn[p].cached EXCEPT !.locked = conn[p].ask.locked],
                              !.last = config']]
              ELSE conn' = [conn EXCEPT ![p] = [conn[p] EXCEPT !.step = "flushRetention",
                                                              !.ask = conn[p].ask]]
          <5> HIDE DEF params, blob
          <5> QED
            BY <1>1, <4>1 DEF Conns
        <4> HIDE DEF params, blob
        <4> QED
          BY <1>2, <3>1, <4>2
      <3>2. CASE ~params
        <4>1. PICK step \in {"wrap", "ready"} :
                step = AfterRetention(conn[p]) /\ (step = "ready" => "setup" \notin conn[p].held)
          BY DEF AfterRetention
        <4>2. IF blob
              THEN conn' = [conn EXCEPT ![p] = [[conn[p] EXCEPT !.step = step, !.ask = KeepIt] EXCEPT
                              !.cached.locked = conn[p].ask.locked, !.last = config']]
              ELSE conn' = [conn EXCEPT ![p] = [conn[p] EXCEPT !.step = step, !.ask = KeepIt]]
          BY <1>5, <3>2, <4>1 DEF WriteLocking
        <4>3. IF blob
              THEN conn' = [conn EXCEPT ![p] = [conn[p] EXCEPT !.step = step, !.ask = KeepIt,
                              !.cached = [conn[p].cached EXCEPT !.locked = conn[p].ask.locked],
                              !.last = config']]
              ELSE conn' = [conn EXCEPT ![p] = [conn[p] EXCEPT !.step = step, !.ask = KeepIt]]
          <5> HIDE DEF params, blob
          <5> QED
            BY <1>1, <4>2 DEF Conns
        <4> HIDE DEF params, blob
        <4> QED
          BY <3>2, <4>1, <4>3, NoConnFacts
      <3> QED
        BY <3>1, <3>2
    <2>5. /\ config' \in Configs /\ config'.extend = config.extend
          /\ Kept(p) /\ conn'[p].step = step /\ conn'[p].ask = ask
          /\ undone' \in BOOLEAN /\ (undone => undone')
          /\ IF blob
             THEN /\ conn[p].ask.locked # "keep" /\ config'.locked = conn[p].ask.locked
                  /\ config'.epoch = conn[p].cached.epoch
                  /\ undone' \/ conn[p].cached.epoch = conn[p].last.epoch
                  /\ conn'[p].cached.locked = conn[p].ask.locked
                  /\ conn'[p].cached.extend = conn[p].cached.extend
                  /\ conn'[p].cached.epoch = conn[p].cached.epoch
                  /\ conn'[p].last = config'
             ELSE /\ conn[p].ask.locked \in {"keep", conn[p].cached.locked}
                  /\ config' = config /\ undone' = undone
                  /\ conn'[p].cached = conn[p].cached /\ conn'[p].last = conn[p].last
      <3>1. CASE blob
        <4>1. conn[p].ask.locked \in Lockings /\ conn[p].ask.locked # "keep"
          BY <1>2, <3>1 DEF BlobChanged
        <4>2. /\ config' = [config EXCEPT !.epoch = conn[p].cached.epoch,
                                          !.locked = conn[p].ask.locked]
              /\ undone' = (undone \/ conn[p].cached.epoch # conn[p].last.epoch)
          BY <1>5, <3>1 DEF WriteLocking
        <4>3. /\ config' \in Configs /\ config'.extend = config.extend
              /\ config'.locked = conn[p].ask.locked /\ config'.epoch = conn[p].cached.epoch
          BY <1>1, <1>2, <4>1, <4>2 DEF Configs
        <4>4. /\ undone' \in BOOLEAN /\ (undone => undone')
              /\ undone' \/ conn[p].cached.epoch = conn[p].last.epoch
          BY <1>1, <4>2 DEF RepoTypes
        <4>5. PICK d \in Configs :
                /\ d = [conn[p].cached EXCEPT !.locked = conn[p].ask.locked]
                /\ d.locked = conn[p].ask.locked /\ d.extend = conn[p].cached.extend
                /\ d.epoch = conn[p].cached.epoch
          <5> DEFINE d == [conn[p].cached EXCEPT !.locked = conn[p].ask.locked]
          <5>1. /\ d \in Configs /\ d.locked = conn[p].ask.locked
                /\ d.extend = conn[p].cached.extend /\ d.epoch = conn[p].cached.epoch
            BY <1>2, <4>1 DEF Configs
          <5> QED
            BY <5>1, Zenon
        <4>6. conn' = [conn EXCEPT ![p] = [conn[p] EXCEPT !.step = step, !.ask = ask,
                                                          !.cached = d, !.last = config']]
          BY <2>4, <3>1, <4>5
        <4>7. /\ Kept(p) /\ conn'[p].step = step /\ conn'[p].ask = ask
              /\ conn'[p].cached = d /\ conn'[p].last = config'
          BY <1>1, <4>3, <4>6 DEF Conns, Kept
        <4> HIDE DEF blob
        <4> QED
          BY <3>1, <4>1, <4>3, <4>4, <4>5, <4>7
      <3>2. CASE ~blob
        <4>1. conn[p].ask.locked \in {"keep", conn[p].cached.locked}
          BY <3>2 DEF BlobChanged
        <4>2. config' = config /\ undone' = undone
          BY <1>5, <3>2 DEF WriteLocking
        <4>3. conn' = [conn EXCEPT ![p] = [conn[p] EXCEPT !.step = step, !.ask = ask]]
          BY <2>4, <3>2
        <4>4. /\ Kept(p) /\ conn'[p].step = step /\ conn'[p].ask = ask
              /\ conn'[p].cached = conn[p].cached /\ conn'[p].last = conn[p].last
          BY <1>1, <4>3 DEF Conns, Kept
        <4> HIDE DEF blob
        <4> QED
          BY <1>1, <3>2, <4>1, <4>2, <4>4 DEF RepoTypes
      <3> QED
        BY <3>1, <3>2
    <2>6. /\ asked' \in [locked : SUBSET Lockings, extend : SUBSET Extensions]
          /\ IF conn[p].ask.locked = "keep" THEN asked.locked \subseteq asked'.locked
             ELSE conn[p].ask.locked \in asked'.locked
          /\ IF params \/ conn[p].ask.extend = "keep" THEN asked.extend \subseteq asked'.extend
             ELSE conn[p].ask.extend \in asked'.extend
      <3>1. asked \in [locked : SUBSET Lockings, extend : SUBSET Extensions]
        BY <1>1 DEF RepoTypes
      <3>2. CASE params
        <4>1. asked' = [asked EXCEPT !.locked = @ \cup Asked({}, conn[p].ask.locked)]
          BY <1>5, <3>2 DEF WriteLocking
        <4>2. /\ Asked({}, conn[p].ask.locked) \in SUBSET Lockings
              /\ conn[p].ask.locked # "keep" => conn[p].ask.locked \in Asked({}, conn[p].ask.locked)
          BY <1>2 DEF Asked
        <4>3. /\ asked' \in [locked : SUBSET Lockings, extend : SUBSET Extensions]
              /\ asked'.locked = asked.locked \cup Asked({}, conn[p].ask.locked)
              /\ asked'.extend = asked.extend
          BY <3>1, <4>1, <4>2
        <4> HIDE DEF params
        <4> QED
          BY <3>2, <4>2, <4>3
      <3>3. CASE ~params
        <4>1. asked' = [locked |-> Asked(asked.locked, conn[p].ask.locked),
                        extend |-> Asked(asked.extend, conn[p].ask.extend)]
          BY <1>5, <3>3 DEF WriteLocking, Succeeds
        <4> HIDE DEF params
        <4> QED
          BY <1>2, <3>1, <3>3, <4>1 DEF Asked
      <3> QED
        BY <3>2, <3>3
    <2>7. params \/ conn[p].ask.extend \in {"keep", conn[p].cached.extend}
      BY DEF ParamsChanged
    <2>8. params => conn[p].ask.extend # "keep"
      BY DEF ParamsChanged
    <2> HIDE DEF params, blob
    <2>9. Epochs => Epochs'
      <3>1. CASE blob /\ ~stale' /\ ~undone'
        BY <2>3, <2>5, <3>1 DEF Epochs
      <3>2. CASE ~blob \/ stale' \/ undone'
        BY <2>3, <2>5, <3>2 DEF Epochs
      <3> QED
        BY <3>1, <3>2
    <2>10. stale' \/ /\ config.locked = conn[p].cached.locked
                     /\ config.extend = conn[p].cached.extend
                     /\ conn[p].last = config
      BY <1>1, <2>3 DEF Knows
    <2>11. RetentionIsAsAsked'
      <3>1. stale' \/ config'.locked \in asked'.locked
        BY <2>3, <2>5, <2>6, <2>10 DEF ConnIInv, RetentionIsAsAsked
      <3>2. stale' \/ config'.extend \in asked'.extend
        BY <2>3, <2>5, <2>6, <2>7, <2>10 DEF ConnIInv, RetentionIsAsAsked
      <3> QED
        BY <3>1, <3>2 DEF RetentionIsAsAsked
    <2>12. RepoTypes' /\ Unmade'
      BY <1>1, <2>1, <2>2, <2>3, <2>5, <2>6 DEF RepoTypes, Unmade
    <2>13. Counted(conn'[p]) /\ Holds(conn'[p])
      BY <1>1, <2>1, <2>4, <2>5, KeptCounted DEF Holds, Kept
    <2>14. WholeConfig(conn[p])'
      <3>1. conn'[p].cached.epoch \/ conn'[p].last.epoch => Epochs'
        <4>1. conn[p].cached.epoch \/ conn[p].last.epoch => Epochs
          BY <1>1 DEF WholeConfig
        <4> QED
          BY <2>5, <2>9, <4>1
      <3> QED
        BY <2>1, <2>2, <2>5, <2>9, <3>1 DEF WholeConfig, Kept
    <2>15. Knows(conn[p])'
      <3>1. stale' \/ /\ conn'[p].cached.locked = conn'[p].last.locked
                      /\ conn'[p].cached.extend = conn'[p].last.extend
        BY <2>5, <2>10
      <3>2. conn'[p].step = "flushRetention" =>
              /\ conn'[p].ask.extend # "keep"
              /\ conn'[p].ask.locked # "keep" => conn'[p].cached.locked = conn'[p].ask.locked
        BY <2>4, <2>5, <2>8
      <3> QED
        BY <3>1, <3>2 DEF Knows
    <2> QED
      BY <2>1, <2>3, <2>5, <2>9, <2>11, <2>12, <2>13, <2>14, <2>15, AnyStep DEF Kept
  <1>6. CASE FlushRetention(p)
    <2>1. /\ conn[p].step = "flushRetention"
          /\ config' = [config EXCEPT !.extend = conn[p].ask.extend]
          /\ asked' = [locked |-> Asked(asked.locked, conn[p].ask.locked),
                       extend |-> Asked(asked.extend, conn[p].ask.extend)]
          /\ stale' = (stale \/ Interfered(conn[p]))
          /\ UNCHANGED <<made, policy, undone, starts, changes, faults>>
      BY <1>6 DEF FlushRetention, Succeeds
    <2>2. made /\ (conn[p].init => policy /\ Epochs)
      BY <1>1, <2>1 DEF WholeConfig, PastEpoch
    <2>3. /\ stale' \in BOOLEAN /\ (stale => stale') /\ (stale' \/ conn[p].last = config)
      BY <1>1, <2>1 DEF Interfered, RepoTypes
    <2>4. /\ conn[p].ask.extend \in Extensions /\ conn[p].ask.extend # "keep"
          /\ conn[p].ask.locked # "keep" => conn[p].cached.locked = conn[p].ask.locked
          /\ stale' \/ (config.locked = conn[p].cached.locked /\ conn[p].last = config)
      BY <1>1, <1>2, <2>1, <2>3 DEF Knows
    <2>5. /\ config' \in Configs /\ config'.extend = conn[p].ask.extend
          /\ config'.locked = config.locked /\ config'.epoch = config.epoch
      BY <1>1, <2>1, <2>4 DEF Configs
    <2>6. PICK step \in {"wrap", "ready"} :
            step = AfterRetention(conn[p]) /\ (step = "ready" => "setup" \notin conn[p].held)
      BY DEF AfterRetention
    <2>7. PICK d \in Configs :
            /\ d = [conn[p].cached EXCEPT !.extend = conn[p].ask.extend]
            /\ d.extend = conn[p].ask.extend /\ d.locked = conn[p].cached.locked
            /\ d.epoch = conn[p].cached.epoch
      <3> DEFINE d == [conn[p].cached EXCEPT !.extend = conn[p].ask.extend]
      <3>1. /\ d \in Configs /\ d.extend = conn[p].ask.extend
            /\ d.locked = conn[p].cached.locked /\ d.epoch = conn[p].cached.epoch
        BY <1>2, <2>4 DEF Configs
      <3> QED
        BY <3>1, Zenon
    <2>8. conn' = [conn EXCEPT ![p] = [conn[p] EXCEPT !.step = step, !.ask = KeepIt,
                                                      !.cached = d, !.last = config']]
      <3>1. conn' = [conn EXCEPT ![p] = [conn[p] EXCEPT !.step = step, !.ask = KeepIt,
                       !.cached.extend = conn[p].ask.extend, !.last = config']]
        BY <1>6, <2>6 DEF FlushRetention
      <3> QED
        BY <1>1, <2>7, <3>1 DEF Conns
    <2>9. /\ Kept(p) /\ conn'[p].step = step
          /\ conn'[p].cached = d /\ conn'[p].last = config'
      BY <1>1, <2>5, <2>8, NoConnFacts DEF Conns, Kept
    <2>10. Epochs => Epochs'
      BY <2>1, <2>3, <2>5 DEF Epochs
    <2>11. /\ asked' \in [locked : SUBSET Lockings, extend : SUBSET Extensions]
           /\ conn[p].ask.extend \in asked'.extend
           /\ IF conn[p].ask.locked = "keep" THEN asked'.locked = asked.locked
              ELSE conn[p].ask.locked \in asked'.locked
      BY <1>1, <1>2, <2>1, <2>4 DEF RepoTypes, Asked
    <2>12. RetentionIsAsAsked'
      BY <2>3, <2>4, <2>5, <2>11 DEF ConnIInv, RetentionIsAsAsked
    <2>13. RepoTypes' /\ Unmade'
      BY <1>1, <2>1, <2>2, <2>3, <2>5, <2>11 DEF RepoTypes, Unmade
    <2>14. Counted(conn'[p]) /\ Holds(conn'[p])
      BY <1>1, <2>1, <2>6, <2>9, KeptCounted DEF Holds, Kept
    <2>15. WholeConfig(conn[p])'
      <3>1. conn'[p].cached.epoch \/ conn'[p].last.epoch => Epochs'
        <4>1. conn[p].cached.epoch \/ conn[p].last.epoch => Epochs
          BY <1>1 DEF WholeConfig
        <4>2. config'.epoch => Epochs'
          BY DEF Epochs
        <4> QED
          BY <2>7, <2>9, <2>10, <4>1, <4>2
      <3> QED
        BY <2>1, <2>2, <2>9, <2>10, <3>1 DEF WholeConfig, Kept
    <2>16. Knows(conn[p])'
      BY <2>4, <2>5, <2>6, <2>7, <2>9 DEF Knows
    <2> QED
      BY <2>1, <2>3, <2>9, <2>10, <2>12, <2>13, <2>14, <2>15, <2>16, AnyStep DEF Kept
  <1> QED
    BY <1>3, <1>4, <1>5, <1>6 DEF Retention

LEMMA ReferencesIInv == ASSUME ConnIInv, NEW p \in Procs, References(p) PROVE ConnIInv'
  <1> USE DEF Steps, Configuring, EpochSteps, RetentionSteps
  <1>1. /\ conn[p] \in Conns /\ conn \in [Procs -> Conns]
        /\ Counted(conn[p]) /\ Holds(conn[p]) /\ WholeConfig(conn[p]) /\ Knows(conn[p])
        /\ starts \in 0..MaxStarts /\ changes \in 0..MaxChanges /\ faults \in 0..MaxFaults
    BY ConnFacts
  <1>5. conn[p].held \in SUBSET Users /\ conn[p].refCount \in Nat
    BY <1>1 DEF Conns
  <1>2. ASSUME NEW user \in {"data", "model"}, Wrap(p, user) PROVE ConnIInv'
    <2>1. /\ conn[p].step = "wrap" /\ user \in Users \ conn[p].held /\ conn[p].refCount > 0
          /\ conn' = [conn EXCEPT ![p] = [conn[p] EXCEPT !.refCount = conn[p].refCount + 1,
                                                        !.held = conn[p].held \cup {user}]]
          /\ UNCHANGED <<made, config, policy, history, starts, changes, faults>>
      BY <1>2 DEF Wrap, Users
    <2>2. /\ conn[p].refCount = Cardinality(conn[p].held) /\ conn[p].held # {} /\ conn[p].open
          /\ Cardinality(conn[p].held \cup {user}) = conn[p].refCount + 1
          /\ conn[p].held \cup {user} \in SUBSET Users /\ conn[p].refCount + 1 \in Nat
      BY <1>1, <1>5, <2>1, HeldFacts DEF Counted
    <2>3. /\ conn' \in [Procs -> Conns]
          /\ conn'[p].step = "wrap" /\ conn'[p].held = conn[p].held \cup {user}
          /\ conn'[p].refCount = conn[p].refCount + 1 /\ conn'[p].open = conn[p].open
          /\ conn'[p].init = conn[p].init
          /\ conn'[p].cached = conn[p].cached /\ conn'[p].last = conn[p].last
          /\ \A q \in Procs : q # p => conn'[q] = conn[q]
      BY <1>1, <2>1, <2>2 DEF Conns
    <2>4. Counted(conn'[p]) /\ Holds(conn'[p])
      BY <2>2, <2>3 DEF Counted, Holds
    <2>5. WholeConfig(conn[p])' /\ Knows(conn[p])'
      BY <1>1, <2>1, <2>3 DEF WholeConfig, PastEpoch, Knows, Epochs, history
    <2> QED
      BY <1>1, <2>1, <2>3, <2>4, <2>5, OwnStep
  <1>3. ASSUME NEW user \in {"setup", "data", "model"}, Release(p, user) PROVE ConnIInv'
    <2> DEFINE next == IF user = "setup" THEN "ready"
                       ELSE IF user = "model" THEN "closed" ELSE conn[p].step
    <2>1. /\ user \in conn[p].held /\ conn[p].step \in {"wrap", "ready"}
          /\ user # "setup" => conn[p].step = "ready"
          /\ conn' = [conn EXCEPT ![p] = [conn[p] EXCEPT
                !.refCount = conn[p].refCount - 1, !.held = conn[p].held \ {user},
                !.open = conn[p].refCount > 1, !.step = next]]
          /\ UNCHANGED <<made, config, policy, history, starts, changes, faults>>
      BY <1>3 DEF Release, StaysOpen
    <2>2. /\ conn[p].refCount = Cardinality(conn[p].held)
          /\ Cardinality(conn[p].held \ {user}) = conn[p].refCount - 1
          /\ conn[p].refCount - 1 \in Nat
          /\ conn[p].held \ {user} \in SUBSET Users
          /\ conn[p].refCount > 1 <=> conn[p].held \ {user} # {}
      <3>1. conn[p].refCount = Cardinality(conn[p].held)
        BY <1>1, <2>1 DEF Counted
      <3>2. conn[p].held \ {user} \in SUBSET Users
        BY <1>5
      <3>3. /\ Cardinality(conn[p].held \ {user}) = conn[p].refCount - 1
        BY <1>5, <2>1, <3>1, HeldFacts
      <3>4. /\ Cardinality(conn[p].held \ {user}) \in Nat
            /\ Cardinality(conn[p].held \ {user}) = 0 <=> conn[p].held \ {user} = {}
        BY <3>2, HeldFacts
      <3> QED
        BY <1>5, <3>1, <3>2, <3>3, <3>4
    <2>3. next \in {"ready", "closed"} /\ (conn[p].refCount > 1) \in BOOLEAN
      BY <2>1
    <2> HIDE DEF next
    <2>4. /\ conn' \in [Procs -> Conns]
          /\ conn'[p].step = next /\ conn'[p].held = conn[p].held \ {user}
          /\ conn'[p].refCount = conn[p].refCount - 1 /\ conn'[p].open = (conn[p].refCount > 1)
          /\ conn'[p].init = conn[p].init
          /\ conn'[p].cached = conn[p].cached /\ conn'[p].last = conn[p].last
          /\ \A q \in Procs : q # p => conn'[q] = conn[q]
      BY <1>1, <2>1, <2>2, <2>3 DEF Conns
    <2>5. Counted(conn'[p])
      BY <2>2, <2>4 DEF Counted
    <2>6. Holds(conn'[p])
      <3>1. "setup" \notin conn'[p].held
        BY <1>1, <2>1, <2>4 DEF Holds
      <3> QED
        BY <2>3, <2>4, <3>1 DEF Holds
    <2>7. WholeConfig(conn[p])' /\ Knows(conn[p])'
      BY <1>1, <2>1, <2>3, <2>4 DEF WholeConfig, PastEpoch, Knows, Epochs, history
    <2> QED
      BY <1>1, <2>1, <2>4, <2>5, <2>6, <2>7, OwnStep
  <1>4. CASE Again(p)
    <2>1. /\ conn' = [conn EXCEPT ![p] = NoConn]
          /\ UNCHANGED <<made, config, policy, history, starts, changes, faults>>
      BY <1>4 DEF Again
    <2> QED
      BY <1>1, <2>1, NoConnFacts, ConnForgetIInv
  <1> QED
    BY <1>2, <1>3, <1>4 DEF References

LEMMA FaultIInv == ASSUME ConnIInv, NEW p \in Procs, StepFails(p) \/ CrashProc(p) PROVE ConnIInv'
  <1> USE DEF Steps, Configuring, EpochSteps, RetentionSteps
  <1>1. /\ conn[p] \in Conns /\ conn \in [Procs -> Conns]
        /\ Counted(conn[p]) /\ Holds(conn[p]) /\ WholeConfig(conn[p]) /\ Knows(conn[p])
        /\ MaxFaults \in Nat
        /\ starts \in 0..MaxStarts /\ changes \in 0..MaxChanges /\ faults \in 0..MaxFaults
    BY ConnFacts
  <1>2. /\ faults' \in 0..MaxFaults
        /\ UNCHANGED <<made, config, policy, history, starts, changes>>
    BY <1>1 DEF StepFails, CrashProc
  <1>3. CASE StepFails(p)
    <2> DEFINE next == IF conn[p].held \in {{}, {"setup"}} THEN "failed" ELSE "ready"
    <2>1. /\ conn[p].step \in Configuring
          /\ conn' = [conn EXCEPT ![p] = [conn[p] EXCEPT !.step = next, !.ask = KeepIt]]
      BY <1>3 DEF StepFails
    <2>2. /\ next \in {"failed", "ready"}
          /\ next = "ready" =>
               conn[p].step \in EpochSteps \cup RetentionSteps /\ "setup" \notin conn[p].held
      BY <1>1, <2>1 DEF Holds
    <2> HIDE DEF next
    <2>3. /\ Kept(p) /\ conn'[p].step = next
          /\ conn'[p].cached = conn[p].cached /\ conn'[p].last = conn[p].last
      BY <1>1, <2>1, <2>2, NoConnFacts DEF Conns, Kept
    <2>4. Holds(conn'[p])
      BY <1>1, <2>2, <2>3 DEF Holds, Kept
    <2>5. next = "ready" => made /\ (conn[p].init => policy /\ Epochs)
      BY <1>1, <2>2 DEF WholeConfig, PastEpoch
    <2> QED
      BY <1>1, <1>2, <2>1, <2>2, <2>3, <2>4, <2>5, ReadIInv DEF PastEpoch
  <1>4. CASE CrashProc(p)
    <2>1. conn' = [conn EXCEPT ![p] = NoConn]
      BY <1>4 DEF CrashProc
    <2> QED
      BY <1>1, <1>2, <2>1, NoConnFacts, ConnForgetIInv
  <1> QED
    BY <1>3, <1>4

LEMMA ConnStepIInv == ConnIInv /\ [ConnNext]_connVars => ConnIInv'
  <1> SUFFICES ASSUME ConnIInv, [ConnNext]_connVars PROVE ConnIInv'
    OBVIOUS
  <1>1. CASE UNCHANGED connVars
    <2>1. UNCHANGED <<made, config, policy, conn, asked, stale, undone, starts, changes, faults>>
      BY <1>1 DEF connVars, history
    <2>2. RepoTypes' /\ Unmade' /\ RetentionIsAsAsked' /\ conn' \in [Procs -> Conns]
      BY <2>1 DEF ConnIInv, RepoTypes, Unmade, RetentionIsAsAsked
    <2>3. ASSUME NEW p \in Procs
          PROVE  (Counted(conn[p]) /\ Holds(conn[p]) /\ WholeConfig(conn[p]) /\ Knows(conn[p]))'
      <3>1. Counted(conn[p]) /\ Holds(conn[p]) /\ WholeConfig(conn[p]) /\ Knows(conn[p])
        BY ConnFacts
      <3> QED
        BY <2>1, <3>1
           DEF Counted, Holds, WholeConfig, PastEpoch, Knows, Epochs, EpochSteps, RetentionSteps
    <2> QED
      BY <2>2, <2>3 DEF ConnIInv
  <1> QED
    BY <1>1, SetupIInv, EpochIInv, RetentionIInv, ReferencesIInv, FaultIInv DEF ConnNext

LEMMA ConnInvariance == ConnSpec => []ConnIInv
  BY ConnInitIInv, ConnStepIInv, PTL DEF ConnSpec

(* The types, and that the references are counted.                         *)
THEOREM ConnTypeCorrect == ConnSpec => []ConnTypeOK
  <1>1. ConnIInv => ConnTypeOK
    BY DEF ConnIInv, RepoTypes, Conns, Users, Counted, ConnTypeOK
  <1> QED
    BY <1>1, ConnInvariance, PTL

(* conn.wrap and conn.Close: the handle is open for as long as somebody    *)
(* has it, for any number of processes, faults and restarts.               *)
THEOREM HandleIsOpenWhileHeld == ConnSpec => []OpenWhileHeld
  <1>1. ConnIInv => OpenWhileHeld
    BY DEF ConnIInv, Counted, OpenWhileHeld
  <1> QED
    BY <1>1, ConnInvariance, PTL

(* An Initialize that returns has left a whole configuration, whichever    *)
(* earlier ones were cut short in between its steps, and however old what  *)
(* its handle reads is: there are two ways to lose the epochs, and no more.*)
THEOREM InitializesWholly == ConnSpec => []InitializedIsWhole
  <1>1. ConnIInv => InitializedIsWhole
    <2> SUFFICES ASSUME ConnIInv, NEW p \in Procs,
                        conn[p].init, conn[p].step \in {"wrap", "ready"}
                 PROVE  policy /\ Epochs
      BY DEF InitializedIsWhole, Epochs
    <2> QED
      BY ConnFacts DEF WholeConfig, PastEpoch
  <1> QED
    BY <1>1, ConnInvariance, PTL

(* setRetentionParameters and updatePersistentConfig: partial changes of   *)
(* the locking of blobs and of its extension leave each as was last asked  *)
(* for, whatever steps are cut short.                                      *)
THEOREM RetentionAsAsked == ConnSpec => []RetentionIsAsAsked
  <1>1. ConnIInv => RetentionIsAsAsked
    BY DEF ConnIInv
  <1> QED
    BY <1>1, ConnInvariance, PTL

-----------------------------------------------------------------------------
(* ModelStore.                                                             *)

Copies == [model : Models \cup {"none"}, id : Nat]
Doings == [op : {"none", "get", "update", "delete"}, model : Models \cup {"none"}, id : Nat]

StoreTypes ==
  /\ nextID \in 1..MaxIDs + 1
  /\ manifests \subseteq [id : 1..MaxIDs, model : Models, from : 0..MaxIDs]
  /\ \A x \in manifests : x.id < nextID
  /\ copy \in [Clients -> Copies] /\ \A c \in Clients : copy[c].id < nextID
  /\ doing \in [Clients -> Doings] /\ \A c \in Clients : doing[c].id < nextID
  /\ written \subseteq Models /\ deleted \subseteq Models /\ raced \subseteq Models

(* An ID is that of one manifest, and a client that has looked up a model  *)
(* and updates or deletes it holds an ID of that model, perhaps outdated.  *)
Identified ==
  /\ \A x, y \in manifests : x.id = y.id => x = y
  /\ \A x \in manifests : x.model \in written
  /\ \A c \in Clients : doing[c].op \in {"update", "delete"} =>
       /\ doing[c].model \in written
       /\ \A x \in manifests : x.id = doing[c].id => x.model = doing[c].model
  /\ \A c \in Clients : doing[c].op = "update" =>
       copy[c].model = doing[c].model /\ copy[c].id = doing[c].id

StoreIInv == StoreTypes /\ Identified /\ OneManifestUnlessRaced /\ NotLostUntilDeleted

LEMMA StoreInitIInv == StoreInit => StoreIInv
  <1> SUFFICES ASSUME StoreInit PROVE StoreIInv
    OBVIOUS
  <1>1. NoModel \in Copies /\ NoModel.id = 0
    BY DEF NoModel, Copies
  <1>2. Nothing \in Doings /\ Nothing.id = 0 /\ Nothing.op = "none"
    BY DEF Nothing, Doings
  <1>3. StoreTypes
    BY <1>1, <1>2, StoreAssumption DEF StoreInit, StoreTypes
  <1>4. Identified
    BY <1>2 DEF StoreInit, Identified
  <1> QED
    BY <1>3, <1>4 DEF StoreInit, StoreIInv, OneManifestUnlessRaced, NotLostUntilDeleted

(* Fewer manifests, and a client that does nothing or what it has looked   *)
(* up: what the parts of the invariant that are about one model need.      *)
LEMMA PutIInv ==
  ASSUME StoreIInv, NEW c \in Clients, NEW m \in Models, NEW flushed \in BOOLEAN, Put(c, m, flushed)
  PROVE  StoreIInv'
  <1> DEFINE new == Manifest(nextID, m, 0)
  <1>1. /\ nextID \in 1..MaxIDs /\ nextID' = nextID + 1 /\ MaxIDs \in Nat
        /\ new = [id |-> nextID, model |-> m, from |-> 0]
        /\ new \in [id : 1..MaxIDs, model : Models, from : 0..MaxIDs]
    BY StoreAssumption DEF StoreIInv, StoreTypes, Put, Manifest
  <1>2. /\ copy' \in [Clients -> Copies]
        /\ \A d \in Clients : copy'[d].id < nextID'
        /\ \A d \in Clients : d # c => copy'[d] = copy[d]
    BY <1>1 DEF StoreIInv, StoreTypes, Put, Copies
  <1>3. manifests' = manifests \cup (IF flushed THEN {new} ELSE {})
    BY DEF Put
  <1>4. StoreTypes'
    <2>1. \A x \in manifests : x.id < nextID'
      BY <1>1 DEF StoreIInv, StoreTypes
    <2>2. \A d \in Clients : doing[d].id < nextID'
      BY <1>1 DEF StoreIInv, StoreTypes, Doings
    <2> QED
      BY <1>1, <1>2, <1>3, <2>1, <2>2 DEF StoreIInv, StoreTypes, Put
  <1>5. \A x \in manifests : x.id # nextID /\ x.model # m
    BY <1>1 DEF StoreIInv, StoreTypes, Identified, Put
  <1>6. \A d \in Clients : doing[d].id # nextID
    BY <1>1 DEF StoreIInv, StoreTypes, Doings
  <1>7. Identified'
    <2>1. \A x \in manifests' : x.model \in written'
      BY <1>1, <1>3 DEF StoreIInv, Identified, Put
    <2>2. \A x, y \in manifests' : x.id = y.id => x = y
      BY <1>1, <1>3, <1>5 DEF StoreIInv, Identified
    <2>3. \A d \in Clients : doing[d].op \in {"update", "delete"} =>
            \A x \in manifests' : x.id = doing[d].id => x.model = doing[d].model
      BY <1>1, <1>3, <1>6 DEF StoreIInv, Identified
    <2>4. doing[c].op = "none"
      BY DEF Put, Nothing
    <2> QED
      BY <1>2, <2>1, <2>2, <2>3, <2>4 DEF StoreIInv, Identified, Put
  <1>8. OneManifestUnlessRaced'
    BY <1>1, <1>3, <1>5 DEF StoreIInv, OneManifestUnlessRaced, Put
  <1>9. NotLostUntilDeleted'
    <2>1. \A k \in written : IDsOf(k)' # {} \/ k \in deleted
      BY <1>3 DEF StoreIInv, NotLostUntilDeleted, IDsOf
    <2>2. flushed => nextID \in IDsOf(m)'
      BY <1>1, <1>3 DEF IDsOf
    <2> QED
      BY <2>1, <2>2 DEF NotLostUntilDeleted, Put
  <1> QED
    BY <1>4, <1>7, <1>8, <1>9 DEF StoreIInv

(* A call that begins with the ID that it has found.                       *)
LEMMA LookupIInv ==
  ASSUME StoreIInv, NEW c \in Clients, NEW m \in Models, NEW id \in 1..MaxIDs, Found(m, id),
         NEW op \in {"get", "update", "delete"},
         doing' = [doing EXCEPT ![c] = [op |-> op, model |-> m, id |-> id]],
         op = "update" => copy[c].model = m /\ copy[c].id = id,
         UNCHANGED <<manifests, nextID, copy, written, deleted, raced>>
  PROVE  StoreIInv'
  <1>1. PICK x \in manifests : x.id = id /\ x.model = m
    BY DEF Found, IDsOf
  <1>2. id < nextID /\ m \in written /\ \A y \in manifests : y.id = id => y.model = m
    BY <1>1 DEF StoreIInv, StoreTypes, Identified
  <1>3. /\ doing' \in [Clients -> Doings]
        /\ \A d \in Clients : doing'[d].id < nextID
        /\ doing'[c] = [op |-> op, model |-> m, id |-> id]
        /\ \A d \in Clients : d # c => doing'[d] = doing[d]
    <2>1. [op |-> op, model |-> m, id |-> id] \in Doings
      BY DEF Doings
    <2> QED
      BY <1>2, <2>1 DEF StoreIInv, StoreTypes
  <1>4. StoreTypes'
    BY <1>3 DEF StoreIInv, StoreTypes
  <1>5. Identified'
    BY <1>2, <1>3 DEF StoreIInv, Identified
  <1> QED
    BY <1>4, <1>5 DEF StoreIInv, OneManifestUnlessRaced, NotLostUntilDeleted, IDsOf

(* A call that ends, or a client that stops, without writing.              *)
LEMMA StoreForgetIInv ==
  ASSUME StoreIInv, NEW c \in Clients, NEW model \in Copies, model.id < nextID,
         doing' = [doing EXCEPT ![c] = Nothing],
         copy' = [copy EXCEPT ![c] = model],
         UNCHANGED <<manifests, nextID, written, deleted, raced>>
  PROVE  StoreIInv'
  <1>1. Nothing \in Doings /\ Nothing.id = 0 /\ Nothing.op = "none"
    BY DEF Nothing, Doings
  <1>2. StoreTypes'
    BY <1>1 DEF StoreIInv, StoreTypes
  <1>3. Identified'
    BY <1>1 DEF StoreIInv, StoreTypes, Identified
  <1> QED
    BY <1>2, <1>3 DEF StoreIInv, OneManifestUnlessRaced, NotLostUntilDeleted, IDsOf

LEMMA UpdateWriteIInv ==
  ASSUME StoreIInv, NEW c \in Clients, NEW outcome \in Outcomes, UpdateWrite(c, outcome)
  PROVE  StoreIInv'
  <1> DEFINE m == copy[c].model
             old == copy[c].id
             new == Manifest(nextID, m, old)
  <1>1. /\ nextID \in 1..MaxIDs /\ nextID' = nextID + 1 /\ MaxIDs \in Nat
        /\ m = doing[c].model /\ old = doing[c].id /\ m \in written /\ m \in Models
        /\ old \in 0..MaxIDs /\ old < nextID
        /\ \A x \in manifests : x.id = old => x.model = m
    BY StoreAssumption DEF StoreIInv, StoreTypes, Identified, UpdateWrite, Copies
  <1>2. /\ new = [id |-> nextID, model |-> m, from |-> old]
        /\ new \in [id : 1..MaxIDs, model : Models, from : 0..MaxIDs]
    BY <1>1 DEF Manifest
  <1>3. Nothing \in Doings /\ Nothing.id = 0 /\ Nothing.op = "none"
    BY DEF Nothing, Doings
  <1>4. /\ copy' \in [Clients -> Copies]
        /\ \A d \in Clients : copy'[d].id < nextID'
        /\ \A d \in Clients : d # c => copy'[d] = copy[d]
    <2>1. copy' = [copy EXCEPT ![c].id = IF outcome = "failed" THEN copy[c].id ELSE nextID]
      BY DEF UpdateWrite
    <2>2. copy \in [Clients -> Copies] /\ \A d \in Clients : copy[d].id < nextID
      BY DEF StoreIInv, StoreTypes
    <2>3. copy'[c] = [model |-> copy[c].model, id |-> IF outcome = "failed" THEN copy[c].id ELSE nextID]
      BY <2>1, <2>2 DEF Copies
    <2>4. copy'[c] \in Copies /\ copy'[c].id < nextID'
      BY <1>1, <2>2, <2>3 DEF Copies
    <2>5. \A d \in Clients : d # c => copy'[d] = copy[d]
      BY <2>1, <2>2
    <2>6. \A d \in Clients : copy'[d] \in Copies /\ copy'[d].id < nextID'
      BY <1>1, <2>2, <2>4, <2>5 DEF Copies
    <2>7. copy' = [d \in Clients |-> copy'[d]]
      BY <2>1, <2>2
    <2> QED
      BY <2>5, <2>6, <2>7
  <1>5. /\ doing' \in [Clients -> Doings]
        /\ \A d \in Clients : doing'[d].id < nextID'
        /\ doing'[c] = Nothing
        /\ \A d \in Clients : d # c => doing'[d] = doing[d]
    BY <1>1, <1>3 DEF StoreIInv, StoreTypes, UpdateWrite, Doings
  <1>6. \A x \in manifests : x.id < nextID /\ x.id < nextID' /\ x.model \in Models /\ x.id \in Nat
    BY <1>1 DEF StoreIInv, StoreTypes
  <1>7. \A d \in Clients : doing[d].id # nextID
    BY <1>1 DEF StoreIInv, StoreTypes, Doings
  <1>8. CASE outcome = "flushed"
    <2>1. /\ manifests' = {x \in manifests : x.id # old} \cup {new}
          /\ raced' = IF Found(m, doing[c].id) THEN raced ELSE raced \cup {m}
          /\ written' = written /\ deleted' = deleted
      BY <1>8 DEF UpdateWrite, Replaced
    <2>2. StoreTypes'
      BY <1>1, <1>2, <1>4, <1>5, <1>6, <2>1 DEF StoreIInv, StoreTypes
    <2>3. \A x, y \in manifests' : x.id = y.id => x = y
      BY <1>1, <1>2, <1>6, <2>1 DEF StoreIInv, Identified
    <2>4. \A x \in manifests' : x.model \in written'
      BY <1>1, <1>2, <2>1 DEF StoreIInv, Identified
    <2>5. \A d \in Clients : doing'[d].op \in {"update", "delete"} =>
            /\ doing'[d].model \in written'
            /\ \A x \in manifests' : x.id = doing'[d].id => x.model = doing'[d].model
      BY <1>2, <1>3, <1>5, <1>7, <2>1 DEF StoreIInv, Identified
    <2>6. \A d \in Clients : doing'[d].op = "update" =>
            copy'[d].model = doing'[d].model /\ copy'[d].id = doing'[d].id
      BY <1>3, <1>4, <1>5 DEF StoreIInv, Identified
    <2>7. OneManifestUnlessRaced'
      <3>1. ASSUME NEW x \in manifests, NEW y \in manifests, x.id # old, x.model = m
            PROVE  m \in raced'
        <4>1. ~Found(m, doing[c].id)
          BY <1>1, <3>1 DEF Found, IDsOf
        <4> QED
          BY <2>1, <4>1
      <3>2. raced \subseteq raced'
        BY <2>1
      <3> QED
        BY <1>2, <2>1, <3>1, <3>2 DEF StoreIInv, OneManifestUnlessRaced
    <2>8. NotLostUntilDeleted'
      <3> SUFFICES ASSUME NEW k \in written', k \notin deleted'
                   PROVE  \E x \in manifests' : x.model = k
        BY DEF NotLostUntilDeleted, IDsOf
      <3>1. CASE k = m
        BY <1>2, <2>1, <3>1
      <3>2. CASE k # m
        <4>1. PICK x \in manifests : x.model = k
          BY <2>1 DEF StoreIInv, NotLostUntilDeleted, IDsOf
        <4> QED
          BY <1>1, <2>1, <3>2, <4>1
      <3> QED
        BY <3>1, <3>2
    <2> QED
      BY <2>2, <2>3, <2>4, <2>5, <2>6, <2>7, <2>8 DEF StoreIInv, Identified
  <1>9. CASE outcome # "flushed"
    <2>1. UNCHANGED <<manifests, raced, written, deleted>>
      BY <1>9 DEF UpdateWrite
    <2>2. StoreTypes'
      BY <1>1, <1>4, <1>5, <1>6, <2>1 DEF StoreIInv, StoreTypes
    <2>3. Identified'
      BY <1>3, <1>4, <1>5, <2>1 DEF StoreIInv, Identified
    <2> QED
      BY <2>1, <2>2, <2>3 DEF StoreIInv, OneManifestUnlessRaced, NotLostUntilDeleted, IDsOf
  <1> QED
    BY <1>8, <1>9

LEMMA DeleteWriteIInv ==
  ASSUME StoreIInv, NEW c \in Clients, NEW flushed \in BOOLEAN, DeleteWrite(c, flushed)
  PROVE  StoreIInv'
  <1> DEFINE m == doing[c].model
  <1>1. /\ m \in written /\ m \in Models
        /\ \A x \in manifests : x.id = doing[c].id => x.model = m
    BY DEF StoreIInv, StoreTypes, Identified, DeleteWrite
  <1>2. Nothing \in Doings /\ Nothing.id = 0 /\ Nothing.op = "none"
    BY DEF Nothing, Doings
  <1>3. /\ manifests' \subseteq manifests /\ raced \subseteq raced' /\ raced' \subseteq Models
        /\ deleted \subseteq deleted' /\ deleted' \subseteq Models
        /\ UNCHANGED <<nextID, copy, written>>
    BY <1>1 DEF DeleteWrite, StoreIInv, StoreTypes
  <1>4. /\ doing' \in [Clients -> Doings]
        /\ \A d \in Clients : doing'[d].id < nextID
        /\ doing'[c] = Nothing
        /\ \A d \in Clients : d # c => doing'[d] = doing[d]
    BY <1>2 DEF StoreIInv, StoreTypes, DeleteWrite
  <1>5. StoreTypes'
    BY <1>3, <1>4 DEF StoreIInv, StoreTypes
  <1>6. Identified'
    BY <1>2, <1>3, <1>4 DEF StoreIInv, Identified
  <1>7. OneManifestUnlessRaced'
    BY <1>3 DEF StoreIInv, OneManifestUnlessRaced
  <1>8. NotLostUntilDeleted'
    <2>1. \A k \in written : k # m => IDsOf(k)' = IDsOf(k)
      BY <1>1 DEF IDsOf, DeleteWrite
    <2>2. m \in deleted' \/ manifests' = manifests
      BY DEF DeleteWrite
    <2> QED
      BY <1>3, <2>1, <2>2 DEF StoreIInv, NotLostUntilDeleted, IDsOf
  <1> QED
    BY <1>5, <1>6, <1>7, <1>8 DEF StoreIInv

LEMMA StoreStepIInv == StoreIInv /\ [StoreNext]_storeVars => StoreIInv'
  <1> SUFFICES ASSUME StoreIInv, [StoreNext]_storeVars PROVE StoreIInv'
    OBVIOUS
  <1>1. ASSUME NEW c \in Clients, NEW m \in Models, NEW flushed \in BOOLEAN, Put(c, m, flushed)
        PROVE  StoreIInv'
    BY <1>1, PutIInv
  <1>2. ASSUME NEW c \in Clients, NEW m \in Models, NEW id \in 1..MaxIDs,
               GetLookup(c, m, id) \/ DeleteLookup(c, m, id)
        PROVE  StoreIInv'
    <2>1. ASSUME GetLookup(c, m, id) PROVE StoreIInv'
      <3>1. /\ Found(m, id)
            /\ doing' = [doing EXCEPT ![c] = [op |-> "get", model |-> m, id |-> id]]
            /\ UNCHANGED <<manifests, nextID, copy, written, deleted, raced>>
        BY <2>1 DEF GetLookup
      <3> QED
        BY <3>1, LookupIInv
    <2>2. ASSUME DeleteLookup(c, m, id) PROVE StoreIInv'
      <3>1. /\ Found(m, id)
            /\ doing' = [doing EXCEPT ![c] = [op |-> "delete", model |-> m, id |-> id]]
            /\ UNCHANGED <<manifests, nextID, copy, written, deleted, raced>>
        BY <2>2 DEF DeleteLookup
      <3> QED
        BY <3>1, LookupIInv
    <2> QED
      BY <1>2, <2>1, <2>2
  <1>3. ASSUME NEW c \in Clients, GetManifest(c) PROVE StoreIInv'
    <2>1. /\ doing[c] \in Doings /\ doing[c].id < nextID
          /\ copy[c] \in Copies /\ copy[c].id < nextID /\ copy \in [Clients -> Copies]
      BY DEF StoreIInv, StoreTypes
    <2>2. PICK model \in Copies : model.id < nextID /\ copy' = [copy EXCEPT ![c] = model]
      <3>1. CASE doing[c].id \in IDsOf(doing[c].model)
        <4>1. [model |-> doing[c].model, id |-> doing[c].id] \in Copies
          BY <2>1 DEF Doings, Copies
        <4> QED
          BY <1>3, <2>1, <3>1, <4>1 DEF GetManifest
      <3>2. CASE doing[c].id \notin IDsOf(doing[c].model)
        <4>1. copy' = [copy EXCEPT ![c] = copy[c]]
          BY <1>3, <2>1, <3>2 DEF GetManifest
        <4> QED
          BY <2>1, <4>1
      <3> QED
        BY <3>1, <3>2
    <2>3. /\ doing' = [doing EXCEPT ![c] = Nothing]
          /\ UNCHANGED <<manifests, nextID, written, deleted, raced>>
      BY <1>3 DEF GetManifest
    <2> QED
      BY <2>2, <2>3, StoreForgetIInv
  <1>4. ASSUME NEW c \in Clients, NEW id \in 1..MaxIDs, UpdateCheck(c, id) PROVE StoreIInv'
    <2>1. /\ Found(copy[c].model, id) /\ copy[c].id = id
          /\ doing' = [doing EXCEPT ![c] = [op |-> "update", model |-> copy[c].model, id |-> id]]
          /\ UNCHANGED <<manifests, nextID, copy, written, deleted, raced>>
      BY <1>4 DEF UpdateCheck, IsLatest
    <2>2. copy[c].model \in Models
      <3>1. PICK x \in manifests : x.model = copy[c].model
        BY <2>1 DEF Found, IDsOf
      <3> QED
        BY <3>1 DEF StoreIInv, StoreTypes
    <2> QED
      BY <2>1, <2>2, LookupIInv
  <1>5. ASSUME NEW c \in Clients, NEW outcome \in Outcomes, UpdateWrite(c, outcome) PROVE StoreIInv'
    BY <1>5, UpdateWriteIInv
  <1>6. ASSUME NEW c \in Clients, NEW flushed \in BOOLEAN, DeleteWrite(c, flushed) PROVE StoreIInv'
    BY <1>6, DeleteWriteIInv
  <1>7. ASSUME NEW c \in Clients, Crash(c) PROVE StoreIInv'
    <2>1. NoModel \in Copies /\ NoModel.id < nextID
      BY DEF NoModel, Copies, StoreIInv, StoreTypes
    <2>2. /\ doing' = [doing EXCEPT ![c] = Nothing] /\ copy' = [copy EXCEPT ![c] = NoModel]
          /\ UNCHANGED <<manifests, nextID, written, deleted, raced>>
      BY <1>7 DEF Crash
    <2> QED
      BY <2>1, <2>2, StoreForgetIInv
  <1>8. CASE UNCHANGED storeVars
    BY <1>8 DEF storeVars, StoreIInv, StoreTypes, Identified, OneManifestUnlessRaced, NotLostUntilDeleted,
                IDsOf
  <1> QED
    BY <1>1, <1>2, <1>3, <1>4, <1>5, <1>6, <1>7, <1>8 DEF StoreNext

(* Only Put and Update make versions: of nothing, or of the latest, or the *)
(* model is known to have been raced for.                                  *)
LEMMA StepBuildsOnLatest ==
  ASSUME StoreIInv, [StoreNext]_storeVars, NEW x \in manifests', x \notin manifests
  PROVE  x.from = 0 \/ x.from \in IDsOf(x.model) \/ x.model \in raced'
  <1>1. ASSUME NEW c \in Clients, NEW m \in Models, NEW flushed \in BOOLEAN, Put(c, m, flushed)
        PROVE  x.from = 0
    BY <1>1 DEF Put, Manifest
  <1>2. ASSUME NEW c \in Clients, NEW outcome \in Outcomes, UpdateWrite(c, outcome)
        PROVE  x.from \in IDsOf(x.model) \/ x.model \in raced'
    <2>1. x = [id |-> nextID, model |-> copy[c].model, from |-> copy[c].id]
      BY <1>2 DEF UpdateWrite, Replaced, Manifest
    <2>2. copy[c].id = doing[c].id
      BY <1>2 DEF StoreIInv, Identified, UpdateWrite
    <2>3. Found(copy[c].model, doing[c].id) \/ copy[c].model \in raced'
      BY <1>2 DEF UpdateWrite
    <2> QED
      BY <2>1, <2>2, <2>3 DEF Found
  <1>3. ASSUME NEW c \in Clients, NEW flushed \in BOOLEAN, DeleteWrite(c, flushed)
        PROVE  FALSE
    BY <1>3 DEF DeleteWrite
  <1> QED
    BY <1>1, <1>2, <1>3 DEF StoreNext, storeVars, GetLookup, DeleteLookup, GetManifest,
                            UpdateCheck, Crash

(* The model store keeps its type: IDs are given once, and what a client   *)
(* holds was given before.                                                 *)
THEOREM StoreTypeCorrect == StoreSpec => []StoreTypeOK
  <1>1. ASSUME StoreIInv PROVE StoreTypeOK
    <2>1. nextID \in 1..MaxIDs + 1 /\ nextID \in Nat /\ MaxIDs \in Nat
      BY <1>1, StoreAssumption DEF StoreIInv, StoreTypes
    <2>2. \A x \in manifests : x.id \in 1..nextID - 1 /\ x.model \in Models /\ x.from \in 0..MaxIDs
      BY <1>1, <2>1 DEF StoreIInv, StoreTypes
    <2>3. \A c \in Clients : copy[c].id \in 0..nextID - 1 /\ doing[c].id \in 0..nextID - 1
      BY <1>1, <2>1 DEF StoreIInv, StoreTypes, Copies, Doings
    <2> QED
      BY <1>1, <2>1, <2>2, <2>3 DEF StoreIInv, StoreTypes, Identified, StoreTypeOK
  <1> QED
    BY <1>1, StoreInitIInv, StoreStepIInv, PTL DEF StoreSpec

(* A model has one manifest, whatever clients do, and whatever fails:      *)
(* unless one has written on top of what another stored after its lookup.  *)
THEOREM OneManifest == StoreSpec => []OneManifestUnlessRaced
  <1>1. StoreIInv => OneManifestUnlessRaced
    BY DEF StoreIInv
  <1> QED
    BY <1>1, StoreInitIInv, StoreStepIInv, PTL DEF StoreSpec

(* A model that was put is there until a call of Delete removes it.        *)
THEOREM NotLost == StoreSpec => []NotLostUntilDeleted
  <1>1. StoreIInv => NotLostUntilDeleted
    BY DEF StoreIInv
  <1> QED
    BY <1>1, StoreInitIInv, StoreStepIInv, PTL DEF StoreSpec

(* No update replaces a version that its client has not seen, unless it    *)
(* races with another call.                                                *)
THEOREM BuildsOnLatest == StoreSpec => UpdatesBuildOnLatest
  <1>1. StoreIInv /\ [StoreNext]_storeVars =>
          [\A x \in manifests' \ manifests :
             x.from = 0 \/ x.from \in IDsOf(x.model) \/ x.model \in raced']_storeVars
    BY StepBuildsOnLatest
  <1> QED
    BY <1>1, StoreInitIInv, StoreStepIInv, PTL DEF StoreSpec, UpdatesBuildOnLatest

-----------------------------------------------------------------------------
(* The parts side by side: a part that another step leaves alone stutters.*)

LEMMA PartsAreTheirSpecs ==
  Spec => /\ ReaderSpec /\ PagerSpec /\ CacheSpec /\ ConnSpec /\ StoreSpec /\ RestoreSpec
  <1>1. Init => ReaderInit /\ PagerInit /\ CacheInit /\ ConnInit /\ StoreInit /\ RestoreInit
    BY DEF Init
  <1>2. [Next]_partsVars => [ReaderNext]_readerVars
    BY DEF Next, Reader, Pager, Cache, Conn, Store, Restore, partsVars
  <1>3. [Next]_partsVars => [PagerNext]_pagerVars
    BY DEF Next, Reader, Pager, Cache, Conn, Store, Restore, partsVars
  <1>4. [Next]_partsVars => [CacheNext]_cacheVars
    BY DEF Next, Reader, Pager, Cache, Conn, Store, Restore, partsVars
  <1>5. [Next]_partsVars => [ConnNext]_connVars
    BY DEF Next, Reader, Pager, Cache, Conn, Store, Restore, partsVars
  <1>6. [Next]_partsVars => [StoreNext]_storeVars
    BY DEF Next, Reader, Pager, Cache, Conn, Store, Restore, partsVars
  <1>7. [Next]_partsVars => [RestoreNext]_restoreVars
    BY DEF Next, Reader, Pager, Cache, Conn, Store, Restore, partsVars
  <1> QED
    BY <1>1, <1>2, <1>3, <1>4, <1>5, <1>6, <1>7, PTL
    DEF Spec, ReaderSpec, PagerSpec, CacheSpec, ConnSpec, StoreSpec, RestoreSpec

(* The readers, the repository's connections and models and the restore    *)
(* keep their types, whichever of them moves.                              *)
THEOREM PartsTypeCorrect == Spec => []TypeOK
  <1>1. TypeOK <=> /\ ReaderTypeOK /\ PagerTypeOK /\ CacheTypeOK
                   /\ ConnTypeOK /\ StoreTypeOK /\ RestoreTypeOK
    BY DEF TypeOK
  <1> QED
    BY <1>1, PartsAreTheirSpecs, ReaderTypeCorrect, PagerTypeCorrect,
       CacheTypeCorrect, ConnTypeCorrect, StoreTypeCorrect, RestoreTypeCorrect, PTL

(* So they do with what each of them promises, whichever of them moves.    *)
THEOREM PartsAreSafe ==
  Spec => [](/\ ContentInOrder
             /\ TokenOnlyWithAllPages /\ AnswerIsOneEnumeration
             /\ ServedURLsAreCurrent /\ NotFoundOnlyIfGone
             /\ OpenWhileHeld /\ InitializedIsWhole /\ RetentionIsAsAsked
             /\ OneManifestUnlessRaced /\ NotLostUntilDeleted
             /\ RestoredOrReported /\ OriginalsUnlessReplaced)
  BY PartsAreTheirSpecs, ReadsContentInOrder, TokenWithAllPages, AnswerOfOneEnumeration,
     ServesCurrentURLs, ReportsGoneOnlyIfGone, HandleIsOpenWhileHeld, InitializesWholly,
     RetentionAsAsked, OneManifest, NotLost, RestoresOrReports, RemovesOnlyToReplace, PTL
=============================================================================
