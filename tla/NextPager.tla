------------------------------ MODULE NextPager ------------------------------
(***************************************************************************)
(* GetAddedAndRemovedItemIDs: a goroutine that fetches the pages of a delta*)
(* enumeration, or of a plain one where there can be no delta, and its     *)
(* consumer, which gathers what was added and removed up to a limit, over  *)
(* a channel without a buffer.                                             *)
(*                                                                         *)
(*   pkg/services/m365/api/pagers/pagers.go                                *)
(*                                                                         *)
(* A page is a set of records: items that were added or removed.           *)
(***************************************************************************)
EXTENDS Integers, Sequences, FiniteSets

CONSTANTS
  PageItems,   \* IDs
  DeltaPages,  \* what delta enumerations answer to a token: sequences of pages
  AllPages,    \* what they, and plain ones, answer without one
  itemLimits,  \* 0 for no limit
  MaxInvalid   \* bound: answers that the delta token is not valid

Records == [id : PageItems, removed : BOOLEAN]

ASSUME PagerAssumption ==
  /\ IsFiniteSet(PageItems)
  /\ itemLimits \subseteq Nat /\ MaxInvalid \in Nat
  /\ DeltaPages \cup AllPages \subseteq Seq(SUBSET Records) \ {<<>>}

VARIABLES
  withToken, \* the pages of an enumeration with the previous token
  fromStart, \* those of one without
  limit,     \* itemLimit
  producer,  \* the goroutine, see Producer
  consumer,  \* the call, see Consumer
  cancelled, \* npr.cancel is closed
  stopped,   \* the context is done
  invalid

pagerVars ==
  <<withToken, fromStart, limit, producer, consumer, cancelled, stopped, invalid>>

inputs == <<withToken, fromStart, limit>>

(* A goroutine of kind "delta" or "plain", about to get a page.  There is a*)
(* token unless invalidPrevDelta; url is whether newDeltaLink is set, and  *)
(* taken the pages that were written, of this token.                       *)
Producer(kind, token) ==
  [step |-> "get", kind |-> kind, token |-> token, taken |-> 0, page |-> {},
   reset |-> FALSE, url |-> FALSE, err |-> "none"]

Consumer ==
  [step |-> "loop", added |-> {}, removed |-> {}, url |-> FALSE, reset |-> FALSE]

PagerInit ==
  /\ withToken \in DeltaPages
  /\ fromStart \in AllPages
  /\ limit \in itemLimits
  /\ \E kind \in {"delta", "plain"}, token \in BOOLEAN :
       /\ token => kind = "delta"
       /\ producer = Producer(kind, token)
  /\ consumer = Consumer
  /\ cancelled = FALSE /\ stopped = FALSE
  /\ invalid = 0

Stop ==
  /\ ~stopped
  /\ consumer.step \notin {"ok", "error"}
  /\ stopped' = TRUE
  /\ UNCHANGED <<inputs, producer, consumer, cancelled, invalid>>

-----------------------------------------------------------------------------
(* DeltaEnumerateItems and EnumerateItems.                                 *)

PagesOf(p) == IF p.token THEN withToken ELSE fromStart

(* Mutant: the delta link of a page is kept before the page is written.    *)
Fetched_KeepsURL(p) ==
  [p EXCEPT !.step = "write", !.page = PagesOf(p)[p.taken + 1], !.reset = FALSE,
            !.url = p.kind = "delta" /\ p.taken + 1 = Len(PagesOf(p))]

Fetched(p) ==
  [p EXCEPT !.step = "write", !.page = PagesOf(p)[p.taken + 1], !.reset = FALSE]

GetPage ==
  /\ producer.step = "get"
  /\ producer' = Fetched(producer)
  /\ UNCHANGED <<inputs, consumer, cancelled, stopped, invalid>>

(* The pager forgets where it was, and the consumer is told so first.      *)
Reset(p) == [p EXCEPT !.step = "write", !.page = {}, !.reset = TRUE, !.taken = 0]

(* It starts over without the token.                                       *)
InvalidDelta ==
  /\ producer.step = "get" /\ producer.kind = "delta"
  /\ invalid < MaxInvalid
  /\ invalid' = invalid + 1
  /\ producer' = [Reset(producer) EXCEPT !.token = FALSE]
  /\ UNCHANGED <<inputs, consumer, cancelled, stopped>>

(* The reset is written, and then the enumeration ends with the error.     *)
DeltaNotSupported ==
  /\ producer.step = "get" /\ producer.kind = "delta"
  /\ producer' = [Reset(producer) EXCEPT !.err = "not supported"]
  /\ UNCHANGED <<inputs, consumer, cancelled, stopped, invalid>>

(* The deferred calls: the result is there before the channels close.      *)
Closed(p, err) == [p EXCEPT !.step = "closed", !.err = err]

GetPageError ==
  /\ producer.step = "get"
  /\ producer' = Closed(producer, "error")
  /\ UNCHANGED <<inputs, consumer, cancelled, stopped, invalid>>

(* Mutant: a producer that was cancelled waits for its consumer.           *)
MayStop_OnlyDone(err) == stopped /\ err = "error"

(* The cases of the select in writeNextPage, other than the consumer.      *)
MayStop(err) == \/ cancelled /\ err = "none"
                \/ stopped /\ err = "error"

StopWriting(err) ==
  /\ producer.step = "write"
  /\ MayStop(err)
  /\ producer' = Closed(producer, err)
  /\ UNCHANGED <<inputs, consumer, cancelled, stopped, invalid>>

(* The consumer has taken a page.                                          *)
Written(p) ==
  IF p.err # "none" THEN Closed(p, p.err)
  ELSE IF p.reset THEN [p EXCEPT !.step = "get"]
  ELSE LET last == p.taken + 1 = Len(PagesOf(p))
       IN  [p EXCEPT !.step = IF last THEN "closed" ELSE "get",
                     !.taken = @ + 1,
                     !.url = last /\ p.kind = "delta"]

ProducerStep ==
  \/ GetPage \/ InvalidDelta \/ DeltaNotSupported \/ GetPageError
  \/ \E err \in {"none", "error"} : StopWriting(err)

-----------------------------------------------------------------------------
(* batchWithMaxItemCount.                                                  *)

Full(added) == limit > 0 /\ Cardinality(added) >= limit

Gone(page)  == {x.id : x \in {y \in page : y.removed}}
There(page) == {x.id : x \in {y \in page : ~y.removed}}

(* The items of a page are added in any order until the limit is reached.  *)
UpToLimit(added, S, page) ==
  /\ S \subseteq There(page)
  /\ IF Full(added \cup S) THEN Cardinality(added \cup S) = limit ELSE S = There(page)

(* The top of the loop: nothing more is taken when the context is done,    *)
(* and the producer is left to see that itself.                            *)
NextOrStop ==
  /\ consumer.step = "loop"
  /\ consumer' = [consumer EXCEPT !.step = IF stopped THEN "error" ELSE "next"]
  /\ UNCHANGED <<inputs, producer, cancelled, stopped, invalid>>

(* Mutant: what was gathered before a reset is kept.                       *)
SinceReset_All(S) == S

SinceReset(S) == IF producer.reset THEN {} ELSE S

Take(S) ==
  /\ consumer.step = "next"
  /\ producer.step = "write"
  /\ LET added == SinceReset(consumer.added)
     IN  /\ UpToLimit(added, S, producer.page)
         /\ consumer' = [consumer EXCEPT
              !.added = added \cup S,
              !.removed = SinceReset(@) \cup Gone(producer.page),
              !.step = IF Full(added \cup S) THEN "results" ELSE "loop"]
         /\ cancelled' = Full(added \cup S)
  /\ producer' = Written(producer)
  /\ UNCHANGED <<inputs, stopped, invalid>>

(* getAddedAndRemoved fails on a page.                                     *)
TakeFails ==
  /\ consumer.step = "next"
  /\ producer.step = "write"
  /\ producer' = Written(producer)
  /\ consumer' = [consumer EXCEPT !.step = "error"]
  /\ cancelled' = TRUE
  /\ UNCHANGED <<inputs, stopped, invalid>>

NoMorePages ==
  /\ consumer.step = "next"
  /\ producer.step = "closed"
  /\ consumer' = [consumer EXCEPT !.step = "results"]
  /\ cancelled' = TRUE
  /\ UNCHANGED <<inputs, producer, stopped, invalid>>

(* Results, and what GetAddedAndRemovedItemIDs makes of them: without      *)
(* delta queries it starts over with a plain enumeration.                  *)
Results ==
  /\ consumer.step = "results"
  /\ producer.step = "closed"
  /\ IF producer.kind = "delta" /\ producer.err = "not supported"
     THEN /\ consumer' = Consumer
          /\ producer' = Producer("plain", FALSE)
          /\ cancelled' = FALSE
     ELSE /\ consumer' = [consumer EXCEPT
               !.step = IF producer.err = "none" THEN "ok" ELSE "error",
               !.url = producer.url,
               !.reset = ~producer.token]
          /\ UNCHANGED <<producer, cancelled>>
  /\ UNCHANGED <<inputs, stopped, invalid>>

ConsumerStep ==
  \/ NextOrStop
  \/ \E S \in SUBSET PageItems : Take(S)
  \/ TakeFails \/ NoMorePages \/ Results

PagerNext == Stop \/ ProducerStep \/ ConsumerStep

PagerSpec == PagerInit /\ [][PagerNext]_pagerVars

-----------------------------------------------------------------------------
(* Properties.                                                             *)

PagerTypeOK ==
  /\ producer.step \in {"get", "write", "closed"}
  /\ producer.taken \in 0..Len(PagesOf(producer))
  /\ producer.step = "get" => producer.taken < Len(PagesOf(producer))
  /\ consumer.step \in {"loop", "next", "results", "ok", "error"}
  /\ consumer.added \subseteq PageItems /\ consumer.removed \subseteq PageItems
  /\ limit > 0 => Cardinality(consumer.added) <= limit
  /\ cancelled \in BOOLEAN /\ stopped \in BOOLEAN
  /\ invalid \in 0..MaxInvalid

(* Without a limit the answer is what one enumeration has reported, all of *)
(* it and nothing of an earlier one: relative to the token the caller gave,*)
(* or to nothing if it says that there was a reset.                        *)
AnswerIsOneEnumeration ==
  consumer.step = "ok" /\ limit = 0 =>
    LET pages == IF consumer.reset THEN fromStart ELSE withToken
    IN  /\ consumer.added = UNION {There(pages[i]) : i \in DOMAIN pages}
        /\ consumer.removed = UNION {Gone(pages[i]) : i \in DOMAIN pages}

(* The caller is given a new token only if it was given every page that    *)
(* the token stands for, also when a limit has stopped the enumeration.    *)
TokenOnlyWithAllPages ==
  consumer.step = "ok" /\ consumer.url => producer.taken = Len(PagesOf(producer))

(* The call returns and its goroutine ends, whichever of them stops first. *)
CallAndGoroutineEnd ==
  consumer.step \in {"next", "error"}
    ~> consumer.step \in {"ok", "error"} /\ producer.step = "closed"
=============================================================================
