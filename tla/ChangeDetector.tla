--------------------------- MODULE ChangeDetector ---------------------------
(***************************************************************************)
(* The pipeline's change detector: change_detector/consumer.py and         *)
(* detector.py.  One process runs a cycle for a scraper-cycle event and,   *)
(* in the same event loop, a fallback cycle when no event came for a long  *)
(* time.  A cycle reads the ids, the active and the delisted rows in three *)
(* queries, marks rows, compares prices with price_history, and publishes  *)
(* drops; every await lets the other cycle and the normalizer in.          *)
(***************************************************************************)
EXTENDS ListingRows

CONSTANTS
  Window,        \* cycle_window_hours
  Fallback,      \* fallback_interval_h
  Seeded,        \* listings whose price_history somebody else began
  CycleRetries,  \* KafkaConfig.retry_limit
  MaxCycles,     \* bound of the model: scraper-cycle events
  MaxErrors      \* bound of the model: failed calls and restarts of the process

Tasks == {"message", "fallback"}

VARIABLES
  cycle,      \* what each of the two tasks is doing
  event,      \* the scraper-cycle event being handled, its attempt
  events,     \* how many were published
  lastEvent,  \* _last_event_at
  loopAlive,  \* _fallback_loop has not ended with an exception
  history,    \* price_history of each listing, in insertion order
  drops,      \* price-changes: the rows of price_history that were announced
  touched,    \* history: somebody else wrote to the table during the cycle
  errors,
  kills

detector == <<cycle, event, events, lastEvent, loopAlive, history, drops, touched, errors, kills>>

NoEvent == [at |-> 0, ids |-> {}, attempt |-> 0]
IdleCycle == [stage |-> "idle", at |-> 0, ids |-> {}, active |-> <<>>, delisted |-> {},
              previous |-> <<>>, todo |-> {}, row |-> 0]

DetectorInit ==
  /\ cycle = [t \in Tasks |-> IdleCycle]
  /\ event = NoEvent
  /\ events = 0
  /\ lastEvent = 0
  /\ loopAlive = TRUE
  /\ history = [l \in Listings |-> <<>>]
  /\ drops = {}
  /\ touched = [t \in Tasks |-> FALSE]
  /\ errors = 0
  /\ kills = 0

At(t, stage) == cycle[t].stage = stage
Other(t)     == CHOOSE u \in Tasks : u # t
Enter(t, stage) == cycle' = [cycle EXCEPT ![t].stage = stage]
Touch(ts)    == touched' = [t \in Tasks |-> touched[t] \/ (t \in ts /\ cycle[t].stage # "idle")]

\* A row of price_history, written by somebody else: nothing in the repository
\* but the tests inserts the first one.
SeedHistory(l) ==
  /\ l \in Seeded \cap Stored
  /\ history[l] = <<>>
  /\ history' = [history EXCEPT ![l] = <<[old |-> 0, new |-> rows[l].price, at |-> now]>>]
  /\ UNCHANGED <<cycle, event, events, lastEvent, loopAlive, drops, touched, errors, kills, table>>

-----------------------------------------------------------------------------
(* consumer.py                                                              *)

StartCycle(t, at, ids) ==
  /\ cycle' = [cycle EXCEPT ![t] = [IdleCycle EXCEPT !.stage = "ids", !.at = at, !.ids = ids]]
  /\ touched' = [touched EXCEPT ![t] = FALSE]

\* handle_message: an event names the rows of its cycle, or none, and its
\* completed_at may be older than the clock.
HandleMessage(at, ids) ==
  /\ events < MaxCycles
  /\ event = NoEvent
  /\ at \in {now, now - 1} /\ at >= 0
  /\ ids \in {{}, Stored}
  /\ events' = events + 1
  /\ event' = [at |-> at, ids |-> ids, attempt |-> 1]
  /\ lastEvent' = now
  /\ StartCycle("message", at, ids)
  /\ UNCHANGED <<loopAlive, history, drops, errors, kills, table>>

\* _fallback_loop and _run_fallback_cycles: no event for fallback_interval_h, and an
\* active listing that was not seen for as long.
FallbackDue == loopAlive /\ At("fallback", "idle") /\ now - lastEvent >= Fallback
Overdue     == {l \in Stored : rows[l].status = "active" /\ rows[l].seen < now - Fallback}

RunFallbackCycle ==
  /\ FallbackDue
  /\ Overdue # {}
  /\ StartCycle("fallback", now, {})
  /\ UNCHANGED <<event, events, lastEvent, loopAlive, history, drops, errors, kills, table>>

FallbackNothing ==
  /\ FallbackDue
  /\ Overdue = {}
  /\ lastEvent' = now
  /\ UNCHANGED <<cycle, event, events, loopAlive, history, drops, touched, errors, kills, table>>

\* run_cycle returned: the message is committed, or the fallback waits again.
CycleDone(t) ==
  /\ cycle' = [cycle EXCEPT ![t] = IdleCycle]
  /\ IF t = "message"
     THEN event' = NoEvent /\ UNCHANGED lastEvent
     ELSE lastEvent' = now /\ UNCHANGED event
  /\ touched' = [touched EXCEPT ![t] = FALSE]

\* A call of the cycle fails.  The message is retried from the start, and given up
\* after the last attempt; the exception of a fallback cycle ends _fallback_loop.
CycleError(t) ==
  /\ cycle[t].stage # "idle"
  /\ errors + kills < MaxErrors
  /\ errors' = errors + 1
  /\ IF t = "message" /\ event.attempt < CycleRetries
     THEN /\ event' = [event EXCEPT !.attempt = @ + 1]
          /\ lastEvent' = now
          /\ StartCycle(t, event.at, event.ids)
          /\ UNCHANGED loopAlive
     ELSE /\ cycle' = [cycle EXCEPT ![t] = IdleCycle]
          /\ event' = IF t = "message" THEN NoEvent ELSE event
          /\ loopAlive' = (loopAlive /\ t = "message")
          /\ touched' = [touched EXCEPT ![t] = FALSE]
          /\ UNCHANGED lastEvent
  /\ UNCHANGED <<events, history, drops, kills, table>>

\* The pod is killed in the middle of whatever its tasks do, or consume() ends the
\* process because a commit or a dead-letter publish failed.  The process starts anew,
\* and the event, never committed, is fetched again - unless the group has no
\* committed offset yet and begins at the end of the topic.
Killed ==
  /\ errors + kills < MaxErrors
  /\ kills' = kills + 1
  /\ cycle' = [t \in Tasks |-> IdleCycle]
  /\ event' = NoEvent \/ (event # NoEvent /\ event' = [event EXCEPT !.attempt = 1])
  /\ lastEvent' = now
  /\ loopAlive' = TRUE
  /\ touched' = [t \in Tasks |-> FALSE]
  /\ UNCHANGED <<events, history, drops, errors, table>>

Redelivered ==
  /\ event # NoEvent
  /\ At("message", "idle")
  /\ lastEvent' = now
  /\ StartCycle("message", event.at, event.ids)
  /\ UNCHANGED <<event, events, loopAlive, history, drops, errors, kills, table>>

-----------------------------------------------------------------------------
(* detector.py: which rows a cycle marks                                    *)

\* _resolve_cycle_listing_ids: the ids of the event, or the rows last seen within
\* the window before completed_at.
ResolveCycleIds(t) ==
  LET at == cycle[t].at
      inWindow == {l \in Stored : rows[l].seen >= at - Window /\ rows[l].seen <= at}
  IN  /\ At(t, "ids")
      /\ cycle' = [cycle EXCEPT ![t].stage = "active",
                                ![t].ids = IF @ = {} THEN inWindow ELSE @]
      /\ UNCHANGED <<event, events, lastEvent, loopAlive, history, drops, touched, errors, kills, table>>

WithStatus(s) == {l \in Stored : rows[l].status = s}

\* _fetch_listing_states, for the active and then for the delisted rows.
FetchActive(t) ==
  /\ At(t, "active")
  /\ cycle' = [cycle EXCEPT ![t].stage = "delisted",
                            ![t].active = [l \in WithStatus("active") |->
                                             [price |-> rows[l].price, text |-> rows[l].text]]]
  /\ UNCHANGED <<event, events, lastEvent, loopAlive, history, drops, touched, errors, kills, table>>

FetchDelisted(t) ==
  /\ At(t, "delisted")
  /\ cycle' = [cycle EXCEPT ![t].stage = "delist", ![t].delisted = WithStatus("delisted")]
  /\ UNCHANGED <<event, events, lastEvent, loopAlive, history, drops, touched, errors, kills, table>>

Active(t)   == DOMAIN cycle[t].active
Marked(ls, status) ==
  rows' = [l \in Listings |-> IF l \in ls THEN [rows[l] EXCEPT !.status = status] ELSE rows[l]]

\* Mutated form: the rows of the cycle are delisted.
MarkDelistedSeen(t) ==
  LET ls == Active(t) \cap cycle[t].ids
  IN  /\ At(t, "delist")
      /\ Marked(ls, "delisted")
      /\ Enter(t, "relist")
      /\ Touch(IF ls = {} THEN {} ELSE {Other(t)})
      /\ UNCHANGED <<event, events, lastEvent, loopAlive, history, drops, errors, kills, upserts, normalized, now>>

\* _mark_delisted: active rows that the cycle did not see, whatever they are now.
MarkDelisted(t) ==
  LET ls == Active(t) \ cycle[t].ids
  IN  /\ At(t, "delist")
      /\ Marked(ls, "delisted")
      /\ Enter(t, "relist")
      /\ Touch(IF ls = {} THEN {} ELSE {Other(t)})
      /\ UNCHANGED <<event, events, lastEvent, loopAlive, history, drops, errors, kills, upserts, normalized, now>>

\* _mark_relisted: delisted rows that the cycle saw.
MarkRelisted(t) ==
  LET ls == cycle[t].delisted \cap cycle[t].ids
  IN  /\ At(t, "relist")
      /\ Marked(ls, "active")
      /\ cycle' = [cycle EXCEPT ![t].stage = "previous", ![t].todo = Active(t) \cap cycle[t].ids]
      /\ Touch(IF ls = {} THEN {} ELSE {Other(t)})
      /\ UNCHANGED <<event, events, lastEvent, loopAlive, history, drops, errors, kills, upserts, normalized, now>>

-----------------------------------------------------------------------------
(* detector.py: prices                                                      *)

\* The rows of price_history that ORDER BY recorded_at DESC may put first.
Latest(l) ==
  {i \in DOMAIN history[l] : \A j \in DOMAIN history[l] : history[l][j].at <= history[l][i].at}

\* _fetch_previous_prices, for all rows to check at once.
FetchPreviousPrices(t) ==
  LET known == {l \in cycle[t].todo : history[l] # <<>>}
  IN  /\ At(t, "previous")
      /\ \E pick \in [known -> UNION {Latest(l) : l \in known}] :
           /\ \A l \in known : pick[l] \in Latest(l)
           /\ cycle' = [cycle EXCEPT ![t].stage = "price",
                                     ![t].previous = [l \in known |-> history[l][pick[l]].new]]
      /\ UNCHANGED <<event, events, lastEvent, loopAlive, history, drops, touched, errors, kills, table>>

Changed(t) == {l \in cycle[t].todo :
                 l \in DOMAIN cycle[t].previous /\ cycle[t].previous[l] # cycle[t].active[l].price}

\* _detect_price_changes takes the rows in any order.  A row without history, or
\* with the price of its last row, is skipped.
InsertHistory(t) ==
  /\ At(t, "price")
  /\ \E l \in Changed(t) :
       /\ history' = [history EXCEPT ![l] = Append(@,
            [old |-> cycle[t].previous[l], new |-> cycle[t].active[l].price, at |-> cycle[t].at])]
       /\ cycle' = [cycle EXCEPT ![t].stage = "update", ![t].row = l]
  /\ UNCHANGED <<event, events, lastEvent, loopAlive, drops, touched, errors, kills, table>>

\* The row gets the price that was read with the active rows, and the cycle goes on
\* to publish a drop.
UpdatePrice(t) ==
  LET l == cycle[t].row
      price == cycle[t].active[l].price
  IN  /\ At(t, "update")
      /\ rows' = [rows EXCEPT ![l].price = price]
      /\ cycle' = IF price < cycle[t].previous[l]
                  THEN [cycle EXCEPT ![t].stage = "publish"]
                  ELSE [cycle EXCEPT ![t].stage = "price", ![t].todo = @ \ {l}]
      /\ UNCHANGED <<event, events, lastEvent, loopAlive, history, drops, touched, errors, kills, upserts, normalized, now>>

Drop(l, entry) == [listing |-> l, old |-> entry.old, new |-> entry.new, at |-> entry.at]

\* Mutated form: the failure of a publish is ignored.
PublishDropLost(t) ==
  LET l == cycle[t].row
  IN  /\ At(t, "publish")
      /\ UNCHANGED drops
      /\ cycle' = [cycle EXCEPT ![t].stage = "price", ![t].todo = @ \ {l}]
      /\ UNCHANGED <<event, events, lastEvent, loopAlive, history, touched, errors, kills, table>>

PublishDrop(t) ==
  LET l == cycle[t].row
  IN  /\ At(t, "publish")
      /\ drops' = drops \cup {Drop(l, [old |-> cycle[t].previous[l],
                                       new |-> cycle[t].active[l].price, at |-> cycle[t].at])}
      /\ cycle' = [cycle EXCEPT ![t].stage = "price", ![t].todo = @ \ {l}]
      /\ UNCHANGED <<event, events, lastEvent, loopAlive, history, touched, errors, kills, table>>

PricesDone(t) ==
  /\ At(t, "price")
  /\ Changed(t) = {}
  /\ cycle' = [cycle EXCEPT ![t].stage = "text",
                            ![t].todo = Active(t) \cap cycle[t].ids,
                            ![t].row = 0]
  /\ UNCHANGED <<event, events, lastEvent, loopAlive, history, drops, touched, errors, kills, table>>

-----------------------------------------------------------------------------
(* detector.py: descriptions                                                *)

\* _detect_description_changes reads each row again; when the text is no longer the
\* one that was read with the active rows, it writes back what it just read.
ReadText(t) ==
  /\ At(t, "text")
  /\ \E l \in cycle[t].todo :
       IF rows[l].text = cycle[t].active[l].text
       THEN cycle' = [cycle EXCEPT ![t].todo = @ \ {l}]
       ELSE cycle' = [cycle EXCEPT ![t].stage = "writeText", ![t].row = [listing |-> l, text |-> rows[l].text]]
  /\ UNCHANGED <<event, events, lastEvent, loopAlive, history, drops, touched, errors, kills, table>>

WriteText(t) ==
  LET w == cycle[t].row
  IN  /\ At(t, "writeText")
      /\ rows' = [rows EXCEPT ![w.listing].text = w.text]
      /\ cycle' = [cycle EXCEPT ![t].stage = "text", ![t].todo = @ \ {w.listing}, ![t].row = 0]
      /\ UNCHANGED <<event, events, lastEvent, loopAlive, history, drops, touched, errors, kills, upserts, normalized, now>>

TextsDone(t) ==
  /\ At(t, "text")
  /\ cycle[t].todo = {}
  /\ CycleDone(t)
  /\ UNCHANGED <<events, loopAlive, history, drops, errors, kills, table>>

RunCycle(t) ==
  \/ ResolveCycleIds(t) \/ FetchActive(t) \/ FetchDelisted(t)
  \/ MarkDelisted(t) \/ MarkRelisted(t)
  \/ FetchPreviousPrices(t) \/ InsertHistory(t) \/ UpdatePrice(t) \/ PublishDrop(t) \/ PricesDone(t)
  \/ ReadText(t) \/ WriteText(t) \/ TextsDone(t)
  \/ CycleError(t)

DetectorStep ==
  \/ \E l \in Listings : SeedHistory(l)
  \/ \E at \in 0..MaxTime, ids \in {{}, Stored} : HandleMessage(at, ids)
  \/ RunFallbackCycle \/ FallbackNothing \/ Killed \/ Redelivered
  \/ \E t \in Tasks : RunCycle(t)

-----------------------------------------------------------------------------
(* Properties                                                               *)

\* A cycle that nobody disturbed leaves active exactly the listings it saw: after
\* its two marks no seen listing is delisted and no unseen one is active.  A cycle
\* that overlaps a scrape or the other cycle gives no such guarantee.
UndisturbedCycleExact ==
  \A t \in Tasks :
    At(t, "previous") /\ ~touched[t] =>
      \A l \in Stored : rows[l].status = "active" <=> l \in cycle[t].ids

\* A price drop that entered price_history was announced on price-changes, is about
\* to be, or an error or a kill of the process fell between the two: the next cycle
\* finds history and row equal and is silent.  An error loses at most one drop, and a
\* kill at most one of each task.
Announcing(l, entry) ==
  \E t \in Tasks :
    /\ cycle[t].stage \in {"update", "publish"} /\ cycle[t].row = l
    /\ entry = [old |-> cycle[t].previous[l], new |-> cycle[t].active[l].price, at |-> cycle[t].at]

Unannounced ==
  {e \in UNION {{l} \X DOMAIN history[l] : l \in Listings} :
     LET l == e[1]
         entry == history[l][e[2]]
     IN  /\ entry.new < entry.old
         /\ Drop(l, entry) \notin drops
         /\ ~Announcing(l, entry)}

LostDropNeedsFault == Cardinality(Unannounced) <= errors + 2 * kills

=============================================================================
