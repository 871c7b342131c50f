---------------------------- MODULE ChatSession ----------------------------
(***************************************************************************)
(* The ai-chat service: servicer.py, session.py and subscription.py.       *)
(*                                                                         *)
(* A conversation lives in Redis: a hash with its owner, its turn count    *)
(* and the criteria so far, and a list with its last messages.  Both die a *)
(* day after the last write.  A Chat stream takes one request after the    *)
(* other, but a user may have several streams, on one conversation too,    *)
(* and the steps of a turn interleave with theirs: the limits are checked  *)
(* before the model answers, and counted when the turn is stored.  The     *)
(* reads before the check are one step, and so is each method of           *)
(* session.py, although it makes several calls to Redis.                   *)
(***************************************************************************)
EXTENDS Integers, Sequences, FiniteSets, SequencesExt

CONSTANTS
  Users,
  Streams,        \* Chat calls open at a time
  UserOf,         \* the x-user-id of each
  Conversations,  \* conversation ids
  Nothing,
  ConvLimit,      \* TIER_LIMITS of the users' tier: conversations a day
  TurnLimit,      \* ... and turns of a conversation
  Criteria,       \* what an answer's JSON block may say
  Window,         \* MESSAGE_WINDOW_SIZE
  MaxDisturbances \* bound of the model: failed calls, clients that leave, expiries

ASSUME LimitsAssumption == ConvLimit \in Nat \ {0} /\ TurnLimit \in Nat \ {0}
ASSUME StreamsAssumption == IsFiniteSet(Streams) /\ UserOf \in [Streams -> Users]
\* 40: a question leaves the window together with its answer.
ASSUME WindowAssumption == Window \in Nat \ {0} /\ Window % 2 = 0

\* conv:<id>: a hash that an hset or hincrby made has no owner.
Hashes == [owner : Users \cup {Nothing}, turns : Nat, criteria : Criteria \cup {Nothing}]

ASSUME NothingAssumption == Nothing \notin Users \cup Conversations \cup Hashes

VARIABLES
  hash,       \* conv:<id>
  messages,   \* conv:<id>:messages, as the roles of its messages
  counter,    \* sub:<user>:convs:<today>
  stream,     \* what each Chat call is doing
  issued,     \* conversation ids made up so far
  expiries,
  faults,
  overlapped, \* history: conversations with two turns at a time
  cut         \* history: conversations that expired within a turn

vars  == <<hash, messages, counter, stream, issued, expiries, faults, overlapped, cut>>
redis == <<hash, messages, counter>>
past  == <<issued, expiries, faults, overlapped, cut>>

Idle   == [stage |-> "idle", conv |-> Nothing, new |-> FALSE, turns |-> 0, attempt |-> 0, criteria |-> Nothing]

Init ==
  /\ hash = [c \in Conversations |-> Nothing]
  /\ messages = [c \in Conversations |-> <<>>]
  /\ counter = [u \in Users |-> {}]
  /\ stream = [s \in Streams |-> Idle]
  /\ issued = {}
  /\ expiries = 0
  /\ faults = 0
  /\ overlapped = {}
  /\ cut = {}

Disturbed      == expiries + faults < MaxDisturbances
At(s, stage)   == stream[s].stage = stage
Exists(c)      == hash[c] # Nothing
Goto(s, stage) == stream' = [stream EXCEPT ![s].stage = stage]
Abort(s)       == stream' = [stream EXCEPT ![s] = [Idle EXCEPT !.stage = "closed"]]
InTurn(s, c)   == stream[s].conv = c /\ stream[s].stage \notin {"idle", "closed"}

-----------------------------------------------------------------------------
(* Chat, up to the answer                                                   *)

\* A turn on c begins: whether the session exists decides what it is.
Turn(s, c) ==
  /\ stream' = [stream EXCEPT ![s] = [Idle EXCEPT !.stage = "read", !.conv = c, !.new = ~Exists(c)]]
  /\ overlapped' = IF \E r \in Streams \ {s} : InTurn(r, c) THEN overlapped \cup {c} ELSE overlapped
  /\ UNCHANGED <<redis, expiries, faults, cut>>

\* The request names a conversation; one that does not exist ends the stream.
Resume(s, c) ==
  /\ At(s, "idle") /\ c \in issued
  /\ IF Exists(c)
     THEN Turn(s, c) /\ UNCHANGED issued
     ELSE Abort(s) /\ UNCHANGED <<redis, past>>

\* It names none: the stream's own conversation goes on, even when the session has
\* expired.
Continue(s) ==
  /\ At(s, "idle") /\ stream[s].conv # Nothing
  /\ Turn(s, stream[s].conv)
  /\ UNCHANGED issued

\* The first request of a stream gets an id.
Start(s, c) ==
  /\ At(s, "idle") /\ stream[s].conv = Nothing /\ c \notin issued
  /\ Turn(s, c)
  /\ issued' = issued \cup {c}

\* The client closes a stream, or lost one, and opens the next.
Reconnect(s) ==
  /\ stream[s].stage \in {"idle", "closed"} /\ stream[s] # Idle
  /\ stream' = [stream EXCEPT ![s] = Idle]
  /\ UNCHANGED <<redis, past>>

\* Mutated form: the comparison is off by one.
ConversationLimitExceededLate(u) == Cardinality(counter[u]) > ConvLimit

\* check_conversation_limit counts and records nothing; check_turn_limit takes the
\* count of the session just read, 0 when it has expired since.
ConversationLimitExceeded(u) == Cardinality(counter[u]) >= ConvLimit
TurnLimitExceeded(turns)     == turns >= TurnLimit

CheckLimits(s) ==
  LET c == stream[s].conv
      turns == IF ~stream[s].new /\ Exists(c) THEN hash[c].turns ELSE 0
  IN  /\ At(s, "read")
      /\ IF (stream[s].new /\ ConversationLimitExceeded(UserOf[s])) \/ TurnLimitExceeded(turns)
         THEN Abort(s)
         ELSE Goto(s, "answer")
      /\ UNCHANGED <<redis, past>>

\* _collect_assistant_response and _parse_or_retry: the answer may carry no criteria,
\* or none that parse.
Answered(s, criteria) ==
  stream' = [stream EXCEPT ![s].stage = IF stream[s].new THEN "create" ELSE "user", ![s].criteria = criteria]

Generate(s) ==
  /\ At(s, "answer")
  /\ \E criteria \in Criteria \cup {Nothing} : Answered(s, criteria)
  /\ UNCHANGED <<redis, past>>

\* A retryable error turns to the fallback provider, a second one ends the stream.
GenerateFails(s) ==
  /\ At(s, "answer")
  /\ Disturbed /\ faults' = faults + 1
  /\ IF stream[s].attempt = 0 THEN stream' = [stream EXCEPT ![s].attempt = 1] ELSE Abort(s)
  /\ UNCHANGED <<redis, issued, expiries, overlapped, cut>>

-----------------------------------------------------------------------------
(* Storing the turn: session.py                                             *)

NewHash(owner) == [owner |-> owner, turns |-> 0, criteria |-> Nothing]

\* hset and hincrby make the hash when it is not there.
Stored(c) == IF Exists(c) THEN hash[c] ELSE NewHash(Nothing)

\* create: a session that is there is overwritten, its messages stay.
CreateSession(s) ==
  /\ At(s, "create")
  /\ hash' = [hash EXCEPT ![stream[s].conv] = NewHash(UserOf[s])]
  /\ Goto(s, "register")
  /\ UNCHANGED <<messages, counter, past>>

RegisterConversation(s) ==
  /\ At(s, "register")
  /\ counter' = [counter EXCEPT ![UserOf[s]] = @ \cup {stream[s].conv}]
  /\ Goto(s, "user")
  /\ UNCHANGED <<hash, messages, past>>

\* Mutated form: the window is trimmed before the message is pushed.
KeptTrimmedFirst(list, role) ==
  (IF Len(list) > Window - 1 THEN SubSeq(list, Len(list) - Window + 2, Len(list)) ELSE list)
    \o (IF Len(list) >= Window THEN <<>> ELSE <<role>>)

\* rpush, then ltrim to the last messages.
Kept(list, role) ==
  LET all == Append(list, role)
  IN  IF Len(all) > Window THEN SubSeq(all, Len(all) - Window + 1, Len(all)) ELSE all

AppendMessage(s, role, next) ==
  LET c == stream[s].conv
  IN  /\ At(s, role)
      /\ messages' = [messages EXCEPT ![c] = Kept(@, role)]
      /\ hash' = [hash EXCEPT ![c] = Stored(c)]
      /\ Goto(s, next)
      /\ UNCHANGED <<counter, past>>

AppendUser(s)      == AppendMessage(s, "user", "assistant")
AppendAssistant(s) == AppendMessage(s, "assistant", IF stream[s].criteria = Nothing THEN "turn" ELSE "criteria")

UpdateCriteria(s) ==
  LET c == stream[s].conv
  IN  /\ At(s, "criteria")
      /\ hash' = [hash EXCEPT ![c] = [Stored(c) EXCEPT !.criteria = stream[s].criteria]]
      /\ Goto(s, "turn")
      /\ UNCHANGED <<messages, counter, past>>

IncrementTurn(s) ==
  LET c == stream[s].conv
  IN  /\ At(s, "turn")
      /\ hash' = [hash EXCEPT ![c] = [Stored(c) EXCEPT !.turns = @ + 1]]
      /\ stream' = [stream EXCEPT ![s] = [Idle EXCEPT !.conv = c]]
      /\ UNCHANGED <<messages, counter, past>>

\* A Redis call fails, or the client is gone: the call is cancelled where it awaits,
\* and what it stored stays.
StreamFails(s) ==
  /\ ~At(s, "closed")
  /\ Disturbed /\ faults' = faults + 1
  /\ Abort(s)
  /\ UNCHANGED <<redis, issued, expiries, overlapped, cut>>

-----------------------------------------------------------------------------
(* The clock                                                                *)

\* The stream's turn has not written yet (a new session has, in CreateSession, by
\* the time its message is appended).
Unwritten(s) ==
  \/ stream[s].stage \in {"read", "answer"}
  \/ stream[s].stage = "user" /\ ~stream[s].new

\* A day without a write: hash and list expire.  A turn is no day long, so one that
\* has begun to write is not hit, one that is about to is.
Expire(c) ==
  /\ Exists(c)
  /\ \A s \in Streams : InTurn(s, c) => Unwritten(s)
  /\ Disturbed /\ expiries' = expiries + 1
  /\ hash' = [hash EXCEPT ![c] = Nothing]
  /\ messages' = [messages EXCEPT ![c] = <<>>]
  /\ cut' = IF \E s \in Streams : InTurn(s, c) THEN cut \cup {c} ELSE cut
  /\ UNCHANGED <<counter, stream, issued, faults, overlapped>>

\* The counter's key names the day.
Midnight(u) ==
  /\ counter[u] # {}
  /\ Disturbed /\ expiries' = expiries + 1
  /\ counter' = [counter EXCEPT ![u] = {}]
  /\ UNCHANGED <<hash, messages, stream, issued, faults, overlapped, cut>>

-----------------------------------------------------------------------------
Next ==
  \/ \E s \in Streams, c \in Conversations : Resume(s, c) \/ Start(s, c)
  \/ \E s \in Streams :
       \/ Continue(s) \/ Reconnect(s) \/ CheckLimits(s) \/ Generate(s) \/ GenerateFails(s)
       \/ CreateSession(s) \/ RegisterConversation(s)
       \/ AppendUser(s) \/ AppendAssistant(s) \/ UpdateCriteria(s) \/ IncrementTurn(s)
       \/ StreamFails(s)
  \/ \E c \in Conversations : Expire(c)
  \/ \E u \in Users : Midnight(u)

Spec == Init /\ [][Next]_vars

-----------------------------------------------------------------------------
(* Properties                                                               *)

\* ListConversations: the sessions whose owner is the user.
ListConversations(u) == {c \in Conversations : Exists(c) /\ hash[c].owner = u}

\* The counters of the limits are read before the answer and written after it, so
\* turns that overlap may overrun them, but each by one only: at most as many
\* conversations of a user are registered in a day as allowed plus one for each
\* further stream, and turn_count stays within its limit, or one for each further
\* stream above it once turns of the conversation overlapped.  This is a bound on what
\* is counted, and not on what is answered: nothing counts the turn of a client that
\* leaves when it has the tokens, nor a conversation whose turn is cancelled between
\* create and register, and an expired conversation begins at 0 again.
OverrunBounded ==
  /\ \A u \in Users :
       Cardinality(counter[u]) <= ConvLimit + Cardinality({s \in Streams : UserOf[s] = u}) - 1
  /\ \A c \in Conversations :
       Exists(c) => hash[c].turns <= TurnLimit + (IF c \in overlapped THEN Cardinality(Streams) - 1 ELSE 0)

Alternates(list) ==
  /\ list # <<>> => Head(list) = "user"
  /\ \A i \in 1..(Len(list) - 1) : list[i] # list[i + 1]

\* Every session is in its owner's list, and between turns its window is questions
\* and answers in turns, beginning with a question, which is what the providers
\* take.  What breaks a session is an expiry within a turn (the writes that follow
\* make a hash without owner), two turns at a time, or a turn cut off halfway.
TornNeedsCause ==
  \A c \in Conversations : Exists(c) =>
    /\ c \in cut \/ \E u \in Users : c \in ListConversations(u)
    /\ \/ c \in overlapped \/ faults > 0 \/ \E s \in Streams : InTurn(s, c)
       \/ Alternates(messages[c])

=============================================================================
