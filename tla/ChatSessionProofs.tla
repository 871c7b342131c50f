------------------------- MODULE ChatSessionProofs -------------------------
(***************************************************************************)
(* Proofs about ChatSession, for any number of users, streams and          *)
(* conversations and any limits: how far the counters overrun them, and    *)
(* what it takes to tear a session.                                        *)
(***************************************************************************)
EXTENDS ChatSession, FiniteSetTheorems, TLAPS

-----------------------------------------------------------------------------
(* Types                                                                    *)

Roles   == {"user", "assistant"}
Storing == {"answer", "create", "register", "user", "assistant", "criteria", "turn"}
Stages  == {"idle", "closed", "read"} \cup Storing

StreamSet == [stage : Stages, conv : Conversations \cup {Nothing}, new : BOOLEAN, turns : {0},
              attempt : {0, 1}, criteria : Criteria \cup {Nothing}]

TypeOK ==
  /\ hash \in [Conversations -> Hashes \cup {Nothing}]
  /\ messages \in [Conversations -> Seq(Roles)]
  /\ counter \in [Users -> SUBSET Conversations]
  /\ \A u \in Users : IsFiniteSet(counter[u])
  /\ stream \in [Streams -> StreamSet]
  /\ \A s \in Streams : stream[s].stage \notin {"idle", "closed"} => stream[s].conv \in Conversations
  /\ \A s \in Streams : stream[s].stage \in {"create", "register"} => stream[s].new
  /\ faults \in Nat

\* The stream's record is replaced.
Moves(s, r) ==
  /\ stream' = [stream EXCEPT ![s] = r]
  /\ r \in StreamSet
  /\ r.stage \notin {"idle", "closed"} => r.conv \in Conversations
  /\ r.stage \in {"create", "register"} => r.new

\* The same turn goes on.
Goes(s, r) ==
  /\ Moves(s, r)
  /\ stream[s].stage \notin {"idle", "closed"} /\ r.stage \notin {"idle", "closed"}
  /\ r.conv = stream[s].conv /\ r.new = stream[s].new /\ r.conv \in Conversations

LEMMA MovesEffect ==
  ASSUME TypeOK, NEW s \in Streams, NEW r, Moves(s, r)
  PROVE  /\ stream'[s] = r /\ \A x \in Streams \ {s} : stream'[x] = stream[x]
         /\ stream' \in [Streams -> StreamSet]
         /\ \A x \in Streams : stream'[x].stage \notin {"idle", "closed"} => stream'[x].conv \in Conversations
         /\ \A x \in Streams : stream'[x].stage \in {"create", "register"} => stream'[x].new
<1>1. stream'[s] = r /\ \A x \in Streams \ {s} : stream'[x] = stream[x]
  BY DEF TypeOK, Moves
<1>2. stream' \in [Streams -> StreamSet]
  BY DEF TypeOK, Moves
<1> QED
  BY <1>1, <1>2 DEF TypeOK, Moves

LEMMA IdleType == Idle \in StreamSet /\ \A stage \in {"idle", "closed"} : [Idle EXCEPT !.stage = stage] \in StreamSet
BY DEF Idle, StreamSet, Stages

\* A stream leaves its turn, or its connection.
Leaves(s) ==
  /\ \E r : Moves(s, r) /\ r.stage \in {"idle", "closed"}
  /\ UNCHANGED <<redis, overlapped, cut>> 
  /\ \/ faults' = faults + 1
     \/ faults' = faults /\ stream[s].stage \notin Storing

\* The limits let a turn pass.
Passes(s) ==
  /\ \E r : Goes(s, r) /\ r.stage = "answer"
  /\ stream[s].stage = "read" /\ UNCHANGED <<redis, overlapped, cut, faults>>
  /\ stream[s].new => ~ConversationLimitExceeded(UserOf[s])
  /\ ~stream[s].new /\ Exists(stream[s].conv) => hash[stream[s].conv].turns < TurnLimit

\* The model answers, or is asked again.
Advances(s) ==
  /\ \E r : Goes(s, r) /\ \/ r.stage = "answer" /\ faults' = faults + 1
                          \/ r.stage = (IF r.new THEN "create" ELSE "user") /\ faults' = faults
  /\ stream[s].stage = "answer" /\ UNCHANGED <<redis, overlapped, cut>>

\* The steps of a stream.
StreamCases(s) ==
  \/ Leaves(s) \/ (\E c \in Conversations : At(s, "idle") /\ Turn(s, c)) \/ Passes(s) \/ Advances(s)
  \/ CreateSession(s) \/ RegisterConversation(s)
  \/ AppendUser(s) \/ AppendAssistant(s) \/ UpdateCriteria(s) \/ IncrementTurn(s)

LEMMA AbortLeaves ==
  ASSUME TypeOK, NEW s \in Streams, Abort(s)
  PROVE  \E r : Moves(s, r) /\ r.stage \in {"idle", "closed"}
<1> DEFINE r == [Idle EXCEPT !.stage = "closed"]
<1>1. stream' = [stream EXCEPT ![s] = r]
  BY DEF Abort
<1>2. r \in StreamSet /\ r.stage = "closed"
  BY DEF Idle, StreamSet, Stages
<1> QED
  BY <1>1, <1>2 DEF Moves

\* Goto keeps the conversation.
LEMMA GotoGoes ==
  ASSUME TypeOK, NEW s \in Streams, stream[s].stage \notin {"idle", "closed"},
         NEW stage \in Stages \ {"idle", "closed"}, Goto(s, stage),
         stage \in {"create", "register"} => stream[s].new
  PROVE  \E r : Goes(s, r) /\ r.stage = stage
<1> DEFINE r == [stream[s] EXCEPT !.stage = stage]
<1>1. stream[s] \in StreamSet /\ stream \in [Streams -> StreamSet] /\ stream[s].conv \in Conversations
  BY DEF TypeOK
<1>2. stream' = [stream EXCEPT ![s] = r]
  BY <1>1 DEF Goto, StreamSet
<1>3. r \in StreamSet /\ r.stage = stage /\ r.conv = stream[s].conv /\ r.new = stream[s].new
  BY <1>1 DEF StreamSet
<1> HIDE DEF r
<1> QED
  BY <1>1, <1>2, <1>3 DEF Goes, Moves

LEMMA PassesOrLeaves ==
  ASSUME TypeOK, NEW s \in Streams, CheckLimits(s)
  PROVE  Passes(s) \/ Leaves(s)
<1> DEFINE c == stream[s].conv
           turns == IF ~stream[s].new /\ Exists(c) THEN hash[c].turns ELSE 0
           refuses == (stream[s].new /\ ConversationLimitExceeded(UserOf[s])) \/ TurnLimitExceeded(turns)
<1>1. /\ stream[s].stage = "read" /\ UNCHANGED <<redis, past>>
      /\ IF refuses THEN Abort(s) ELSE Goto(s, "answer")
  BY DEF CheckLimits, At
<1>2. UNCHANGED <<overlapped, cut, faults>>
  BY <1>1 DEF past
<1>3. CASE refuses
  BY <1>1, <1>2, <1>3, AbortLeaves DEF Leaves, Storing
<1>4. CASE ~refuses
  <2>1. \E r : Goes(s, r) /\ r.stage = "answer"
    BY <1>1, <1>4, GotoGoes DEF Stages, Storing
  <2>2. stream[s].new => ~ConversationLimitExceeded(UserOf[s])
    BY <1>4
  <2>3. ASSUME ~stream[s].new, Exists(c)
        PROVE  hash[c].turns < TurnLimit
    <3>1. hash[c].turns \in Nat /\ TurnLimit \in Nat
      <4>1. c \in Conversations
        BY <1>1 DEF TypeOK
      <4>2. hash[c] \in Hashes
        BY <2>3, <4>1 DEF TypeOK, Exists
      <4> QED
        BY <4>2, LimitsAssumption DEF Hashes
    <3>2. ~(hash[c].turns >= TurnLimit)
      BY <1>4, <2>3 DEF TurnLimitExceeded
    <3> QED
      BY <3>1, <3>2
  <2> QED
    BY <1>1, <1>2, <2>1, <2>2, <2>3 DEF Passes
<1> QED
  BY <1>3, <1>4

LEMMA AnswerAdvances ==
  ASSUME TypeOK, NEW s \in Streams, stream[s].stage = "answer", NEW criteria \in Criteria \cup {Nothing},
         Answered(s, criteria), UNCHANGED <<redis, past>>
  PROVE  Advances(s)
<1> DEFINE stage == IF stream[s].new THEN "create" ELSE "user"
           r == [stream[s] EXCEPT !.stage = stage, !.criteria = criteria]
<1>1. stream[s] \in StreamSet /\ stream \in [Streams -> StreamSet] /\ stream[s].conv \in Conversations
  BY DEF TypeOK
<1>2. stage \in Stages \ {"idle", "closed"}
  BY DEF Stages, Storing
<1>3. stream' = [stream EXCEPT ![s] = r]
  BY <1>1 DEF Answered, StreamSet
<1> HIDE DEF stage
<1>4. r \in StreamSet /\ r.stage = stage /\ r.conv = stream[s].conv /\ r.new = stream[s].new
  BY <1>1, <1>2 DEF StreamSet
<1> HIDE DEF r
<1>8. stage \in {"create", "register"} => r.new
  BY <1>4 DEF stage
<1>5. Goes(s, r)
  BY <1>1, <1>2, <1>3, <1>4, <1>8 DEF Goes, Moves
<1>6. UNCHANGED <<overlapped, cut, faults>>
  BY DEF past
<1>7. r.stage = (IF r.new THEN "create" ELSE "user")
  BY <1>4 DEF stage
<1> QED
  BY <1>5, <1>6, <1>7 DEF Advances

LEMMA AgainAdvances ==
  ASSUME TypeOK, NEW s \in Streams, GenerateFails(s)
  PROVE  Advances(s) \/ Leaves(s)
<1>1. /\ stream[s].stage = "answer" /\ faults' = faults + 1 /\ UNCHANGED <<redis, overlapped, cut>>
      /\ IF stream[s].attempt = 0 THEN stream' = [stream EXCEPT ![s].attempt = 1] ELSE Abort(s)
  BY DEF GenerateFails, At
<1>2. CASE Abort(s)
  BY <1>1, <1>2, AbortLeaves DEF Leaves
<1>3. CASE stream' = [stream EXCEPT ![s].attempt = 1]
  <2> DEFINE r == [stream[s] EXCEPT !.attempt = 1]
  <2>1. stream[s] \in StreamSet /\ stream \in [Streams -> StreamSet] /\ stream[s].conv \in Conversations
    BY <1>1 DEF TypeOK
  <2>2. stream' = [stream EXCEPT ![s] = r]
    BY <1>3, <2>1 DEF StreamSet
  <2>3. r \in StreamSet /\ r.stage = "answer" /\ r.conv = stream[s].conv /\ r.new = stream[s].new
    BY <1>1, <2>1 DEF StreamSet
  <2> HIDE DEF r
  <2>4. Goes(s, r)
    BY <1>1, <2>1, <2>2, <2>3 DEF Goes, Moves
  <2> QED
    BY <1>1, <2>3, <2>4 DEF Advances
<1> QED
  BY <1>1, <1>2, <1>3

\* Every step is a stream's or the clock's.
LEMMA Split ==
  ASSUME TypeOK, Next
  PROVE  \/ \E s \in Streams : StreamCases(s)
         \/ \E c \in Conversations : Expire(c)
         \/ \E u \in Users : Midnight(u)
<1>1. ASSUME NEW s \in Streams, NEW c \in Conversations, Resume(s, c) \/ Start(s, c)
      PROVE  StreamCases(s)
  <2>1. CASE Turn(s, c)
    BY <1>1, <2>1 DEF Resume, Start, StreamCases
  <2>2. CASE Abort(s) /\ UNCHANGED <<redis, past>>
    <3>1. stream[s].stage = "idle"
      BY <1>1 DEF Resume, Start, At
    <3>2. stream[s].stage \notin Storing /\ UNCHANGED <<redis, overlapped, cut, faults>>
      BY <2>2, <3>1 DEF past, Storing
    <3> QED
      BY <2>2, <3>2, AbortLeaves DEF Leaves, StreamCases
  <2> QED
    BY <1>1, <2>1, <2>2 DEF Resume, Start
<1>2. ASSUME NEW s \in Streams, Continue(s)
      PROVE  StreamCases(s)
  <2>1. stream[s].conv \in Conversations
    BY <1>2 DEF Continue, TypeOK, StreamSet
  <2> QED
    BY <1>2, <2>1 DEF Continue, StreamCases
<1>3. ASSUME NEW s \in Streams, Reconnect(s)
      PROVE  StreamCases(s)
  <2>1. Moves(s, Idle) /\ Idle.stage = "idle"
    BY <1>3, IdleType DEF Reconnect, Moves, Idle
  <2>2. stream[s].stage \notin Storing /\ UNCHANGED <<redis, overlapped, cut, faults>>
    BY <1>3 DEF Reconnect, past, Storing
  <2> QED
    BY <2>1, <2>2 DEF Leaves, StreamCases
<1>4. ASSUME NEW s \in Streams, CheckLimits(s)
      PROVE  StreamCases(s)
  BY <1>4, PassesOrLeaves DEF StreamCases
<1>5. ASSUME NEW s \in Streams, Generate(s)
      PROVE  StreamCases(s)
  BY <1>5, AnswerAdvances DEF Generate, At, StreamCases
<1>6. ASSUME NEW s \in Streams, GenerateFails(s)
      PROVE  StreamCases(s)
  BY <1>6, AgainAdvances DEF StreamCases
<1>7. ASSUME NEW s \in Streams, StreamFails(s)
      PROVE  StreamCases(s)
  BY <1>7, AbortLeaves DEF StreamFails, Leaves, StreamCases
<1> QED
  BY <1>1, <1>2, <1>3, <1>4, <1>5, <1>6, <1>7 DEF Next, StreamCases

-----------------------------------------------------------------------------
(* The writes of a turn                                                     *)

Turns(c) == IF Exists(c) THEN hash[c].turns ELSE 0

\* The turn goes from one stage to another and writes the conversation's hash.
Writes(s, c, h, from, to) ==
  /\ \E r : Goes(s, r) /\ r.stage = to
  /\ stream[s].stage = from /\ stream[s].conv = c
  /\ hash' = [hash EXCEPT ![c] = h] /\ h \in Hashes
  /\ h.turns <= Turns(c)
  /\ Exists(c) => h.owner = hash[c].owner \/ h.owner \in Users
  /\ UNCHANGED <<counter, overlapped, cut, faults>>

LEMMA StoredType ==
  ASSUME TypeOK, NEW c \in Conversations
  PROVE  /\ Stored(c) \in Hashes /\ Stored(c).turns = Turns(c) /\ Turns(c) \in Nat
         /\ Exists(c) => Stored(c) = hash[c]
<1>1. CASE Exists(c)
  BY <1>1 DEF Stored, Turns, TypeOK, Exists, Hashes
<1>2. CASE ~Exists(c)
  BY <1>2 DEF Stored, Turns, NewHash, Hashes
<1> QED
  BY <1>1, <1>2

LEMMA CreateWrites ==
  ASSUME TypeOK, NEW s \in Streams, CreateSession(s)
  PROVE  \E c \in Conversations, h \in Hashes :
           Writes(s, c, h, "create", "register") /\ h.owner \in Users /\ messages' = messages
<1>1. PICK c : c = stream[s].conv
  OBVIOUS
<1>2. /\ stream[s].stage = "create" /\ c \in Conversations /\ stream[s].new
      /\ Goto(s, "register") /\ UNCHANGED <<messages, counter, overlapped, cut, faults>>
  BY <1>1 DEF CreateSession, At, TypeOK, past
<1>3. PICK h : h = NewHash(UserOf[s])
  OBVIOUS
<1>4. h \in Hashes /\ h.owner \in Users /\ h.turns = 0
  BY <1>3, StreamsAssumption DEF NewHash, Hashes
<1>5. hash' = [hash EXCEPT ![c] = h]
  BY <1>1, <1>3 DEF CreateSession
<1>6. h.turns <= Turns(c)
  BY <1>2, <1>4, StoredType
<1>7. \E r : Goes(s, r) /\ r.stage = "register"
  BY <1>2, GotoGoes DEF Stages, Storing
<1> QED
  BY <1>1, <1>2, <1>4, <1>5, <1>6, <1>7 DEF Writes

LEMMA AppendWrites ==
  ASSUME TypeOK, NEW s \in Streams, NEW role \in Roles, NEW next \in {"assistant", "turn", "criteria"},
         AppendMessage(s, role, next)
  PROVE  \E c \in Conversations, h \in Hashes :
           Writes(s, c, h, role, next) /\ messages' = [messages EXCEPT ![c] = Kept(messages[c], role)]
<1>1. PICK c : c = stream[s].conv
  OBVIOUS
<1>2. /\ stream[s].stage = role /\ c \in Conversations
      /\ Goto(s, next) /\ UNCHANGED <<counter, overlapped, cut, faults>>
      /\ messages' = [messages EXCEPT ![c] = Kept(messages[c], role)]
      /\ hash' = [hash EXCEPT ![c] = Stored(c)]
  BY <1>1 DEF AppendMessage, At, TypeOK, past, Roles
<1>3. /\ Stored(c) \in Hashes /\ Stored(c).turns = Turns(c) /\ Turns(c) \in Nat
      /\ Exists(c) => Stored(c) = hash[c]
  BY <1>2, StoredType
<1>4. \E r : Goes(s, r) /\ r.stage = next
  BY <1>2, GotoGoes DEF Stages, Storing, Roles
<1>5. Stored(c).turns <= Turns(c)
  BY <1>3
<1> QED
  BY <1>1, <1>2, <1>3, <1>4, <1>5 DEF Writes

LEMMA CriteriaWrites ==
  ASSUME TypeOK, NEW s \in Streams, UpdateCriteria(s)
  PROVE  \E c \in Conversations, h \in Hashes :
           Writes(s, c, h, "criteria", "turn") /\ messages' = messages
<1>1. PICK c : c = stream[s].conv
  OBVIOUS
<1>2. PICK h : h = [Stored(c) EXCEPT !.criteria = stream[s].criteria]
  OBVIOUS
<1>3. /\ stream[s].stage = "criteria" /\ c \in Conversations /\ stream[s].criteria \in Criteria \cup {Nothing}
      /\ Goto(s, "turn") /\ UNCHANGED <<messages, counter, overlapped, cut, faults>>
      /\ hash' = [hash EXCEPT ![c] = h]
  BY <1>1, <1>2 DEF UpdateCriteria, At, TypeOK, past, StreamSet
<1>4. /\ Stored(c) \in Hashes /\ Stored(c).turns = Turns(c) /\ Turns(c) \in Nat
      /\ Exists(c) => Stored(c) = hash[c]
  BY <1>3, StoredType
<1>5. h \in Hashes /\ h.turns = Turns(c) /\ h.owner = Stored(c).owner
  BY <1>2, <1>3, <1>4 DEF Hashes
<1>6. \E r : Goes(s, r) /\ r.stage = "turn"
  BY <1>3, GotoGoes DEF Stages, Storing
<1>7. h.turns <= Turns(c)
  BY <1>4, <1>5
<1> QED
  BY <1>1, <1>3, <1>4, <1>5, <1>6, <1>7 DEF Writes

\* The last write ends the turn.
LEMMA TurnEnds ==
  ASSUME TypeOK, NEW s \in Streams, IncrementTurn(s)
  PROVE  \E c \in Conversations, h \in Hashes :
           /\ \E r : Moves(s, r) /\ r.stage = "idle"
           /\ stream[s].stage = "turn" /\ stream[s].conv = c
           /\ hash' = [hash EXCEPT ![c] = h] /\ h.turns = Turns(c) + 1
           /\ Exists(c) => h.owner = hash[c].owner
           /\ UNCHANGED <<messages, counter, overlapped, cut, faults>>
<1>1. PICK c : c = stream[s].conv
  OBVIOUS
<1>2. PICK h : h = [Stored(c) EXCEPT !.turns = @ + 1]
  OBVIOUS
<1>3. /\ stream[s].stage = "turn" /\ c \in Conversations
      /\ stream' = [stream EXCEPT ![s] = [Idle EXCEPT !.conv = c]]
      /\ UNCHANGED <<messages, counter, overlapped, cut, faults>>
      /\ hash' = [hash EXCEPT ![c] = h]
  BY <1>1, <1>2 DEF IncrementTurn, At, TypeOK, past
<1>4. /\ Stored(c) \in Hashes /\ Stored(c).turns = Turns(c) /\ Turns(c) \in Nat
      /\ Exists(c) => Stored(c) = hash[c]
  BY <1>3, StoredType
<1>5. h \in Hashes /\ h.turns = Turns(c) + 1 /\ h.owner = Stored(c).owner
  BY <1>2, <1>4 DEF Hashes
<1> DEFINE r == [Idle EXCEPT !.conv = c]
<1>6. r \in StreamSet /\ r.stage = "idle"
  BY <1>3 DEF Idle, StreamSet, Stages
<1>7. Moves(s, r)
  BY <1>3, <1>6 DEF Moves
<1> QED
  BY <1>1, <1>3, <1>4, <1>5, <1>6, <1>7

-----------------------------------------------------------------------------
(* How many                                                                 *)

\* Two sets of streams that differ in one stream at most.
LEMMA Cards ==
  ASSUME NEW A \in SUBSET Streams, NEW B \in SUBSET Streams, NEW s,
         \A x \in Streams \ {s} : x \in A <=> x \in B
  PROVE  /\ IsFiniteSet(A) /\ IsFiniteSet(B) /\ Cardinality(A) \in Nat /\ Cardinality(B) \in Nat
         /\ Cardinality(B) <= Cardinality(Streams)
         /\ (s \in B => s \in A) => Cardinality(B) <= Cardinality(A)
         /\ s \in A /\ s \notin B => Cardinality(B) + 1 <= Cardinality(A)
<1>1. IsFiniteSet(Streams)
  BY StreamsAssumption
<1>2. /\ IsFiniteSet(A) /\ IsFiniteSet(B) /\ Cardinality(A) \in Nat /\ Cardinality(B) \in Nat
      /\ Cardinality(B) <= Cardinality(Streams)
  BY <1>1, FS_Subset, FS_CardinalityType
<1>3. ASSUME s \in B => s \in A
      PROVE  Cardinality(B) <= Cardinality(A)
  <2>1. B \in SUBSET A
    BY <1>3
  <2> QED
    BY <1>2, <2>1, FS_Subset
<1>4. ASSUME s \in A, s \notin B
      PROVE  Cardinality(B) + 1 <= Cardinality(A)
  <2>1. B = A \ {s}
    BY <1>4
  <2>2. Cardinality(A \ {s}) = Cardinality(A) - 1
    BY <1>2, <1>4, FS_RemoveElement
  <2> QED
    BY <1>2, <2>1, <2>2
<1> QED
  BY <1>2, <1>3, <1>4

\* The new conversations of a user that have passed the limit and are not registered.
Of(u)      == {s \in Streams : UserOf[s] = u}
Pending(u) == {s \in Of(u) : stream[s].new /\ stream[s].stage \in {"answer", "create", "register"}}
CountsOK   == \A u \in Users : Cardinality(counter[u]) + Cardinality(Pending(u)) <= ConvLimit + Cardinality(Of(u)) - 1

\* The turns of a conversation that will be counted, those of a session that expired
\* included: they start the count over.
Counted(c) == {s \in Streams : stream[s].conv = c
                               /\ (stream[s].stage \in Storing \/ (stream[s].stage = "read" /\ stream[s].new))}
Excess(c)  == IF c \in overlapped THEN Cardinality(Streams) - 1 ELSE 0
TurnsOK    == \A c \in Conversations : Turns(c) + Cardinality(Counted(c)) <= TurnLimit + Excess(c)

\* Two turns at a time are noticed.
SingleOK == \A c \in Conversations \ overlapped : \A r, s \in Streams : InTurn(r, c) /\ InTurn(s, c) => r = s

LEMMA CountsTypes ==
  ASSUME TypeOK, NEW u \in Users
  PROVE  /\ Cardinality(counter[u]) \in Nat /\ Cardinality(Pending(u)) \in Nat /\ Cardinality(Of(u)) \in Nat
         /\ ConvLimit \in Nat
<1>1. Pending(u) \in SUBSET Streams /\ Of(u) \in SUBSET Streams
  BY DEF Pending, Of
<1> QED
  BY <1>1, FS_Subset, FS_CardinalityType, StreamsAssumption, LimitsAssumption DEF TypeOK

\* A step in which nobody passes the limit and nobody is registered.
LEMMA CountsKept ==
  ASSUME TypeOK, CountsOK, NEW s \in Streams, NEW r, Moves(s, r), counter' = counter,
         r.new /\ r.stage \in {"answer", "create", "register"} =>
           stream[s].new /\ stream[s].stage \in {"answer", "create", "register"}
  PROVE  CountsOK'
<1> SUFFICES ASSUME NEW u \in Users
             PROVE  (Cardinality(counter[u]) + Cardinality(Pending(u)) <= ConvLimit + Cardinality(Of(u)) - 1)'
  BY DEF CountsOK
<1>1. stream'[s] = r /\ \A x \in Streams \ {s} : stream'[x] = stream[x]
  BY MovesEffect
<1>2. \A x \in Streams \ {s} : x \in Pending(u) <=> x \in Pending(u)'
  BY <1>1 DEF Pending, Of
<1>3. s \in Pending(u)' => s \in Pending(u)
  BY <1>1 DEF Pending, Of
<1>4. Pending(u) \in SUBSET Streams /\ Pending(u)' \in SUBSET Streams
  BY DEF Pending, Of
<1>5. Cardinality(Pending(u)') <= Cardinality(Pending(u)) /\ Cardinality(Pending(u)') \in Nat
  BY <1>2, <1>3, <1>4, Cards
<1>6. Of(u)' = Of(u)
  BY DEF Of
<1>7. Cardinality(counter[u]) + Cardinality(Pending(u)) <= ConvLimit + Cardinality(Of(u)) - 1
  BY DEF CountsOK
<1> DEFINE a == Cardinality(counter[u])
           b == Cardinality(Pending(u))
           d == Cardinality(Pending(u)')
           e == ConvLimit + Cardinality(Of(u)) - 1
<1>8. a \in Nat /\ b \in Nat /\ e \in Int
  BY CountsTypes
<1>9. a + b <= e /\ d <= b /\ d \in Nat
  BY <1>5, <1>7
<1> HIDE DEF a, b, d, e
<1>10. a + d <= e
  BY <1>8, <1>9
<1> QED
  BY <1>6, <1>10 DEF a, d, e

LEMMA CountsPass ==
  ASSUME TypeOK, CountsOK, NEW s \in Streams, Passes(s)
  PROVE  CountsOK'
<1>1. PICK r : Goes(s, r) /\ r.stage = "answer"
  BY DEF Passes
<1>2. Moves(s, r) /\ r.new = stream[s].new /\ counter' = counter
  BY <1>1 DEF Goes, Passes, redis
<1>3. CASE ~stream[s].new
  BY <1>2, <1>3, CountsKept
<1>4. CASE stream[s].new
  <2> SUFFICES ASSUME NEW u \in Users
               PROVE  (Cardinality(counter[u]) + Cardinality(Pending(u)) <= ConvLimit + Cardinality(Of(u)) - 1)'
    BY DEF CountsOK
  <2>1. stream'[s] = r /\ \A x \in Streams \ {s} : stream'[x] = stream[x]
    BY <1>2, MovesEffect
  <2>2. Of(u)' = Of(u) /\ Pending(u)' \in SUBSET Of(u) /\ Of(u) \in SUBSET Streams
    BY DEF Of, Pending
  <2>3. /\ Cardinality(counter[u]) \in Nat /\ Cardinality(Pending(u)) \in Nat /\ Cardinality(Of(u)) \in Nat
        /\ ConvLimit \in Nat
    BY CountsTypes
  <2>4. Cardinality(Pending(u)') <= Cardinality(Of(u)) /\ Cardinality(Pending(u)') \in Nat
    <3>1. IsFiniteSet(Of(u))
      BY <2>2, FS_Subset, StreamsAssumption
    <3> QED
      BY <2>2, <3>1, FS_Subset, FS_CardinalityType
  <2>5. CASE u = UserOf[s]
    <3>1. Cardinality(counter[u]) <= ConvLimit - 1
      BY <1>4, <2>3, <2>5 DEF Passes, ConversationLimitExceeded
    <3> QED
      BY <1>2, <2>2, <2>3, <2>4, <3>1
  <2>6. CASE u # UserOf[s]
    <3>1. Pending(u)' = Pending(u)
      BY <2>1, <2>6 DEF Pending, Of
    <3> QED
      BY <1>2, <2>2, <3>1 DEF CountsOK
  <2> QED
    BY <2>5, <2>6
<1> QED
  BY <1>3, <1>4

LEMMA CountsRegister ==
  ASSUME TypeOK, CountsOK, NEW s \in Streams, RegisterConversation(s)
  PROVE  CountsOK'
<1>1. /\ stream[s].stage = "register" /\ Goto(s, "user") /\ stream[s].new
      /\ counter' = [counter EXCEPT ![UserOf[s]] = @ \cup {stream[s].conv}]
  BY DEF RegisterConversation, At, TypeOK
<1>2. PICK r : Goes(s, r) /\ r.stage = "user"
  BY <1>1, GotoGoes DEF Stages, Storing
<1>3. stream'[s] = r /\ \A x \in Streams \ {s} : stream'[x] = stream[x]
  BY <1>2, MovesEffect DEF Goes
<1> SUFFICES ASSUME NEW u \in Users
             PROVE  (Cardinality(counter[u]) + Cardinality(Pending(u)) <= ConvLimit + Cardinality(Of(u)) - 1)'
  BY DEF CountsOK
<1>4. /\ Pending(u) \in SUBSET Streams /\ Pending(u)' \in SUBSET Streams /\ Of(u)' = Of(u)
      /\ \A x \in Streams \ {s} : x \in Pending(u) <=> x \in Pending(u)'
  BY <1>3 DEF Pending, Of
<1>5. /\ Cardinality(counter[u]) \in Nat /\ Cardinality(Pending(u)) \in Nat /\ Cardinality(Of(u)) \in Nat
      /\ ConvLimit \in Nat /\ Cardinality(Pending(u)') \in Nat
  BY <1>4, CountsTypes, Cards
<1>6. Cardinality(counter[u]) + Cardinality(Pending(u)) <= ConvLimit + Cardinality(Of(u)) - 1
  BY DEF CountsOK
<1>7. CASE u = UserOf[s]
  <2>1. s \in Pending(u) /\ s \notin Pending(u)'
    BY <1>1, <1>2, <1>3, <1>7 DEF Pending, Of
  <2>2. Cardinality(Pending(u)') + 1 <= Cardinality(Pending(u))
    BY <1>4, <2>1, Cards
  <2>3. counter'[u] = counter[u] \cup {stream[s].conv} /\ IsFiniteSet(counter[u])
    BY <1>1, <1>7 DEF TypeOK
  <2>4. Cardinality(counter'[u]) \in Nat /\ Cardinality(counter'[u]) <= Cardinality(counter[u]) + 1
    <3>1. CASE stream[s].conv \in counter[u]
      <4>1. counter'[u] = counter[u]
        BY <2>3, <3>1
      <4> QED
        BY <1>5, <4>1
    <3>2. CASE stream[s].conv \notin counter[u]
      <4>1. Cardinality(counter'[u]) = Cardinality(counter[u]) + 1
        BY <2>3, <3>2, FS_AddElement
      <4> QED
        BY <1>5, <4>1
    <3> QED
      BY <3>1, <3>2
  <2> QED
    BY <1>4, <1>5, <1>6, <2>2, <2>4
<1>8. CASE u # UserOf[s]
  <2>1. counter'[u] = counter[u] /\ Pending(u)' = Pending(u)
    BY <1>1, <1>3, <1>8 DEF Pending, Of, TypeOK
  <2> QED
    BY <1>4, <1>6, <2>1
<1> QED
  BY <1>7, <1>8

-----------------------------------------------------------------------------
(* A turn begins, a session expires                                         *)

LEMMA TurnMoves ==
  ASSUME TypeOK, NEW s \in Streams, NEW c \in Conversations, Turn(s, c)
  PROVE  \E r : Moves(s, r) /\ r.stage = "read" /\ r.conv = c /\ r.new = ~Exists(c)
<1>1. PICK b : b = ~Exists(c)
  OBVIOUS
<1>2. b \in BOOLEAN
  BY <1>1
<1> DEFINE r == [Idle EXCEPT !.stage = "read", !.conv = c, !.new = b]
<1>3. stream' = [stream EXCEPT ![s] = r]
  BY <1>1 DEF Turn
<1>4. r \in StreamSet /\ r.stage = "read" /\ r.conv = c /\ r.new = b
  BY <1>2 DEF Idle, StreamSet, Stages
<1> HIDE DEF r
<1> QED
  BY <1>1, <1>3, <1>4 DEF Moves

LEMMA TurnKeeps ==
  ASSUME NEW s \in Streams, NEW c \in Conversations, Turn(s, c)
  PROVE  /\ UNCHANGED <<hash, messages, counter, cut, faults>>
         /\ overlapped \subseteq overlapped' /\ overlapped' \subseteq overlapped \cup {c}
         /\ c \notin overlapped' => \A x \in Streams \ {s} : ~InTurn(x, c)
BY DEF Turn, redis

\* What a stream does changes Redis and itself.
LEMMA TypeFrom ==
  ASSUME TypeOK, NEW s \in Streams, NEW r, Moves(s, r),
         hash' \in [Conversations -> Hashes \cup {Nothing}],
         messages' \in [Conversations -> Seq(Roles)],
         counter' \in [Users -> SUBSET Conversations],
         \A u \in Users : IsFiniteSet(counter'[u]),
         faults' \in Nat
  PROVE  TypeOK'
BY MovesEffect DEF TypeOK

LEMMA KeptType ==
  ASSUME NEW list \in Seq(Roles), NEW role \in Roles
  PROVE  Kept(list, role) \in Seq(Roles)
<1> DEFINE all == Append(list, role)
<1>1. all \in Seq(Roles) /\ Len(all) \in Nat
  OBVIOUS
<1>2. Window \in Nat \ {0}
  BY WindowAssumption
<1> HIDE DEF all
<1>3. ASSUME Len(all) > Window
      PROVE  SubSeq(all, Len(all) - Window + 1, Len(all)) \in Seq(Roles)
  BY <1>1, <1>2, <1>3
<1> QED
  BY <1>1, <1>3 DEF Kept, all

LEMMA WritesType ==
  ASSUME TypeOK, NEW s \in Streams, NEW c \in Conversations, NEW h \in Hashes, NEW from, NEW to,
         Writes(s, c, h, from, to), messages' \in [Conversations -> Seq(Roles)]
  PROVE  TypeOK'
<1>1. PICK r : Moves(s, r)
  BY DEF Writes, Goes
<1>2. hash' \in [Conversations -> Hashes \cup {Nothing}] /\ counter' = counter /\ faults' = faults
  BY DEF Writes, TypeOK
<1> QED
  BY <1>1, <1>2, TypeFrom DEF TypeOK

LEMMA StreamType ==
  ASSUME TypeOK, NEW s \in Streams, StreamCases(s)
  PROVE  TypeOK'
<1>1. CASE Leaves(s)
  <2>1. PICK r : Moves(s, r)
    BY <1>1 DEF Leaves
  <2>2. UNCHANGED <<hash, messages, counter>> /\ faults' \in Nat
    BY <1>1 DEF Leaves, redis, TypeOK
  <2> QED
    BY <2>1, <2>2, TypeFrom DEF TypeOK
<1>2. ASSUME NEW c \in Conversations, Turn(s, c)
      PROVE  TypeOK'
  <2>1. PICK r : Moves(s, r)
    BY <1>2, TurnMoves
  <2>2. UNCHANGED <<hash, messages, counter, faults>>
    BY <1>2, TurnKeeps
  <2> QED
    BY <2>1, <2>2, TypeFrom DEF TypeOK
<1>3. CASE Passes(s)
  <2>1. PICK r : Moves(s, r)
    BY <1>3 DEF Passes, Goes
  <2>2. UNCHANGED <<hash, messages, counter, faults>>
    BY <1>3 DEF Passes, redis
  <2> QED
    BY <2>1, <2>2, TypeFrom DEF TypeOK
<1>4. CASE Advances(s)
  <2>1. PICK r : Goes(s, r) /\ (faults' = faults + 1 \/ faults' = faults)
    BY <1>4 DEF Advances
  <2>2. UNCHANGED <<hash, messages, counter>> /\ faults' \in Nat /\ Moves(s, r)
    BY <1>4, <2>1 DEF Advances, redis, TypeOK, Goes
  <2> QED
    BY <2>2, TypeFrom DEF TypeOK
<1>5. CASE CreateSession(s)
  <2>1. messages' \in [Conversations -> Seq(Roles)]
    BY <1>5, CreateWrites DEF TypeOK
  <2> QED
    BY <1>5, <2>1, CreateWrites, WritesType
<1>6. CASE RegisterConversation(s)
  <2>1. /\ stream[s].stage = "register" /\ Goto(s, "user") /\ UNCHANGED <<hash, messages, faults>>
        /\ counter' = [counter EXCEPT ![UserOf[s]] = @ \cup {stream[s].conv}]
        /\ stream[s].conv \in Conversations
    BY <1>6 DEF RegisterConversation, At, TypeOK, past
  <2>2. PICK r : Goes(s, r)
    BY <2>1, GotoGoes DEF Stages, Storing
  <2>3. counter' \in [Users -> SUBSET Conversations]
    BY <2>1 DEF TypeOK
  <2>4. ASSUME NEW u \in Users
        PROVE  IsFiniteSet(counter'[u])
    <3>1. counter'[u] = counter[u] \/ counter'[u] = counter[u] \cup {stream[s].conv}
      BY <2>1 DEF TypeOK
    <3>2. IsFiniteSet(counter[u])
      BY DEF TypeOK
    <3>3. IsFiniteSet(counter[u] \cup {stream[s].conv})
      BY <3>2, FS_AddElement
    <3> QED
      BY <3>1, <3>2, <3>3
  <2> QED
    BY <2>1, <2>2, <2>3, <2>4, TypeFrom DEF TypeOK, Goes
<1>7. ASSUME NEW role \in Roles, NEW next \in {"assistant", "turn", "criteria"}, AppendMessage(s, role, next)
      PROVE  TypeOK'
  <2>1. PICK c \in Conversations, h \in Hashes :
          Writes(s, c, h, role, next) /\ messages' = [messages EXCEPT ![c] = Kept(messages[c], role)]
    BY <1>7, AppendWrites
  <2>2. Kept(messages[c], role) \in Seq(Roles)
    BY KeptType DEF TypeOK
  <2>3. messages' \in [Conversations -> Seq(Roles)]
    BY <2>1, <2>2 DEF TypeOK
  <2> QED
    BY <2>1, <2>3, WritesType
<1>8. CASE UpdateCriteria(s)
  <2>1. messages' \in [Conversations -> Seq(Roles)]
    BY <1>8, CriteriaWrites DEF TypeOK
  <2> QED
    BY <1>8, <2>1, CriteriaWrites, WritesType
<1>9. CASE IncrementTurn(s)
  <2>1. PICK c \in Conversations, h \in Hashes :
           /\ \E r : Moves(s, r) /\ r.stage = "idle"
           /\ hash' = [hash EXCEPT ![c] = h]
           /\ UNCHANGED <<messages, counter, faults>>
    BY <1>9, TurnEnds
  <2>2. hash' \in [Conversations -> Hashes \cup {Nothing}]
    BY <2>1 DEF TypeOK
  <2> QED
    BY <2>1, <2>2, TypeFrom DEF TypeOK
<1>10. CASE AppendUser(s)
  BY <1>7, <1>10 DEF AppendUser, Roles
<1>11. CASE AppendAssistant(s)
  BY <1>7, <1>11 DEF AppendAssistant, Roles
<1> QED
  BY <1>1, <1>2, <1>3, <1>4, <1>5, <1>6, <1>8, <1>9, <1>10, <1>11 DEF StreamCases

\* What an expiry leaves.
LEMMA ExpireEffect ==
  ASSUME TypeOK, NEW c \in Conversations, Expire(c)
  PROVE  /\ hash' = [hash EXCEPT ![c] = Nothing] /\ messages' = [messages EXCEPT ![c] = <<>>]
         /\ UNCHANGED <<counter, stream, faults, overlapped>>
         /\ \A s \in Streams : InTurn(s, c) => Unwritten(s) /\ c \in cut'
         /\ cut \subseteq cut'
BY DEF Expire

LEMMA TypeStep ==
  ASSUME TypeOK, [Next]_vars
  PROVE  TypeOK'
<1>1. CASE UNCHANGED vars
  BY <1>1 DEF TypeOK, vars
<1>2. ASSUME NEW c \in Conversations, Expire(c)
      PROVE  TypeOK'
  <2>1. /\ hash' = [hash EXCEPT ![c] = Nothing] /\ messages' = [messages EXCEPT ![c] = <<>>]
        /\ UNCHANGED <<counter, stream, faults>>
    BY <1>2, ExpireEffect
  <2>2. hash' \in [Conversations -> Hashes \cup {Nothing}] /\ messages' \in [Conversations -> Seq(Roles)]
    BY <2>1 DEF TypeOK
  <2> QED
    BY <2>1, <2>2 DEF TypeOK
<1>3. ASSUME NEW u \in Users, Midnight(u)
      PROVE  TypeOK'
  <2>1. counter' = [counter EXCEPT ![u] = {}] /\ UNCHANGED <<hash, messages, stream, faults>>
    BY <1>3 DEF Midnight
  <2>2. counter' \in [Users -> SUBSET Conversations]
    BY <2>1 DEF TypeOK
  <2>3. \A x \in Users : IsFiniteSet(counter'[x])
    BY <2>1, FS_EmptySet DEF TypeOK
  <2> QED
    BY <2>1, <2>2, <2>3 DEF TypeOK
<1> QED
  BY <1>1, <1>2, <1>3, Split, StreamType

-----------------------------------------------------------------------------
(* The kinds of steps                                                       *)

\* A write of a turn that goes on.
Write(s) ==
  \E c \in Conversations, h \in Hashes, from \in Storing \ {"answer", "register"}, to \in Storing \ {"answer", "create"} :
    /\ Writes(s, c, h, from, to)
    /\ from = "create" => h.owner \in Users
    /\ to = "register" => from = "create"
    /\ to = "assistant" <=> from = "user"
    /\ messages' = IF from \in Roles THEN [messages EXCEPT ![c] = Kept(messages[c], from)] ELSE messages

Registers(s) ==
  /\ \E r : Goes(s, r) /\ r.stage = "user"
  /\ stream[s].stage = "register" /\ UNCHANGED <<hash, messages, overlapped, cut, faults>>

Ends(s) ==
  \E c \in Conversations, h \in Hashes :
    /\ \E r : Moves(s, r) /\ r.stage = "idle"
    /\ stream[s].stage = "turn" /\ stream[s].conv = c
    /\ hash' = [hash EXCEPT ![c] = h] /\ h.turns = Turns(c) + 1
    /\ Exists(c) => h.owner = hash[c].owner
    /\ UNCHANGED <<messages, counter, overlapped, cut, faults>>

LEMMA StreamKinds ==
  ASSUME TypeOK, NEW s \in Streams, StreamCases(s)
  PROVE  \/ Leaves(s) \/ (\E c \in Conversations : Turn(s, c) /\ At(s, "idle")) \/ Passes(s) \/ Advances(s)
         \/ Write(s) \/ (RegisterConversation(s) /\ Registers(s)) \/ Ends(s)
<1>1. CASE CreateSession(s)
  <2>1. PICK c \in Conversations, h \in Hashes :
           Writes(s, c, h, "create", "register") /\ h.owner \in Users /\ messages' = messages
    BY <1>1, CreateWrites
  <2>2. Write(s)
    BY <2>1 DEF Write, Storing, Roles
  <2> QED
    BY <2>2
<1>2. CASE RegisterConversation(s)
  <2>1. /\ stream[s].stage = "register" /\ Goto(s, "user") /\ UNCHANGED <<hash, messages, overlapped, cut, faults>>
    BY <1>2 DEF RegisterConversation, At, past
  <2>2. \E r : Goes(s, r) /\ r.stage = "user"
    BY <2>1, GotoGoes DEF Stages, Storing
  <2> QED
    BY <1>2, <2>1, <2>2 DEF Registers
<1>3. CASE AppendUser(s)
  <2>1. PICK c \in Conversations, h \in Hashes :
           Writes(s, c, h, "user", "assistant") /\ messages' = [messages EXCEPT ![c] = Kept(messages[c], "user")]
    BY <1>3, AppendWrites DEF AppendUser, Roles
  <2>2. Write(s)
    BY <2>1 DEF Write, Storing, Roles
  <2> QED
    BY <2>2
<1>4. CASE AppendAssistant(s)
  <2>1. PICK to \in {"turn", "criteria"} : AppendMessage(s, "assistant", to)
    BY <1>4 DEF AppendAssistant
  <2>2. PICK c \in Conversations, h \in Hashes :
           Writes(s, c, h, "assistant", to) /\ messages' = [messages EXCEPT ![c] = Kept(messages[c], "assistant")]
    BY <2>1, AppendWrites DEF Roles
  <2>3. Write(s)
    BY <2>2 DEF Write, Storing, Roles
  <2> QED
    BY <2>3
<1>5. CASE UpdateCriteria(s)
  <2>1. PICK c \in Conversations, h \in Hashes :
           Writes(s, c, h, "criteria", "turn") /\ messages' = messages
    BY <1>5, CriteriaWrites
  <2>2. Write(s)
    BY <2>1 DEF Write, Storing, Roles
  <2> QED
    BY <2>2
<1>6. CASE IncrementTurn(s)
  BY <1>6, TurnEnds DEF Ends
<1> QED
  BY <1>1, <1>2, <1>3, <1>4, <1>5, <1>6 DEF StreamCases

\* What a write does to the hash.
LEMMA HashWritten ==
  ASSUME TypeOK, NEW c \in Conversations, NEW h \in Hashes, hash' = [hash EXCEPT ![c] = h]
  PROVE  /\ Exists(c)' /\ hash'[c] = h /\ Turns(c)' = h.turns
         /\ \A d \in Conversations \ {c} : /\ hash'[d] = hash[d] /\ Turns(d)' = Turns(d)
                                           /\ Exists(d)' = Exists(d)
<1>1. hash'[c] = h /\ \A d \in Conversations \ {c} : hash'[d] = hash[d]
  BY DEF TypeOK
<1>2. h # Nothing
  BY NothingAssumption
<1> QED
  BY <1>1, <1>2 DEF Exists, Turns

-----------------------------------------------------------------------------
(* The limit of conversations                                               *)

LEMMA CountsStep ==
  ASSUME TypeOK, CountsOK, [Next]_vars
  PROVE  CountsOK'
<1>1. CASE UNCHANGED vars
  BY <1>1 DEF CountsOK, Pending, Of, vars
<1>2. ASSUME NEW c \in Conversations, Expire(c)
      PROVE  CountsOK'
  BY <1>2, ExpireEffect DEF CountsOK, Pending, Of
<1>3. ASSUME NEW v \in Users, Midnight(v)
      PROVE  CountsOK'
  <2>1. counter' = [counter EXCEPT ![v] = {}] /\ stream' = stream
    BY <1>3 DEF Midnight
  <2> SUFFICES ASSUME NEW u \in Users
               PROVE  (Cardinality(counter[u]) + Cardinality(Pending(u)) <= ConvLimit + Cardinality(Of(u)) - 1)'
    BY DEF CountsOK
  <2>2. Pending(u)' = Pending(u) /\ Of(u)' = Of(u)
    BY <2>1 DEF Pending, Of
  <2>3. /\ Cardinality(counter[u]) \in Nat /\ Cardinality(Pending(u)) \in Nat /\ Cardinality(Of(u)) \in Nat
        /\ ConvLimit \in Nat
    BY CountsTypes
  <2>4. Cardinality(counter[u]) + Cardinality(Pending(u)) <= ConvLimit + Cardinality(Of(u)) - 1
    BY DEF CountsOK
  <2>5. CASE u = v
    <3>1. counter'[u] = {} /\ Cardinality({}) = 0
      BY <2>1, <2>5, FS_EmptySet DEF TypeOK
    <3>2. Cardinality(counter'[u]) = 0
      BY <3>1
    <3> QED
      BY <2>2, <2>3, <2>4, <3>2
  <2>6. CASE u # v
    <3>1. counter'[u] = counter[u]
      BY <2>1, <2>6 DEF TypeOK
    <3> QED
      BY <2>2, <2>4, <3>1
  <2> QED
    BY <2>5, <2>6
<1>4. ASSUME NEW s \in Streams, StreamCases(s)
      PROVE  CountsOK'
  <2>1. CASE Leaves(s)
    <3>1. PICK r : Moves(s, r) /\ r.stage \in {"idle", "closed"}
      BY <2>1 DEF Leaves
    <3> QED
      BY <2>1, <3>1, CountsKept DEF Leaves, redis
  <2>2. ASSUME NEW c \in Conversations, Turn(s, c)
        PROVE  CountsOK'
    <3>1. PICK r : Moves(s, r) /\ r.stage = "read"
      BY <2>2, TurnMoves
    <3> QED
      BY <2>2, <3>1, TurnKeeps, CountsKept
  <2>3. CASE Advances(s)
    <3>1. PICK r : Goes(s, r)
      BY <2>3 DEF Advances
    <3> QED
      BY <2>3, <3>1, CountsKept DEF Advances, Goes, redis
  <2>4. CASE Write(s)
    <3>1. PICK from \in Storing, to \in Storing \ {"answer", "create"}, c \in Conversations, h \in Hashes :
            Writes(s, c, h, from, to) /\ (to = "register" => from = "create")
      BY <2>4 DEF Write
    <3>2. PICK r : Goes(s, r) /\ r.stage = to
      BY <3>1 DEF Writes
    <3> QED
      BY <3>1, <3>2, CountsKept DEF Writes, Goes
  <2>5. CASE Ends(s)
    <3>1. PICK r : Moves(s, r) /\ r.stage = "idle"
      BY <2>5 DEF Ends
    <3> QED
      BY <2>5, <3>1, CountsKept DEF Ends
  <2> QED
    BY <1>4, <2>1, <2>2, <2>3, <2>4, <2>5, StreamKinds, CountsPass, CountsRegister
<1> QED
  BY <1>1, <1>2, <1>3, <1>4, Split

-----------------------------------------------------------------------------
(* The limit of turns                                                       *)

LEMMA TurnsTypes ==
  ASSUME TypeOK, NEW c \in Conversations
  PROVE  /\ Turns(c) \in Nat /\ TurnLimit \in Nat \ {0} /\ Cardinality(Streams) \in Nat
         /\ Counted(c) \in SUBSET Streams /\ \A x \in Counted(c) : InTurn(x, c)
<1>1. Turns(c) \in Nat
  BY DEF Turns, TypeOK, Exists, Hashes
<1>2. Cardinality(Streams) \in Nat
  BY FS_CardinalityType, StreamsAssumption
<1> QED
  BY <1>1, <1>2, LimitsAssumption DEF Counted, InTurn, Storing

\* No further turn is counted, or one becomes a turn of the session.
LEMMA TurnsKept ==
  ASSUME TypeOK, TypeOK', TurnsOK, NEW s \in Streams, NEW r, Moves(s, r), overlapped \subseteq overlapped',
         NEW c \in Conversations,
         \/ Turns(c)' <= Turns(c) /\ (s \in Counted(c)' => s \in Counted(c))
         \/ Turns(c)' = Turns(c) + 1 /\ s \in Counted(c) /\ s \notin Counted(c)'
  PROVE  (Turns(c) + Cardinality(Counted(c)) <= TurnLimit + Excess(c))'
<1>1. stream'[s] = r /\ \A x \in Streams \ {s} : stream'[x] = stream[x]
  BY MovesEffect
<1>2. /\ Counted(c) \in SUBSET Streams /\ Counted(c)' \in SUBSET Streams
      /\ \A x \in Streams \ {s} : x \in Counted(c) <=> x \in Counted(c)'
  BY <1>1 DEF Counted
<1>3. /\ Cardinality(Counted(c)) \in Nat /\ Cardinality(Counted(c)') \in Nat
      /\ (s \in Counted(c)' => s \in Counted(c)) => Cardinality(Counted(c)') <= Cardinality(Counted(c))
      /\ s \in Counted(c) /\ s \notin Counted(c)' => Cardinality(Counted(c)') + 1 <= Cardinality(Counted(c))
  BY <1>2, Cards
<1>4. Turns(c) \in Nat /\ Turns(c)' \in Nat /\ TurnLimit \in Nat /\ Cardinality(Streams) \in Nat
  <2>1. Turns(c)' \in Nat
    BY DEF Turns, TypeOK, Exists, Hashes
  <2> QED
    BY <2>1, TurnsTypes
<1>5. Cardinality(Streams) >= 1
  <2>1. Cardinality(Streams) # 0
    BY FS_EmptySet, StreamsAssumption
  <2> QED
    BY <1>4, <2>1
<1>6. Excess(c) \in Nat /\ Excess(c)' \in Nat /\ Excess(c) <= Excess(c)'
  BY <1>4, <1>5 DEF Excess
<1>7. Turns(c) + Cardinality(Counted(c)) <= TurnLimit + Excess(c)
  BY DEF TurnsOK
<1>8. Turns(c)' + Cardinality(Counted(c)') <= Turns(c) + Cardinality(Counted(c))
  <2>1. CASE Turns(c)' <= Turns(c) /\ (s \in Counted(c)' => s \in Counted(c))
    BY <1>3, <1>4, <2>1
  <2>2. CASE Turns(c)' = Turns(c) + 1 /\ s \in Counted(c) /\ s \notin Counted(c)'
    BY <1>3, <1>4, <2>2
  <2> QED
    BY <2>1, <2>2
<1> QED
  BY <1>3, <1>4, <1>6, <1>7, <1>8

\* A turn is let pass below the limit: alone, or in a conversation with several.
LEMMA TurnsAdmit ==
  ASSUME TypeOK, TypeOK', NEW s \in Streams, NEW c \in Conversations, Turns(c)' <= TurnLimit - 1,
         c \notin overlapped' => Counted(c)' \subseteq {s}
  PROVE  (Turns(c) + Cardinality(Counted(c)) <= TurnLimit + Excess(c))'
<1>1. Turns(c)' \in Nat /\ TurnLimit \in Nat /\ Cardinality(Streams) \in Nat /\ Counted(c)' \in SUBSET Streams
  <2>1. Turns(c)' \in Nat /\ Counted(c)' \in SUBSET Streams
    BY DEF Turns, TypeOK, Exists, Hashes, Counted
  <2> QED
    BY <2>1, TurnsTypes
<1>2. IsFiniteSet(Counted(c)') /\ Cardinality(Counted(c)') \in Nat /\ Cardinality(Counted(c)') <= Cardinality(Streams)
  BY <1>1, FS_Subset, FS_CardinalityType, StreamsAssumption
<1>3. CASE c \in overlapped'
  BY <1>1, <1>2, <1>3 DEF Excess
<1>4. CASE c \notin overlapped'
  <2>1. Cardinality({s}) = 1 /\ IsFiniteSet({s})
    BY FS_Singleton
  <2>2. Cardinality(Counted(c)') <= 1
    BY <1>4, <2>1, FS_Subset
  <2> QED
    BY <1>1, <1>2, <1>4, <2>2 DEF Excess
<1> QED
  BY <1>3, <1>4

LEMMA TurnsPass ==
  ASSUME TypeOK, TypeOK', TurnsOK, SingleOK, NEW s \in Streams, Passes(s), NEW d \in Conversations
  PROVE  (Turns(d) + Cardinality(Counted(d)) <= TurnLimit + Excess(d))'
<1>1. PICK r : Goes(s, r) /\ r.stage = "answer"
  BY DEF Passes
<1>2. /\ Moves(s, r) /\ r.new = stream[s].new /\ r.conv = stream[s].conv /\ hash' = hash /\ overlapped' = overlapped
      /\ stream[s].stage = "read" /\ stream[s].conv \in Conversations
  BY <1>1 DEF Goes, Passes, redis
<1>3. stream'[s] = r /\ \A x \in Streams \ {s} : stream'[x] = stream[x]
  BY <1>2, MovesEffect
<1>4. Turns(d)' = Turns(d) /\ Turns(d) \in Nat
  BY <1>2, TurnsTypes DEF Turns, Exists
<1>5. CASE stream[s].new \/ d # stream[s].conv
  <2>1. s \in Counted(d)' => s \in Counted(d)
    BY <1>2, <1>3, <1>5 DEF Counted
  <2>2. Turns(d)' <= Turns(d)
    BY <1>4
  <2> QED
    BY <1>2, <2>1, <2>2, TurnsKept
<1>6. CASE ~stream[s].new /\ d = stream[s].conv
  <2>1. Turns(d) <= TurnLimit - 1
    <3>1. CASE Exists(d)
      <4>1. hash[d].turns < TurnLimit
        BY <1>6, <3>1 DEF Passes
      <4> QED
        BY <1>4, <3>1, <4>1, LimitsAssumption DEF Turns
    <3>2. CASE ~Exists(d)
      BY <3>2, LimitsAssumption DEF Turns
    <3> QED
      BY <3>1, <3>2
  <2>2. ASSUME d \notin overlapped
        PROVE  Counted(d)' \subseteq {s}
    <3>1. ASSUME NEW x \in Counted(d)', x # s
          PROVE  FALSE
      <4>1. x \in Counted(d) /\ x \in Streams
        BY <1>3, <3>1 DEF Counted
      <4>2. InTurn(x, d) /\ InTurn(s, d)
        BY <1>2, <1>6, <4>1, TurnsTypes DEF InTurn
      <4> QED
        BY <2>2, <3>1, <4>1, <4>2 DEF SingleOK
    <3> QED
      BY <3>1
  <2> QED
    BY <1>2, <1>4, <2>1, <2>2, TurnsAdmit
<1> QED
  BY <1>5, <1>6

LEMMA TurnsBegin ==
  ASSUME TypeOK, TypeOK', TurnsOK, NEW s \in Streams, NEW c \in Conversations, Turn(s, c), NEW d \in Conversations
  PROVE  (Turns(d) + Cardinality(Counted(d)) <= TurnLimit + Excess(d))'
<1>1. PICK r : Moves(s, r) /\ r.stage = "read" /\ r.conv = c /\ r.new = ~Exists(c)
  BY TurnMoves
<1>2. stream'[s] = r /\ \A x \in Streams \ {s} : stream'[x] = stream[x]
  BY <1>1, MovesEffect
<1>3. /\ hash' = hash /\ overlapped \subseteq overlapped'
      /\ c \notin overlapped' => \A x \in Streams \ {s} : ~InTurn(x, c)
  BY TurnKeeps
<1>4. Turns(d)' = Turns(d) /\ Turns(d) \in Nat
  BY <1>3, TurnsTypes DEF Turns, Exists
<1>5. CASE d # c \/ Exists(c)
  <2>1. s \notin Counted(d)'
    BY <1>1, <1>2, <1>5 DEF Counted, Storing
  <2>2. Turns(d)' <= Turns(d)
    BY <1>4
  <2> QED
    BY <1>1, <1>3, <2>1, <2>2, TurnsKept
<1>6. CASE d = c /\ ~Exists(c)
  <2>1. Turns(d)' <= TurnLimit - 1
    BY <1>4, <1>6, LimitsAssumption DEF Turns
  <2>2. ASSUME d \notin overlapped'
        PROVE  Counted(d)' \subseteq {s}
    <3>1. ASSUME NEW x \in Counted(d)', x # s
          PROVE  FALSE
      <4>1. x \in Counted(d) /\ x \in Streams
        BY <1>2, <3>1 DEF Counted
      <4> QED
        BY <1>3, <1>6, <2>2, <3>1, <4>1, TurnsTypes
    <3> QED
      BY <3>1
  <2> QED
    BY <2>1, <2>2, TurnsAdmit
<1> QED
  BY <1>5, <1>6

LEMMA TurnsStep ==
  ASSUME TypeOK, TypeOK', TurnsOK, SingleOK, [Next]_vars
  PROVE  TurnsOK'
<1>1. CASE UNCHANGED vars
  BY <1>1 DEF TurnsOK, Turns, Exists, Counted, Excess, vars
<1>2. ASSUME NEW c \in Conversations, Expire(c)
      PROVE  TurnsOK'
  <2>1. hash' = [hash EXCEPT ![c] = Nothing] /\ stream' = stream /\ overlapped' = overlapped
    BY <1>2, ExpireEffect
  <2> SUFFICES ASSUME NEW d \in Conversations
               PROVE  (Turns(d) + Cardinality(Counted(d)) <= TurnLimit + Excess(d))'
    BY DEF TurnsOK
  <2>2. Counted(d)' = Counted(d) /\ Excess(d)' = Excess(d)
    BY <2>1 DEF Counted, Excess
  <2>3. Turns(d) + Cardinality(Counted(d)) <= TurnLimit + Excess(d)
    BY DEF TurnsOK
  <2>4. CASE d = c
    <3>1. Turns(d)' = 0 /\ Turns(d) \in Nat /\ TurnLimit \in Nat /\ Cardinality(Streams) \in Nat
      BY <2>1, <2>4, TurnsTypes DEF Turns, Exists, TypeOK
    <3>2. Cardinality(Counted(d)) \in Nat
      BY TurnsTypes, FS_Subset, FS_CardinalityType, StreamsAssumption
    <3>3. Excess(d) \in Int
      BY <3>1 DEF Excess
    <3> QED
      BY <2>2, <2>3, <3>1, <3>2, <3>3
  <2>5. CASE d # c
    <3>1. Turns(d)' = Turns(d)
      BY <2>1, <2>5 DEF Turns, Exists, TypeOK
    <3> QED
      BY <2>2, <2>3, <3>1
  <2> QED
    BY <2>4, <2>5
<1>3. ASSUME NEW u \in Users, Midnight(u)
      PROVE  TurnsOK'
  BY <1>3 DEF Midnight, TurnsOK, Turns, Exists, Counted, Excess
<1>4. ASSUME NEW s \in Streams, StreamCases(s)
      PROVE  TurnsOK'
  <2> SUFFICES ASSUME NEW d \in Conversations
               PROVE  (Turns(d) + Cardinality(Counted(d)) <= TurnLimit + Excess(d))'
    BY DEF TurnsOK
  <2>1. CASE Leaves(s)
    <3>1. PICK r : Moves(s, r) /\ r.stage \in {"idle", "closed"}
      BY <2>1 DEF Leaves
    <3>2. s \notin Counted(d)'
      BY <3>1, MovesEffect DEF Counted, Storing
    <3>3. Turns(d)' <= Turns(d) /\ overlapped' = overlapped
      BY <2>1, TurnsTypes DEF Leaves, redis, Turns, Exists
    <3> QED
      BY <3>1, <3>2, <3>3, TurnsKept
  <2>2. CASE Advances(s)
    <3>1. PICK r : Goes(s, r)
      BY <2>2 DEF Advances
    <3>2. s \in Counted(d)' => s \in Counted(d)
      BY <2>2, <3>1, MovesEffect DEF Advances, Goes, Counted, Storing
    <3>3. Turns(d)' <= Turns(d) /\ overlapped' = overlapped
      BY <2>2, TurnsTypes DEF Advances, redis, Turns, Exists
    <3> QED
      BY <3>1, <3>2, <3>3, TurnsKept DEF Goes
  <2>3. CASE Registers(s)
    <3>1. PICK r : Goes(s, r)
      BY <2>3 DEF Registers
    <3>2. s \in Counted(d)' => s \in Counted(d)
      BY <2>3, <3>1, MovesEffect DEF Registers, Goes, Counted, Storing
    <3>3. Turns(d)' <= Turns(d) /\ overlapped' = overlapped
      BY <2>3, TurnsTypes DEF Registers, Turns, Exists
    <3> QED
      BY <3>1, <3>2, <3>3, TurnsKept DEF Goes
  <2>4. CASE Write(s)
    <3>1. PICK c \in Conversations, h \in Hashes, from \in Storing, to \in Storing : Writes(s, c, h, from, to)
      BY <2>4 DEF Write
    <3>2. PICK r : Goes(s, r)
      BY <3>1 DEF Writes
    <3>3. s \in Counted(d)' => s \in Counted(d)
      BY <3>1, <3>2, MovesEffect DEF Writes, Goes, Counted
    <3>4. Turns(d)' <= Turns(d)
      <4>1. hash' = [hash EXCEPT ![c] = h] /\ h.turns <= Turns(c)
        BY <3>1 DEF Writes
      <4>2. CASE d = c
        BY <4>1, <4>2, HashWritten
      <4>3. CASE d # c
        <5>1. Turns(d)' = Turns(d) /\ Turns(d) \in Nat
          BY <4>1, <4>3, HashWritten, TurnsTypes
        <5> QED
          BY <5>1
      <4> QED
        BY <4>2, <4>3
    <3> QED
      BY <3>1, <3>2, <3>3, <3>4, TurnsKept DEF Goes, Writes
  <2>5. CASE Ends(s)
    <3>1. PICK c \in Conversations, h \in Hashes :
            /\ \E r : Moves(s, r) /\ r.stage = "idle"
            /\ stream[s].stage = "turn" /\ stream[s].conv = c
            /\ hash' = [hash EXCEPT ![c] = h] /\ h.turns = Turns(c) + 1 /\ overlapped' = overlapped
      BY <2>5 DEF Ends
    <3>2. PICK r : Moves(s, r) /\ r.stage = "idle"
      BY <3>1
    <3>3. s \notin Counted(d)'
      BY <3>2, MovesEffect DEF Counted, Storing
    <3>4. CASE d = c
      <4>1. Turns(d)' = Turns(d) + 1 /\ s \in Counted(d)
        BY <3>1, <3>4, HashWritten DEF Counted, Storing
      <4> QED
        BY <3>1, <3>2, <3>3, <4>1, TurnsKept
    <3>5. CASE d # c
      <4>1. Turns(d)' <= Turns(d)
        <5>1. Turns(d)' = Turns(d) /\ Turns(d) \in Nat
          BY <3>1, <3>5, HashWritten, TurnsTypes
        <5> QED
          BY <5>1
      <4> QED
        BY <3>1, <3>2, <3>3, <4>1, TurnsKept
    <3> QED
      BY <3>4, <3>5
  <2> QED
    BY <1>4, <2>1, <2>2, <2>3, <2>4, <2>5, StreamKinds, TurnsPass, TurnsBegin
<1> QED
  BY <1>1, <1>2, <1>3, <1>4, Split

-----------------------------------------------------------------------------
(* What tears a session                                                     *)

LEMMA SingleStep ==
  ASSUME TypeOK, SingleOK, [Next]_vars
  PROVE  SingleOK'
<1>1. CASE UNCHANGED vars
  BY <1>1 DEF SingleOK, InTurn, vars
<1>2. ASSUME NEW c \in Conversations, Expire(c)
      PROVE  SingleOK'
  BY <1>2, ExpireEffect DEF SingleOK, InTurn
<1>3. ASSUME NEW u \in Users, Midnight(u)
      PROVE  SingleOK'
  BY <1>3 DEF Midnight, SingleOK, InTurn
<1>4. ASSUME NEW s \in Streams, NEW r, Moves(s, r), overlapped' = overlapped,
             \A c \in Conversations : r.conv = c /\ r.stage \notin {"idle", "closed"} => InTurn(s, c)
      PROVE  SingleOK'
  <2>1. \A c \in Conversations, x \in Streams : InTurn(x, c)' => InTurn(x, c)
    BY <1>4, MovesEffect DEF InTurn
  <2> QED
    BY <1>4, <2>1 DEF SingleOK
<1>5. ASSUME NEW s \in Streams, NEW r, Goes(s, r), overlapped' = overlapped
      PROVE  SingleOK'
  BY <1>4, <1>5 DEF Goes, InTurn
<1>6. ASSUME NEW s \in Streams, NEW c \in Conversations, Turn(s, c)
      PROVE  SingleOK'
  <2>1. PICK r : Moves(s, r) /\ r.conv = c
    BY <1>6, TurnMoves
  <2>2. \A d \in Conversations, x \in Streams : InTurn(x, d)' => InTurn(x, d) \/ (x = s /\ d = c)
    BY <2>1, MovesEffect DEF InTurn
  <2>3. overlapped \subseteq overlapped' /\ (c \notin overlapped' => \A x \in Streams \ {s} : ~InTurn(x, c))
    BY <1>6, TurnKeeps
  <2> QED
    BY <2>2, <2>3 DEF SingleOK
<1>7. ASSUME NEW s \in Streams, StreamCases(s)
      PROVE  SingleOK'
  <2>1. CASE Leaves(s)
    BY <1>4, <2>1 DEF Leaves
  <2>2. CASE Passes(s)
    BY <1>5, <2>2 DEF Passes
  <2>3. CASE Advances(s)
    BY <1>5, <2>3 DEF Advances
  <2>4. CASE Write(s)
    BY <1>5, <2>4 DEF Write, Writes
  <2>5. CASE Registers(s)
    BY <1>5, <2>5 DEF Registers
  <2>6. CASE Ends(s)
    BY <1>4, <2>6 DEF Ends
  <2> QED
    BY <1>6, <1>7, <2>1, <2>2, <2>3, <2>4, <2>5, <2>6, StreamKinds
<1> QED
  BY <1>1, <1>2, <1>3, <1>7, Split

\* A turn that writes, or has found the session, has it still, or it expired within
\* the turn.
Written == {"register", "user", "assistant", "criteria", "turn"}
BackedOK ==
  \A s \in Streams, c \in Conversations :
    InTurn(s, c) /\ (~stream[s].new \/ stream[s].stage \in Written) => Exists(c) \/ c \in cut

\* A session that no expiry cut has an owner.
OwnedOK == \A c \in Conversations : Exists(c) => c \in cut \/ hash[c].owner \in Users

\* A stream's step keeps the sessions there are.
LEMMA BackedFrom ==
  ASSUME TypeOK, BackedOK, NEW s \in Streams, NEW r, Moves(s, r), cut' = cut,
         \A c \in Conversations : Exists(c) => Exists(c)',
         \A c \in Conversations :
           r.conv = c /\ r.stage \notin {"idle", "closed"} /\ (~r.new \/ r.stage \in Written)
             => Exists(c)' \/ c \in cut
  PROVE  BackedOK'
<1>1. stream'[s] = r /\ \A x \in Streams \ {s} : stream'[x] = stream[x]
  BY MovesEffect
<1> SUFFICES ASSUME NEW x \in Streams, NEW c \in Conversations, InTurn(x, c)',
                    ~stream'[x].new \/ stream'[x].stage \in Written
             PROVE  Exists(c)' \/ c \in cut'
  BY DEF BackedOK
<1>2. CASE x = s
  BY <1>1, <1>2 DEF InTurn
<1>3. CASE x # s
  BY <1>1, <1>3 DEF BackedOK, InTurn
<1> QED
  BY <1>2, <1>3

LEMMA BackedStep ==
  ASSUME TypeOK, BackedOK, [Next]_vars
  PROVE  BackedOK'
<1>1. CASE UNCHANGED vars
  BY <1>1 DEF BackedOK, InTurn, Exists, vars
<1>2. ASSUME NEW c \in Conversations, Expire(c)
      PROVE  BackedOK'
  <2>1. /\ hash' = [hash EXCEPT ![c] = Nothing] /\ stream' = stream /\ cut \subseteq cut'
        /\ \A s \in Streams : InTurn(s, c) => c \in cut'
    BY <1>2, ExpireEffect
  <2>2. \A d \in Conversations \ {c} : Exists(d)' = Exists(d)
    BY <2>1 DEF Exists, TypeOK
  <2> QED
    BY <2>1, <2>2 DEF BackedOK, InTurn
<1>3. ASSUME NEW u \in Users, Midnight(u)
      PROVE  BackedOK'
  BY <1>3 DEF Midnight, BackedOK, InTurn, Exists
<1>4. ASSUME NEW s \in Streams, StreamCases(s)
      PROVE  BackedOK'
  <2>1. CASE Leaves(s)
    <3>1. PICK r : Moves(s, r) /\ r.stage \in {"idle", "closed"}
      BY <2>1 DEF Leaves
    <3>2. cut' = cut /\ \A c \in Conversations : Exists(c)' = Exists(c)
      BY <2>1 DEF Leaves, redis, Exists
    <3> QED
      BY <3>1, <3>2, BackedFrom
  <2>2. ASSUME NEW c \in Conversations, Turn(s, c)
        PROVE  BackedOK'
    <3>1. PICK r : Moves(s, r) /\ r.stage = "read" /\ r.conv = c /\ r.new = ~Exists(c)
      BY <2>2, TurnMoves
    <3>2. cut' = cut /\ \A d \in Conversations : Exists(d)' = Exists(d)
      BY <2>2, TurnKeeps DEF Exists
    <3>3. r.stage \notin Written
      BY <3>1 DEF Written
    <3> QED
      BY <3>1, <3>2, <3>3, BackedFrom
  <2>3. CASE Passes(s)
    <3>1. PICK r : Goes(s, r) /\ r.stage = "answer"
      BY <2>3 DEF Passes
    <3>2. cut' = cut /\ \A d \in Conversations : Exists(d)' = Exists(d)
      BY <2>3 DEF Passes, redis, Exists
    <3>3. r.stage \notin Written
      BY <3>1 DEF Written
    <3> QED
      BY <3>1, <3>2, <3>3, BackedFrom DEF Goes, BackedOK, InTurn
  <2>4. CASE Advances(s)
    <3>1. PICK r : Goes(s, r) /\ (r.stage = "answer" \/ r.stage = (IF r.new THEN "create" ELSE "user"))
      BY <2>4 DEF Advances
    <3>2. cut' = cut /\ \A d \in Conversations : Exists(d)' = Exists(d)
      BY <2>4 DEF Advances, redis, Exists
    <3>3. r.stage \notin Written \/ ~r.new
      BY <3>1 DEF Written
    <3> QED
      BY <3>1, <3>2, <3>3, BackedFrom DEF Goes, BackedOK, InTurn
  <2>5. CASE Write(s)
    <3>1. PICK c \in Conversations, h \in Hashes, from \in Storing, to \in Storing : Writes(s, c, h, from, to)
      BY <2>5 DEF Write
    <3>2. PICK r : Goes(s, r)
      BY <3>1 DEF Writes
    <3>3. hash' = [hash EXCEPT ![c] = h] /\ cut' = cut /\ r.conv = c /\ Moves(s, r)
      BY <3>1, <3>2 DEF Writes, Goes
    <3>4. Exists(c)' /\ \A d \in Conversations \ {c} : Exists(d)' = Exists(d)
      BY <3>3, HashWritten
    <3> QED
      BY <3>3, <3>4, BackedFrom
  <2>6. CASE Registers(s)
    <3>1. PICK r : Goes(s, r)
      BY <2>6 DEF Registers
    <3>2. cut' = cut /\ stream[s].stage \in Written /\ \A d \in Conversations : Exists(d)' = Exists(d)
      BY <2>6 DEF Registers, Exists, Written
    <3> QED
      BY <3>1, <3>2, BackedFrom DEF Goes, BackedOK, InTurn
  <2>7. CASE Ends(s)
    <3>1. PICK c \in Conversations, h \in Hashes :
            /\ \E r : Moves(s, r) /\ r.stage = "idle"
            /\ hash' = [hash EXCEPT ![c] = h] /\ cut' = cut
      BY <2>7 DEF Ends
    <3>2. PICK r : Moves(s, r) /\ r.stage = "idle"
      BY <3>1
    <3>3. Exists(c)' /\ \A d \in Conversations \ {c} : Exists(d)' = Exists(d)
      BY <3>1, HashWritten
    <3> QED
      BY <3>1, <3>2, <3>3, BackedFrom
  <2> QED
    BY <1>4, <2>1, <2>2, <2>3, <2>4, <2>5, <2>6, <2>7, StreamKinds
<1> QED
  BY <1>1, <1>2, <1>3, <1>4, Split

LEMMA OwnedStep ==
  ASSUME TypeOK, BackedOK, OwnedOK, [Next]_vars
  PROVE  OwnedOK'
<1>1. CASE hash' = hash /\ cut \subseteq cut'
  BY <1>1 DEF OwnedOK, Exists
<1>2. CASE UNCHANGED vars
  BY <1>1, <1>2 DEF vars
<1>3. ASSUME NEW c \in Conversations, Expire(c)
      PROVE  OwnedOK'
  <2>1. hash' = [hash EXCEPT ![c] = Nothing] /\ cut \subseteq cut'
    BY <1>3, ExpireEffect
  <2> QED
    BY <2>1 DEF OwnedOK, Exists, TypeOK
<1>4. ASSUME NEW u \in Users, Midnight(u)
      PROVE  OwnedOK'
  BY <1>1, <1>4 DEF Midnight
<1>5. ASSUME NEW s \in Streams, NEW c \in Conversations, NEW h \in Hashes,
             hash' = [hash EXCEPT ![c] = h], cut' = cut,
             Exists(c) => h.owner = hash[c].owner \/ h.owner \in Users,
             ~Exists(c) => c \in cut \/ h.owner \in Users
      PROVE  OwnedOK'
  BY <1>5, HashWritten DEF OwnedOK
<1>6. ASSUME NEW s \in Streams, StreamCases(s)
      PROVE  OwnedOK'
  <2>1. CASE Leaves(s)
    BY <1>1, <2>1 DEF Leaves, redis
  <2>2. ASSUME NEW c \in Conversations, Turn(s, c)
        PROVE  OwnedOK'
    BY <1>1, <2>2, TurnKeeps
  <2>3. CASE Passes(s)
    BY <1>1, <2>3 DEF Passes, redis
  <2>4. CASE Advances(s)
    BY <1>1, <2>4 DEF Advances, redis
  <2>5. CASE Registers(s)
    BY <1>1, <2>5 DEF Registers
  <2>6. CASE Write(s)
    <3>1. PICK c \in Conversations, h \in Hashes, from \in Storing \ {"answer", "register"}, to \in Storing :
            Writes(s, c, h, from, to) /\ (from = "create" => h.owner \in Users)
      BY <2>6 DEF Write
    <3>2. /\ hash' = [hash EXCEPT ![c] = h] /\ cut' = cut
          /\ Exists(c) => h.owner = hash[c].owner \/ h.owner \in Users
          /\ stream[s].stage = from /\ stream[s].conv = c
      BY <3>1 DEF Writes
    <3>3. ASSUME ~Exists(c), from # "create"
          PROVE  c \in cut
      BY <3>2, <3>3 DEF BackedOK, InTurn, Written, Storing
    <3> QED
      BY <1>5, <3>1, <3>2, <3>3
  <2>7. CASE Ends(s)
    <3>1. PICK c \in Conversations, h \in Hashes :
            /\ hash' = [hash EXCEPT ![c] = h] /\ cut' = cut /\ stream[s].stage = "turn" /\ stream[s].conv = c
            /\ Exists(c) => h.owner = hash[c].owner
      BY <2>7 DEF Ends
    <3>2. ASSUME ~Exists(c)
          PROVE  c \in cut
      BY <3>1, <3>2 DEF BackedOK, InTurn, Written
    <3> QED
      BY <1>5, <3>1, <3>2
  <2> QED
    BY <1>6, <2>1, <2>2, <2>3, <2>4, <2>5, <2>6, <2>7, StreamKinds
<1> QED
  BY <1>2, <1>3, <1>4, <1>6, Split

-----------------------------------------------------------------------------
(* The window                                                               *)

\* The role of the i-th message of a window that begins with a question.
Role(i)        == IF i % 2 = 1 THEN "user" ELSE "assistant"
Complete(list) == Len(list) <= Window /\ Len(list) % 2 = 0 /\ \A i \in 1..Len(list) : list[i] = Role(i)

\* A question awaits its answer; the window may have lost the question before.
Half(list) ==
  \/ Len(list) <= Window /\ Len(list) % 2 = 1 /\ \A i \in 1..Len(list) : list[i] = Role(i)
  \/ Len(list) = Window /\ \A i \in 1..Len(list) : list[i] = Role(i + 1)

Asking(c) == \E s \in Streams : stream[s].conv = c /\ stream[s].stage = "assistant"
ListOK ==
  \A c \in Conversations :
    c \in overlapped \/ faults > 0 \/ IF Asking(c) THEN Half(messages[c]) ELSE Complete(messages[c])

LEMMA Parity ==
  ASSUME NEW n \in Nat
  PROVE  /\ n % 2 = 0 => Role(n) = "assistant" /\ Role(n + 1) = "user" /\ (n + 1) % 2 = 1
         /\ n % 2 = 1 => Role(n) = "user" /\ Role(n + 1) = "assistant" /\ (n + 1) % 2 = 0
         /\ n % 2 = 0 \/ n % 2 = 1
         /\ Role(n + 2) = Role(n)
         /\ Role(n) # Role(n + 1)
<1>1. n % 2 = 0 \/ n % 2 = 1
  OBVIOUS
<1>2. n % 2 = 0 => (n + 1) % 2 = 1
  OBVIOUS
<1>3. n % 2 = 1 => (n + 1) % 2 = 0
  OBVIOUS
<1>4. (n + 2) % 2 = n % 2
  OBVIOUS
<1> QED
  BY <1>1, <1>2, <1>3, <1>4 DEF Role

\* The message that pushes out the first one.
LEMMA KeptIs ==
  ASSUME NEW list \in Seq(Roles), NEW role \in Roles, Len(list) <= Window
  PROVE  /\ Len(list) < Window => /\ Len(Kept(list, role)) = Len(list) + 1
                                  /\ \A i \in 1..Len(list) : Kept(list, role)[i] = list[i]
                                  /\ Kept(list, role)[Len(list) + 1] = role
         /\ Len(list) = Window => /\ Len(Kept(list, role)) = Window
                                  /\ \A i \in 1..(Window - 1) : Kept(list, role)[i] = list[i + 1]
                                  /\ Kept(list, role)[Window] = role
<1> DEFINE all == Append(list, role)
           n == Len(list)
<1>1. /\ all \in Seq(Roles) /\ Len(all) = n + 1 /\ n \in Nat
      /\ \A i \in 1..n : all[i] = list[i]
      /\ all[n + 1] = role
  OBVIOUS
<1>2. Window \in Nat \ {0}
  BY WindowAssumption
<1>3. Kept(list, role) = IF Len(all) > Window THEN SubSeq(all, Len(all) - Window + 1, Len(all)) ELSE all
  BY DEF Kept
<1> HIDE DEF all, n
<1>4. CASE n < Window
  <2>1. Kept(list, role) = all
    BY <1>1, <1>2, <1>3, <1>4
  <2> QED
    BY <1>1, <1>4, <2>1 DEF n
<1>5. CASE n = Window
  <2>1. Kept(list, role) = SubSeq(all, 2, Window + 1) /\ Len(all) = Window + 1
    BY <1>1, <1>2, <1>3, <1>5
  <2>2. /\ Len(SubSeq(all, 2, Window + 1)) = Window
        /\ \A i \in 1..Window : SubSeq(all, 2, Window + 1)[i] = all[i + 1]
    BY <1>1, <1>2, <2>1
  <2>3. \A i \in 1..(Window - 1) : i \in 1..Window /\ i + 1 \in 1..n
    BY <1>2, <1>5
  <2>4. Window \in 1..Window
    BY <1>2
  <2> QED
    BY <1>1, <1>5, <2>1, <2>2, <2>3, <2>4 DEF n
<1> QED
  BY <1>2, <1>4, <1>5 DEF n

LEMMA AskedIsHalf ==
  ASSUME NEW list \in Seq(Roles), Complete(list)
  PROVE  Half(Kept(list, "user"))
<1> DEFINE k == Kept(list, "user")
           n == Len(list)
<1>1. n \in Nat /\ n <= Window /\ n % 2 = 0 /\ \A i \in 1..n : list[i] = Role(i)
  BY DEF Complete
<1>2. Window \in Nat \ {0} /\ Window % 2 = 0
  BY WindowAssumption
<1>3. "user" \in Roles
  BY DEF Roles
<1>4. /\ n < Window => Len(k) = n + 1 /\ (\A i \in 1..n : k[i] = list[i]) /\ k[n + 1] = "user"
      /\ n = Window => Len(k) = Window /\ (\A i \in 1..(Window - 1) : k[i] = list[i + 1]) /\ k[Window] = "user"
  BY <1>1, <1>3, KeptIs
<1> HIDE DEF k, n
<1>5. CASE n < Window
  <2>1. (n + 1) % 2 = 1 /\ Role(n + 1) = "user"
    BY <1>1, Parity
  <2>2. \A i \in 1..(n + 1) : k[i] = Role(i)
    <3> TAKE i \in 1..(n + 1)
    <3>1. i \in 1..n \/ i = n + 1
      BY <1>1
    <3> QED
      BY <1>1, <1>4, <1>5, <2>1, <3>1
  <2>3. Len(k) <= Window
    BY <1>1, <1>2, <1>4, <1>5
  <2> QED
    BY <1>4, <1>5, <2>1, <2>2, <2>3 DEF Half, k
<1>6. CASE n = Window
  <2>1. Role(Window + 1) = "user"
    BY <1>2, Parity
  <2>2. \A i \in 1..Window : k[i] = Role(i + 1)
    <3> TAKE i \in 1..Window
    <3>1. (i \in 1..(Window - 1) /\ i + 1 \in 1..n) \/ i = Window
      BY <1>2, <1>6
    <3> QED
      BY <1>1, <1>4, <1>6, <2>1, <3>1
  <2> QED
    BY <1>4, <1>6, <2>2 DEF Half, k
<1> QED
  BY <1>1, <1>2, <1>5, <1>6

LEMMA AnsweredIsComplete ==
  ASSUME NEW list \in Seq(Roles), Half(list)
  PROVE  Complete(Kept(list, "assistant"))
<1> DEFINE k == Kept(list, "assistant")
           n == Len(list)
<1>1. Window \in Nat \ {0} /\ Window % 2 = 0
  BY WindowAssumption
<1>2. n \in Nat /\ n <= Window
  BY <1>1 DEF Half
<1>3. "assistant" \in Roles
  BY DEF Roles
<1>4. /\ n < Window => Len(k) = n + 1 /\ (\A i \in 1..n : k[i] = list[i]) /\ k[n + 1] = "assistant"
      /\ n = Window => Len(k) = Window /\ (\A i \in 1..(Window - 1) : k[i] = list[i + 1]) /\ k[Window] = "assistant"
  BY <1>2, <1>3, KeptIs
<1>5. \/ n <= Window /\ n % 2 = 1 /\ \A i \in 1..n : list[i] = Role(i)
      \/ n = Window /\ \A i \in 1..n : list[i] = Role(i + 1)
  BY DEF Half
<1> HIDE DEF k, n
<1>6. CASE n % 2 = 1 /\ \A i \in 1..n : list[i] = Role(i)
  <2>1. (n + 1) % 2 = 0 /\ Role(n + 1) = "assistant"
    BY <1>2, <1>6, Parity
  <2>2. n < Window
    BY <1>1, <1>2, <1>6
  <2>3. \A i \in 1..(n + 1) : k[i] = Role(i)
    <3> TAKE i \in 1..(n + 1)
    <3>1. i \in 1..n \/ i = n + 1
      BY <1>2
    <3> QED
      BY <1>4, <1>6, <2>1, <2>2, <3>1
  <2>4. n + 1 <= Window
    BY <1>1, <1>2, <2>2
  <2> QED
    BY <1>4, <2>1, <2>2, <2>3, <2>4 DEF Complete, k
<1>7. CASE n = Window /\ \A i \in 1..n : list[i] = Role(i + 1)
  <2>1. Role(Window) = "assistant"
    BY <1>1, Parity
  <2>2. \A i \in 1..Window : k[i] = Role(i)
    <3> TAKE i \in 1..Window
    <3>1. CASE i = Window
      BY <1>4, <1>7, <2>1, <3>1
    <3>2. CASE i # Window
      <4>1. i \in 1..(Window - 1) /\ i + 1 \in 1..n /\ i \in Nat
        BY <1>1, <1>7, <3>2
      <4>2. (i + 1) + 1 = i + 2
        BY <4>1
      <4>3. k[i] = Role(i + 2)
        BY <1>4, <1>7, <4>1, <4>2
      <4> QED
        BY <4>1, <4>3, Parity
    <3> QED
      BY <3>1, <3>2
  <2>3. Window <= Window
    BY <1>1
  <2> QED
    BY <1>1, <1>4, <1>7, <2>2, <2>3 DEF Complete, k
<1> QED
  BY <1>5, <1>6, <1>7

LEMMA CompleteAlternates ==
  ASSUME NEW list \in Seq(Roles), Complete(list)
  PROVE  Alternates(list)
<1>1. Len(list) \in Nat /\ \A i \in 1..Len(list) : list[i] = Role(i)
  BY DEF Complete
<1>2. list # <<>> => Head(list) = "user"
  <2>1. HAVE list # <<>>
  <2>2. 1 \in 1..Len(list) /\ Head(list) = list[1]
    BY <2>1
  <2>3. Role(1) = "user"
    BY DEF Role
  <2> QED
    BY <1>1, <2>2, <2>3
<1>3. ASSUME NEW i \in 1..(Len(list) - 1)
      PROVE  list[i] # list[i + 1]
  <2>1. i \in Nat /\ i \in 1..Len(list) /\ i + 1 \in 1..Len(list)
    BY <1>1
  <2>2. Role(i) # Role(i + 1)
    BY <2>1, Parity
  <2> QED
    BY <1>1, <2>1, <2>2
<1> QED
  BY <1>2, <1>3 DEF Alternates

\* A step that writes no message.
LEMMA ListFrom ==
  ASSUME TypeOK, ListOK, NEW s \in Streams, NEW r, Moves(s, r), messages' = messages, overlapped \subseteq overlapped',
         \/ faults' = faults + 1
         \/ faults' = faults /\ stream[s].stage # "assistant" /\ r.stage # "assistant"
  PROVE  ListOK'
<1>1. stream'[s] = r /\ \A x \in Streams \ {s} : stream'[x] = stream[x]
  BY MovesEffect
<1>2. CASE faults' = faults + 1
  <2>1. faults' > 0
    BY <1>2 DEF TypeOK
  <2> QED
    BY <2>1 DEF ListOK
<1>3. CASE faults' = faults /\ stream[s].stage # "assistant" /\ r.stage # "assistant"
  <2>1. \A c \in Conversations : Asking(c)' <=> Asking(c)
    BY <1>1, <1>3 DEF Asking
  <2> QED
    BY <1>3, <2>1 DEF ListOK
<1> QED
  BY <1>2, <1>3

LEMMA ListWrite ==
  ASSUME TypeOK, ListOK, SingleOK, NEW s \in Streams, Write(s)
  PROVE  ListOK'
<1>1. PICK c \in Conversations, h \in Hashes, from \in Storing \ {"answer", "register"}, to \in Storing \ {"answer", "create"} :
        /\ Writes(s, c, h, from, to)
        /\ to = "assistant" <=> from = "user"
        /\ messages' = IF from \in Roles THEN [messages EXCEPT ![c] = Kept(messages[c], from)] ELSE messages
  BY DEF Write
<1>2. PICK r : Goes(s, r) /\ r.stage = to
  BY <1>1 DEF Writes
<1>3. /\ Moves(s, r) /\ r.conv = c /\ stream[s].conv = c /\ stream[s].stage = from
      /\ overlapped' = overlapped /\ faults' = faults
  BY <1>1, <1>2 DEF Goes, Writes
<1>4. stream'[s] = r /\ \A x \in Streams \ {s} : stream'[x] = stream[x]
  BY <1>3, MovesEffect
<1>5. CASE from \notin Roles
  <2>1. messages' = messages /\ from # "assistant" /\ to # "assistant"
    BY <1>1, <1>5 DEF Roles
  <2> QED
    BY <1>2, <1>3, <2>1, ListFrom
<1>6. CASE from \in Roles
  <2> SUFFICES ASSUME NEW d \in Conversations, d \notin overlapped, ~(faults > 0)
               PROVE  (IF Asking(d) THEN Half(messages[d]) ELSE Complete(messages[d]))'
    BY <1>3 DEF ListOK
  <2>1. IF Asking(d) THEN Half(messages[d]) ELSE Complete(messages[d])
    BY DEF ListOK
  <2>2. CASE d # c
    <3>1. messages'[d] = messages[d]
      BY <1>1, <1>6, <2>2 DEF TypeOK
    <3>2. Asking(d)' <=> Asking(d)
      BY <1>3, <1>4, <2>2 DEF Asking
    <3> QED
      BY <2>1, <3>1, <3>2
  <2>3. CASE d = c
    <3>1. messages'[d] = Kept(messages[d], from) /\ messages[d] \in Seq(Roles)
      BY <1>1, <1>6, <2>3 DEF TypeOK
    <3>2. \A x \in Streams \ {s} : ~(stream[x].conv = d /\ stream[x].stage = "assistant")
      BY <1>3, <2>3 DEF SingleOK, InTurn, Storing
    <3>3. CASE from = "user"
      <4>1. ~Asking(d) /\ Asking(d)'
        BY <1>1, <1>2, <1>3, <1>4, <2>3, <3>2, <3>3 DEF Asking
      <4> QED
        BY <2>1, <3>1, <3>3, <4>1, AskedIsHalf
    <3>4. CASE from = "assistant"
      <4>1. Asking(d) /\ ~Asking(d)'
        BY <1>1, <1>2, <1>3, <1>4, <2>3, <3>2, <3>4 DEF Asking
      <4> QED
        BY <2>1, <3>1, <3>4, <4>1, AnsweredIsComplete
    <3> QED
      BY <1>6, <3>3, <3>4 DEF Roles
  <2> QED
    BY <2>2, <2>3
<1> QED
  BY <1>5, <1>6

LEMMA ListStep ==
  ASSUME TypeOK, ListOK, SingleOK, [Next]_vars
  PROVE  ListOK'
<1>1. CASE UNCHANGED vars
  BY <1>1 DEF ListOK, Asking, vars
<1>2. ASSUME NEW c \in Conversations, Expire(c)
      PROVE  ListOK'
  <2>1. /\ messages' = [messages EXCEPT ![c] = <<>>] /\ stream' = stream /\ faults' = faults /\ overlapped' = overlapped
        /\ \A s \in Streams : InTurn(s, c) => Unwritten(s)
    BY <1>2, ExpireEffect
  <2> SUFFICES ASSUME NEW d \in Conversations, d \notin overlapped, ~(faults > 0)
               PROVE  (IF Asking(d) THEN Half(messages[d]) ELSE Complete(messages[d]))'
    BY <2>1 DEF ListOK
  <2>2. IF Asking(d) THEN Half(messages[d]) ELSE Complete(messages[d])
    BY DEF ListOK
  <2>3. Asking(d)' <=> Asking(d)
    BY <2>1 DEF Asking
  <2>4. CASE d = c
    <3>1. ~Asking(d)
      BY <2>1, <2>4 DEF Asking, InTurn, Unwritten
    <3>2. messages'[d] = <<>>
      BY <2>1, <2>4 DEF TypeOK
    <3>3. Complete(<<>>)
      <4>1. Len(<<>>) = 0 /\ 0 % 2 = 0 /\ 0 <= Window
        BY WindowAssumption
      <4>2. \A i \in 1..0 : FALSE
        OBVIOUS
      <4> QED
        BY <4>1, <4>2 DEF Complete
    <3> QED
      BY <2>3, <3>1, <3>2, <3>3
  <2>5. CASE d # c
    <3>1. messages'[d] = messages[d]
      BY <2>1, <2>5 DEF TypeOK
    <3> QED
      BY <2>2, <2>3, <3>1
  <2> QED
    BY <2>4, <2>5
<1>3. ASSUME NEW u \in Users, Midnight(u)
      PROVE  ListOK'
  BY <1>3 DEF Midnight, ListOK, Asking
<1>4. ASSUME NEW s \in Streams, StreamCases(s)
      PROVE  ListOK'
  <2>1. CASE Leaves(s)
    BY <2>1, ListFrom DEF Leaves, redis, Storing
  <2>2. ASSUME NEW c \in Conversations, Turn(s, c), At(s, "idle")
        PROVE  ListOK'
    <3>1. PICK r : Moves(s, r) /\ r.stage = "read"
      BY <2>2, TurnMoves
    <3> QED
      BY <2>2, <3>1, TurnKeeps, ListFrom DEF At
  <2>3. CASE Passes(s)
    BY <2>3, ListFrom DEF Passes, Goes, redis
  <2>4. CASE Advances(s)
    BY <2>4, ListFrom DEF Advances, Goes, redis
  <2>5. CASE Registers(s)
    BY <2>5, ListFrom DEF Registers, Goes
  <2>6. CASE Ends(s)
    BY <2>6, ListFrom DEF Ends
  <2> QED
    BY <1>4, <2>1, <2>2, <2>3, <2>4, <2>5, <2>6, ListWrite, StreamKinds
<1> QED
  BY <1>1, <1>2, <1>3, <1>4, Split

-----------------------------------------------------------------------------
(* The theorems                                                             *)

ChatInv == TypeOK /\ CountsOK /\ TurnsOK /\ SingleOK /\ BackedOK /\ OwnedOK /\ ListOK

LEMMA InitInv ==
  ASSUME Init
  PROVE  ChatInv
<1>1. /\ hash = [c \in Conversations |-> Nothing] /\ messages = [c \in Conversations |-> <<>>]
      /\ counter = [u \in Users |-> {}] /\ stream = [s \in Streams |-> Idle]
      /\ faults = 0 /\ overlapped = {} /\ cut = {}
  BY DEF Init
<1>2. Idle \in StreamSet /\ Idle.stage = "idle" /\ ~Idle.new
  BY IdleType DEF Idle
<1>3. \A s \in Streams : stream[s] = Idle
  BY <1>1
<1>4. TypeOK
  <2>1. messages \in [Conversations -> Seq(Roles)] /\ hash \in [Conversations -> Hashes \cup {Nothing}]
    BY <1>1
  <2>2. counter \in [Users -> SUBSET Conversations] /\ \A u \in Users : IsFiniteSet(counter[u])
    BY <1>1, FS_EmptySet
  <2> QED
    BY <1>1, <1>2, <1>3, <2>1, <2>2 DEF TypeOK
<1>5. CountsOK
  <2> SUFFICES ASSUME NEW u \in Users
               PROVE  Cardinality(counter[u]) + Cardinality(Pending(u)) <= ConvLimit + Cardinality(Of(u)) - 1
    BY DEF CountsOK
  <2>1. counter[u] = {} /\ Pending(u) = {} /\ Cardinality({}) = 0
    BY <1>1, <1>2, <1>3, FS_EmptySet DEF Pending, Of
  <2>2. Cardinality(Of(u)) \in Nat /\ ConvLimit \in Nat \ {0}
    BY <1>4, CountsTypes, LimitsAssumption
  <2> QED
    BY <2>1, <2>2
<1>6. TurnsOK
  <2> SUFFICES ASSUME NEW c \in Conversations
               PROVE  Turns(c) + Cardinality(Counted(c)) <= TurnLimit + Excess(c)
    BY DEF TurnsOK
  <2>1. Turns(c) = 0 /\ Counted(c) = {} /\ Cardinality({}) = 0 /\ Excess(c) = 0
    BY <1>1, <1>2, <1>3, FS_EmptySet DEF Turns, Exists, Counted, Excess, Storing
  <2> QED
    BY <2>1, LimitsAssumption
<1>7. SingleOK /\ BackedOK
  BY <1>2, <1>3 DEF SingleOK, BackedOK, InTurn
<1>8. OwnedOK
  BY <1>1 DEF OwnedOK, Exists
<1>9. ListOK
  <2>1. Complete(<<>>)
    <3>1. Len(<<>>) = 0 /\ 0 % 2 = 0 /\ 0 <= Window
      BY WindowAssumption
    <3>2. \A i \in 1..0 : FALSE
      OBVIOUS
    <3> QED
      BY <3>1, <3>2 DEF Complete
  <2> QED
    BY <1>1, <1>2, <1>3, <2>1 DEF ListOK, Asking
<1> QED
  BY <1>4, <1>5, <1>6, <1>7, <1>8, <1>9 DEF ChatInv

LEMMA InvStep ==
  ASSUME ChatInv, [Next]_vars
  PROVE  ChatInv'
BY TypeStep, CountsStep, TurnsStep, SingleStep, BackedStep, OwnedStep, ListStep DEF ChatInv

LEMMA Inductive == Spec => []ChatInv
<1>1. Init => ChatInv
  BY InitInv
<1>2. ChatInv /\ [Next]_vars => ChatInv'
  BY InvStep
<1> QED
  BY <1>1, <1>2, PTL DEF Spec

\* The day's registered conversations and turn_count overrun their limits by one for
\* each further stream at most: check_conversation_limit and check_turn_limit read
\* them before the answer, and they change after it.
THEOREM Overrun == Spec => []OverrunBounded
<1>1. ASSUME ChatInv
      PROVE  OverrunBounded
  <2>1. ASSUME NEW u \in Users
        PROVE  Cardinality(counter[u]) <= ConvLimit + Cardinality({s \in Streams : UserOf[s] = u}) - 1
    <3>1. /\ Cardinality(counter[u]) \in Nat /\ Cardinality(Pending(u)) \in Nat /\ Cardinality(Of(u)) \in Nat
          /\ ConvLimit \in Nat
      BY <1>1, CountsTypes DEF ChatInv
    <3>2. Cardinality(counter[u]) + Cardinality(Pending(u)) <= ConvLimit + Cardinality(Of(u)) - 1
      BY <1>1 DEF ChatInv, CountsOK
    <3>3. Cardinality(counter[u]) <= ConvLimit + Cardinality(Of(u)) - 1
      BY <3>1, <3>2
    <3> QED
      BY <3>3 DEF Of
  <2>2. ASSUME NEW c \in Conversations, Exists(c)
        PROVE  hash[c].turns <= TurnLimit + (IF c \in overlapped THEN Cardinality(Streams) - 1 ELSE 0)
    <3>1. Turns(c) \in Nat /\ Cardinality(Counted(c)) \in Nat /\ Excess(c) \in Int /\ TurnLimit \in Nat
      <4>1. /\ Turns(c) \in Nat /\ TurnLimit \in Nat /\ Cardinality(Streams) \in Nat
            /\ Counted(c) \in SUBSET Streams
        BY <1>1, TurnsTypes DEF ChatInv
      <4>2. Cardinality(Counted(c)) \in Nat
        BY <4>1, FS_Subset, FS_CardinalityType, StreamsAssumption
      <4> QED
        BY <4>1, <4>2 DEF Excess
    <3>2. Turns(c) + Cardinality(Counted(c)) <= TurnLimit + Excess(c)
      BY <1>1 DEF ChatInv, TurnsOK
    <3>3. Turns(c) <= TurnLimit + Excess(c)
      BY <3>1, <3>2
    <3> QED
      BY <2>2, <3>3 DEF Turns, Excess
  <2> QED
    BY <2>1, <2>2 DEF OverrunBounded
<1> QED
  BY <1>1, Inductive, PTL

\* A session without owner, or a window that does not alternate, had an expiry
\* within a turn, two turns at a time, or a turn cut off halfway: create_session,
\* append_message and increment_turn restore both otherwise.
THEOREM Torn == Spec => []TornNeedsCause
<1>1. ASSUME ChatInv
      PROVE  TornNeedsCause
  <2> SUFFICES ASSUME NEW c \in Conversations, Exists(c)
               PROVE  /\ c \in cut \/ \E u \in Users : c \in ListConversations(u)
                      /\ \/ c \in overlapped \/ faults > 0 \/ \E s \in Streams : InTurn(s, c)
                         \/ Alternates(messages[c])
    BY DEF TornNeedsCause
  <2>1. c \in cut \/ \E u \in Users : c \in ListConversations(u)
    BY <1>1 DEF ChatInv, OwnedOK, ListConversations
  <2>2. ASSUME c \notin overlapped, ~(faults > 0), ~\E s \in Streams : InTurn(s, c)
        PROVE  Alternates(messages[c])
    <3>1. ~Asking(c)
      BY <2>2 DEF Asking, InTurn
    <3>2. Complete(messages[c]) /\ messages[c] \in Seq(Roles)
      BY <1>1, <2>2, <3>1 DEF ChatInv, ListOK, TypeOK
    <3> QED
      BY <3>2, CompleteAlternates
  <2> QED
    BY <2>1, <2>2
<1> QED
  BY <1>1, Inductive, PTL

=============================================================================
