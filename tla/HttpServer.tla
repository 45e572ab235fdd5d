----------------------------- MODULE HttpServer -----------------------------
(***************************************************************************)
(* std::http's server of many connections on one thread: Server's `first`  *)
(* and `next` (src/lib/kizu/std/src/http/server.kizu), the tokens its      *)
(* poller knows connections by, and the table that says where they are.    *)
(*                                                                         *)
(* A connection is an Exchange.  Of its bytes only the heads are kept:     *)
(* `inbox` is the heads its Reader holds and has not parsed, and `inner`   *)
(* is the ones that a TLS connection has taken off the socket and not yet  *)
(* given to the Reader.  A head is a "request", or "bad": one that         *)
(* step_head fails on.  What the socket holds is not state: a read answers *)
(* whatever it likes, and a wait reports whichever watched connections it  *)
(* likes.                                                                  *)
(*                                                                         *)
(* Tokens, slots and indexes count from 1, and 0 is the source's -1.       *)
(* Growing the server's own arrays never fails.                            *)
(***************************************************************************)
EXTENDS Integers, Sequences, FiniteSets, SequencesExt

CONSTANTS
  Conns,           \* the connections there can be at once
  MaxConnections,  \* limits.max_connections; 0 is no ceiling
  MaxAhead,        \* bound: heads one connection has sent ahead
  MaxTokens,       \* bound: tokens the server ever makes
  None             \* no connection

ASSUME ConnsAssumption == IsFiniteSet(Conns) /\ None \notin Conns
ASSUME BoundsAssumption ==
  MaxConnections \in Nat /\ MaxAhead \in Nat \ {0} /\ MaxTokens \in Nat \ {0}

VARIABLES
  secure,     \* the server has a key: it speaks TLS
  server,     \* the Server's tables and every Exchange, see ServerType
  listening,  \* Server.listening
  lent,       \* the exchanges the caller holds
  pc,         \* where the call in progress is
  held,       \* the exchange in a local variable of that call
  back,       \* where restore returns to
  events,     \* the events of the last wait that `hear` has not read
  late,       \* connections whose deadline has passed and sweep has not dealt with
  index       \* sweep's index

call == <<pc, held, back, events, late, index>>
vars == <<secure, server, listening, lent, call>>

Heads == {"request", "bad"}
Phases == {"Closed", "Handshaking", "ReadingHead", "Ready", "Lingering"}
Ahead == UNION {[1..n -> Heads] : n \in 0..MaxAhead}

Exchange == [phase : Phases, inbox : Ahead, inner : Ahead, token : 0..MaxTokens]

\* An Exchange that was deinited, or is still to be made.
Deinited == [phase |-> "Closed", inbox |-> <<>>, inner |-> <<>>, token |-> 0]

Opening == [Deinited EXCEPT !.phase = IF secure THEN "Handshaking" ELSE "ReadingHead"]

\* An event names a token; conn is whom the poller meant by it.
Listener == [token |-> 0, conn |-> None]
Event == [token : 0..MaxTokens, conn : Conns \union {None}]

\* A list of tokens may name only those that were made.
Tables == [conn : [Conns -> Exchange], open : Seq(Conns), slotOf : Seq(Nat),
           spare : Seq(Nat), retiring : Seq(Nat), settled : Seq(Nat)]

\* The tables of the server have their types, and the call its registers.
TypeOK ==
  /\ secure \in BOOLEAN
  /\ server \in Tables
  /\ Len(server.slotOf) <= MaxTokens
  /\ \A list \in {server.spare, server.retiring, server.settled} :
       \A i \in DOMAIN list : list[i] \in DOMAIN server.slotOf
  /\ listening \in BOOLEAN
  /\ lent \subseteq Conns
  /\ pc \in {"idle", "turn", "settled", "wait", "hear", "take", "join", "body", "sweep"}
  /\ held \in Conns \union {None}
  /\ back \in {"turn", "take"}
  /\ events \subseteq Event
  /\ late \subseteq Conns
  /\ index \in 0..Cardinality(Conns)

Init ==
  /\ secure \in BOOLEAN
  /\ server = [conn |-> [c \in Conns |-> Deinited], open |-> <<>>, slotOf |-> <<>>,
               spare |-> <<>>, retiring |-> <<>>, settled |-> <<>>]
  /\ listening = TRUE
  /\ lent = {}
  /\ pc = "idle"
  /\ held = None
  /\ back = "turn"
  /\ events = {}
  /\ late = {}
  /\ index = 0

-----------------------------------------------------------------------------
(* Operations on the tables.                                               *)

Phase(s, c) == s.conn[c].phase
Token(s, c) == s.conn[c].token

\* alive, and at_capacity.
Alive(s) == Len(s.slotOf) - Len(s.spare) - Len(s.retiring)

AtCapacity(s) == MaxConnections > 0 /\ Alive(s) >= MaxConnections

CanClaim(s) == s.spare # <<>> \/ Len(s.slotOf) < MaxTokens

\* claim_token gives c a spare token, or a new one.
Claim(s, c) ==
  IF s.spare # <<>>
    THEN [s EXCEPT !.spare = Front(@), !.conn[c].token = Last(s.spare)]
    ELSE [s EXCEPT !.slotOf = Append(@, 0), !.conn[c].token = Len(s.slotOf) + 1]

Retire(s, token) ==
  [s EXCEPT !.slotOf[token] = 0, !.retiring = Append(@, token)]

\* settle_tokens pops the one list and pushes the other.
SettleTokens(s) ==
  [s EXCEPT !.spare = @ \o Reverse(s.retiring), !.retiring = <<>>]

Deinit(s, c) == [s EXCEPT !.conn[c] = Deinited]

\* note_slot, which finds nothing where the last one was taken out.
NoteSlot(s, i) ==
  IF i \in DOMAIN s.open THEN [s EXCEPT !.slotOf[Token(s, s.open[i])] = i] ELSE s

\* Mutant: the connection that moved into the gap is not noted.
TakeOutUnnoted(s, i) ==
  [s EXCEPT !.open = Front([@ EXCEPT ![i] = Last(s.open)]), !.slotOf[Token(s, s.open[i])] = 0]

\* take_out swaps the last connection into the gap.
TakeOut(s, i) ==
  NoteSlot([s EXCEPT !.open = Front([@ EXCEPT ![i] = Last(s.open)]),
                     !.slotOf[Token(s, s.open[i])] = 0], i)

DropAt(s, i) ==
  Retire(Deinit(TakeOut(s, i), s.open[i]), Token(s, s.open[i]))

\* reopen: the connection is back to reading a head, its read-ahead kept.
Reopen(s, c) == [s EXCEPT !.conn[c].phase = "ReadingHead"]

BeginLingering(s, c) == [s EXCEPT !.conn[c].phase = "Lingering"]

\* Over TLS begin_lingering sends close_notify first, and the send can fail.
\* One that is not connected yet, or no longer, sends nothing.
CloseCanFail(s, c) == secure /\ Phase(s, c) \in {"ReadingHead", "Ready"}

\* Mutant: a connection that is being closed still parses.
HasHeadLingering(s, c, head) ==
  /\ Phase(s, c) \in {"ReadingHead", "Lingering"}
  /\ s.conn[c].inbox # <<>>
  /\ Head(s.conn[c].inbox) = head

HasHead(s, c, head) ==
  Phase(s, c) = "ReadingHead" /\ s.conn[c].inbox # <<>> /\ Head(s.conn[c].inbox) = head

\* step: a whole head becomes a request.  A head it fails on stays in the inbox.
Step(s, c) ==
  IF HasHead(s, c, "request")
    THEN [s EXCEPT !.conn[c].phase = "Ready", !.conn[c].inbox = Tail(@)]
    ELSE s

\* What settle_at and advance_at leave of c once its bytes are parsed: a head
\* that cannot be read has been refused, and its connection lingers.  `step`
\* reads no socket, so all that it fails with is worth answering.
Parsed(s, c) ==
  IF HasHead(s, c, "bad") THEN BeginLingering(s, c) ELSE Step(s, c)

\* The name of a connection whose request is whole goes on settled_tokens.
NoteSettled(s, c) ==
  IF Phase(s, c) = "Ready" THEN [s EXCEPT !.settled = Append(@, Token(s, c))] ELSE s

\* restore puts c into the table and parses what it sent ahead.
Enter(s, c) ==
  [s EXCEPT !.open = Append(@, c), !.slotOf[Token(s, c)] = Len(s.open) + 1]

\* Mutant: nothing looks at what the connection sent ahead.
RestoreUnparsed(s, c) == Enter(s, c)

Restore(s, c) == NoteSettled(Parsed(Enter(s, c), c), c)

\* One read hands the Reader k of the heads there are: q arrived at the socket
\* now.  Over TLS a read gives part of what the connection has inside, and looks
\* at the socket only when that is nothing; a plain one gives all that arrived.
Unread(s, c, q) == s.conn[c].inner \o q

CanRead(s, c, q, k) ==
  /\ s.conn[c].inner # <<>> => q = <<>>
  /\ Len(s.conn[c].inbox) + Len(Unread(s, c, q)) <= MaxAhead
  /\ k <= Len(Unread(s, c, q))
  /\ ~secure => k = Len(q)

Read(s, c, q, k) ==
  [s EXCEPT !.conn[c].inbox = @ \o SubSeq(Unread(s, c, q), 1, k),
            !.conn[c].inner = SubSeq(Unread(s, c, q), k + 1, Len(Unread(s, c, q)))]

-----------------------------------------------------------------------------
(* The caller.                                                             *)

\* A call that fails forgets what it was doing; the Server keeps its tables.
CallFails ==
  /\ pc' = "idle"
  /\ held' = None
  /\ back' = "turn"
  /\ events' = {}
  /\ late' = {}
  /\ index' = 0

First ==
  /\ pc = "idle"
  /\ pc' = "turn"
  /\ UNCHANGED <<secure, server, listening, lent, held, back, events, late, index>>

\* `accept` waits for a caller of its own and hands it out.  The exchange has no
\* token and is in no table.
Accept(c) ==
  /\ pc = "idle"
  /\ Phase(server, c) = "Closed"
  /\ \E q \in Ahead, k \in 0..MaxAhead :
       LET s == [server EXCEPT !.conn[c].phase = "Ready"]
       IN CanRead(s, c, q, k) /\ server' = Read(s, c, q, k)
  /\ lent' = lent \union {c}
  /\ UNCHANGED <<secure, listening, call>>

\* The caller deinits an exchange itself instead of giving it to `next`.
Discard(c) ==
  /\ pc = "idle"
  /\ c \in lent
  /\ lent' = lent \ {c}
  /\ server' = Deinit(server, c)
  /\ UNCHANGED <<secure, listening, call>>

\* `next` gives c back, and keep decides what becomes of it.
Keep(c, s, to) ==
  /\ pc = "idle"
  /\ c \in lent
  /\ to = "join" => Token(server, c) # 0 \/ CanClaim(server)
  /\ lent' = lent \ {c}
  /\ server' = s
  /\ pc' = to
  /\ held' = IF to = "join" THEN c ELSE None
  /\ UNCHANGED <<secure, listening, back, events, late, index>>

KeepCarries(c) == Keep(c, Reopen(server, c), "join")
KeepLingers(c) == Keep(c, BeginLingering(server, c), "join")

\* One that was never answered is closed at once.
KeepCloses(c) ==
  Keep(c, IF Token(server, c) = 0 THEN Deinit(server, c)
          ELSE Retire(Deinit(server, c), Token(server, c)), "turn")

\* reopen or begin_lingering failed: errdefer deinits the exchange.
KeepFails(c) == Keep(c, Deinit(server, c), "idle")

-----------------------------------------------------------------------------
(* hold and restore.                                                       *)

Hold ==
  /\ pc = "join"
  /\ Token(server, held) = 0
  /\ server' = Claim(server, held)
  /\ UNCHANGED <<secure, listening, lent, call>>

\* watch_read failed: errdefer deinits the exchange.
HoldFails ==
  /\ pc = "join"
  /\ Token(server, held) = 0
  /\ server' = Deinit(Claim(server, held), held)
  /\ CallFails
  /\ UNCHANGED <<secure, listening, lent>>

Join ==
  /\ pc = "join"
  /\ Token(server, held) # 0
  /\ server' = Restore(server, held)
  /\ pc' = back
  /\ held' = None
  /\ back' = "turn"
  /\ UNCHANGED <<secure, listening, lent, events, late, index>>

JoinFails ==
  /\ pc = "join"
  /\ Token(server, held) # 0
  /\ HasHead(server, held, "bad") /\ CloseCanFail(server, held)
  /\ server' = Enter(server, held)
  /\ CallFails
  /\ UNCHANGED <<secure, listening, lent>>

-----------------------------------------------------------------------------
(* wait_for_one.                                                           *)

Turn ==
  /\ pc = "turn"
  /\ server' = SettleTokens(server)
  /\ pc' = "settled"
  /\ UNCHANGED <<secure, listening, lent, held, back, events, late, index>>

\* Mutant: a name on the list is believed.
DoneBelieved(s, c) == TRUE

\* settle_at's answer: what c holds is a whole request.
Done(s, c) == Phase(s, c) = "Ready"

\* settled takes one name off the list and checks it; a whole request leaves the
\* table for the caller.  The list is emptied before every wait, so whoever is on
\* it was parsed when its name was noted: the `step` of settle_at finds nothing
\* more to parse, and nothing to fail on.
Settled ==
  /\ pc = "settled"
  /\ server.settled # <<>>
  /\ LET popped == [server EXCEPT !.settled = Front(@)]
         slot == server.slotOf[Last(server.settled)]
     IN \/ /\ slot = 0
           /\ server' = popped
           /\ UNCHANGED <<pc, held>>
        \/ /\ slot # 0
           /\ LET c == server.open[slot]
                  s == Parsed(popped, c)
              IN IF Done(s, c)
                   THEN server' = TakeOut(s, slot) /\ pc' = "body" /\ held' = c
                   ELSE server' = s /\ UNCHANGED <<pc, held>>
  /\ UNCHANGED <<secure, listening, lent, back, events, late, index>>

\* take_whole_body, of `first` and `next`.  Reading the body may bring heads that
\* follow it.
Body ==
  /\ pc = "body"
  /\ \E q \in Ahead, k \in 0..MaxAhead :
       CanRead(server, held, q, k) /\ server' = Read(server, held, q, k)
  /\ lent' = lent \union {held}
  /\ pc' = "idle"
  /\ held' = None
  /\ UNCHANGED <<secure, listening, back, events, late, index>>

\* The peer is told, and errdefer deinits the exchange.
BodyFails ==
  /\ pc = "body"
  /\ server' = Deinit(server, held)
  /\ CallFails
  /\ UNCHANGED <<secure, listening, lent>>

SettleListener ==
  /\ pc = "settled"
  /\ server.settled = <<>>
  /\ listening' = ~AtCapacity(server)
  /\ pc' = "wait"
  /\ UNCHANGED <<secure, server, lent, held, back, events, late, index>>

\* The poller could not add or remove the listener.
SettleListenerFails ==
  /\ pc = "settled"
  /\ server.settled = <<>>
  /\ listening = AtCapacity(server)
  /\ CallFails
  /\ UNCHANGED <<secure, server, listening, lent>>

\* A connection is under the poller from hold to the close of its descriptor.
Watched ==
  {[token |-> Token(server, c), conn |-> c] : c \in {d \in Conns : Token(server, d) # 0}}
    \union (IF listening THEN {Listener} ELSE {})

Wait ==
  /\ pc = "wait"
  /\ events' \in SUBSET Watched
  /\ pc' = "hear"
  /\ UNCHANGED <<secure, server, listening, lent, held, back, late, index>>

WaitFails ==
  /\ pc = "wait"
  /\ CallFails
  /\ UNCHANGED <<secure, server, listening, lent>>

-----------------------------------------------------------------------------
(* hear: one event.                                                        *)

Slot(e) == server.slotOf[e.token]
Named(e) == server.open[Slot(e)]

\* The event's connection is in the table, and s is what fill_at makes of it.
Hear(e, s) ==
  /\ server' = s
  /\ events' = events \ {e}
  /\ UNCHANGED <<secure, listening, lent, pc, held, back, late, index>>

Hears(e) == pc = "hear" /\ e \in events \ {Listener} /\ Slot(e) # 0

\* The event is about a connection that is not in the table.
HearNobody(e) ==
  /\ pc = "hear"
  /\ e \in events \ {Listener}
  /\ Slot(e) = 0
  /\ Hear(e, server)

\* What advance reads from, or waits for, is there before a read.
NeedsRead(c) ==
  \/ Phase(server, c) \in {"Handshaking", "Lingering"}
  \/ Phase(server, c) = "ReadingHead" /\ server.conn[c].inbox = <<>>

\* discard_ready drops what a lingering connection holds.
Dropped(s, c) ==
  IF Phase(s, c) = "Lingering" THEN [s EXCEPT !.conn[c].inbox = <<>>] ELSE s

\* Nothing has arrived, or the handshake needs more; or it is bytes to drop.
HearNothing(e) ==
  /\ Hears(e)
  /\ NeedsRead(Named(e))
  /\ Phase(server, Named(e)) = "Lingering" \/ server.conn[Named(e)].inner = <<>>
  /\ Hear(e, Dropped(server, Named(e)))

\* The peer closed, or the read or the handshake failed with nobody to answer.
HearClosed(e) ==
  /\ Hears(e)
  /\ NeedsRead(Named(e))
  /\ Hear(e, DropAt(server, Slot(e)))

\* The read or the handshake failed otherwise.
HearRefuses(e) ==
  /\ Hears(e)
  /\ NeedsRead(Named(e))
  /\ Hear(e, BeginLingering(Dropped(server, Named(e)), Named(e)))

\* What is in the inbox is enough.
HearParses(e) ==
  /\ Hears(e)
  /\ ~NeedsRead(Named(e))
  /\ Hear(e, NoteSettled(Parsed(server, Named(e)), Named(e)))

\* The end of the handshake, then what came behind it; or one read.
Awake(c) == [server EXCEPT !.conn[c].phase = "ReadingHead"]

HearReads(e) ==
  /\ Hears(e)
  /\ LET c == Named(e)
         s == Awake(c)
     IN /\ NeedsRead(c)
        /\ Phase(server, c) # "Lingering"
        /\ \E q \in Ahead, k \in 0..MaxAhead :
             /\ CanRead(s, c, q, k)
             /\ Hear(e, NoteSettled(Parsed(Read(s, c, q, k), c), c))

\* begin_lingering failed: for a head that was here or has just been read, or for
\* a read that failed, which advance comes to, behind the end of the handshake
\* too, when the inbox has no request.
HearFails(e) ==
  /\ Hears(e)
  /\ LET c == Named(e)
         s == Awake(c)
     IN /\ Phase(server, c) \in {"Handshaking", "ReadingHead"}
        /\ CloseCanFail(s, c)
        /\ \/ /\ ~HasHead(s, c, "request")
              /\ server' = s
           \/ /\ NeedsRead(c)
              /\ \E q \in Ahead, k \in 0..MaxAhead :
                   /\ CanRead(s, c, q, k)
                   /\ HasHead(Read(s, c, q, k), c, "bad")
                   /\ server' = Read(s, c, q, k)
  /\ CallFails
  /\ UNCHANGED <<secure, listening, lent>>

HearListener ==
  /\ pc = "hear"
  /\ Listener \in events
  /\ events' = events \ {Listener}
  /\ pc' = "take"
  /\ UNCHANGED <<secure, server, listening, lent, held, back, late, index>>

\* take_new: one caller of the backlog.
TakeNew(c) ==
  /\ pc = "take"
  /\ ~AtCapacity(server)
  /\ CanClaim(server)
  /\ Phase(server, c) = "Closed"
  /\ server' = [server EXCEPT !.conn[c] = Opening]
  /\ held' = c
  /\ pc' = "join"
  /\ back' = "take"
  /\ UNCHANGED <<secure, listening, lent, events, late, index>>

\* The server is full, or nobody is waiting.
TakeNoMore ==
  /\ pc = "take"
  /\ pc' = "hear"
  /\ UNCHANGED <<secure, server, listening, lent, held, back, events, late, index>>

TakeFails ==
  /\ pc = "take"
  /\ ~AtCapacity(server)
  /\ CallFails
  /\ UNCHANGED <<secure, server, listening, lent>>

-----------------------------------------------------------------------------
(* sweep.                                                                  *)

SweepStart(s) == Len(s.open)

BeginSweep ==
  /\ pc = "hear"
  /\ events = {}
  /\ pc' = "sweep"
  /\ late' \in SUBSET ToSet(server.open)
  /\ index' = SweepStart(server)
  /\ UNCHANGED <<secure, server, listening, lent, held, back, events>>

Sweep(s) ==
  /\ server' = s
  /\ late' = late \ {server.open[index]}
  /\ index' = index - 1
  /\ UNCHANGED <<secure, listening, lent, pc, held, back, events>>

InTime ==
  /\ pc = "sweep" /\ index > 0
  /\ server.open[index] \notin late
  /\ Sweep(server)

\* A lingering connection has waited long enough; any other is told first.
OutOfTime ==
  /\ pc = "sweep" /\ index > 0
  /\ server.open[index] \in late
  /\ IF Phase(server, server.open[index]) = "Lingering"
       THEN Sweep(DropAt(server, index))
       ELSE Sweep(BeginLingering(server, server.open[index]))

SweepFails ==
  /\ pc = "sweep" /\ index > 0
  /\ server.open[index] \in late
  /\ Phase(server, server.open[index]) # "Lingering"
  /\ CloseCanFail(server, server.open[index])
  /\ CallFails
  /\ UNCHANGED <<secure, server, listening, lent>>

EndSweep ==
  /\ pc = "sweep" /\ index = 0
  /\ pc' = "turn"
  /\ UNCHANGED <<secure, server, listening, lent, held, back, events, late, index>>

-----------------------------------------------------------------------------
Next ==
  \/ First
  \/ \E c \in Conns :
       \/ Accept(c) \/ Discard(c)
       \/ KeepCarries(c) \/ KeepLingers(c) \/ KeepCloses(c) \/ KeepFails(c)
       \/ TakeNew(c)
  \/ Hold \/ HoldFails \/ Join \/ JoinFails
  \/ Turn \/ Settled \/ Body \/ BodyFails
  \/ SettleListener \/ SettleListenerFails \/ Wait \/ WaitFails
  \/ \E e \in events :
       \/ HearNobody(e) \/ HearNothing(e) \/ HearClosed(e) \/ HearRefuses(e)
       \/ HearParses(e) \/ HearReads(e) \/ HearFails(e)
  \/ HearListener \/ TakeNoMore \/ TakeFails
  \/ BeginSweep \/ InTime \/ OutOfTime \/ SweepFails \/ EndSweep

Spec == Init /\ [][Next]_vars

-----------------------------------------------------------------------------
(* Properties.                                                             *)

Live == {c \in Conns : Phase(server, c) # "Closed"}
Tokened == {c \in Conns : Token(server, c) # 0}
InTable == ToSet(server.open)

\* slot_of and open say the same of every connection, through every swap that
\* take_out makes: the slot of a token is where the connection that has it is,
\* and a connection is in the table, with the caller or in the call's hands, never
\* in two of these and never nowhere. A token belongs to one connection for as long
\* as that lasts: no two have the same one, and none that a connection has is spare
\* or retiring, or in those lists twice.
TableAgrees ==
  LET free == server.spare \o server.retiring IN
  /\ \A i \in DOMAIN server.open :
       Token(server, server.open[i]) # 0 /\ server.slotOf[Token(server, server.open[i])] = i
  /\ \A t \in DOMAIN server.slotOf :
       server.slotOf[t] # 0 =>
         server.slotOf[t] \in DOMAIN server.open /\ Token(server, server.open[server.slotOf[t]]) = t
  /\ Live = InTable \union lent \union ({held} \ {None})
  /\ InTable \intersect lent = {}
  /\ held \notin InTable \union lent
  /\ IsInjective(free)
  /\ \A c \in Tokened : Token(server, c) \notin ToSet(free)
  /\ \A c, d \in Tokened : Token(server, c) = Token(server, d) => c = d

\* wait_for_one waits only when no connection it would wait for has a whole
\* request in hand, however the request got there: read, sent ahead of the answer
\* to the one before, or left over by a call that failed.
NothingOverlooked ==
  pc = "wait" =>
    \A c \in InTable : Phase(server, c) # "Ready" /\ ~HasHead(server, c, "request")

\* The exchange that is handed out has a whole request, although a sweep may have
\* given it up since its name went on settled_tokens, in this call or in one that
\* failed.
HandedWhole == pc = "body" => Phase(server, held) = "Ready"

\* A connection that is being closed in stages never carries another request, not
\* even one that it had sent ahead.
LingeringEnds ==
  [][\A c \in Conns :
       Phase(server, c) = "Lingering" => Phase(server', c) \in {"Lingering", "Closed"}]_vars

\* Symmetry of the instances TLC checks.
ConnSymmetry == Permutations(Conns)

=============================================================================
