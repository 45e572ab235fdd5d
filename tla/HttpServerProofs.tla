-------------------------- MODULE HttpServerProofs --------------------------
(***************************************************************************)
(* Proofs about HttpServer, for any finite set of connections, any ceiling *)
(* on them and any bound on what they send ahead.                          *)
(***************************************************************************)
EXTENDS HttpServer, FiniteSetTheorems, SequenceTheorems, TLAPS

-----------------------------------------------------------------------------
(* The inductive invariant                                                 *)

\* The tokens that nobody has, and those that a wait has still to settle.
Free(s) == s.spare \o s.retiring

\* The slot of a token is where the connection that has it is.
Slots(s) ==
  /\ \A i \in DOMAIN s.open : Token(s, s.open[i]) # 0 /\ s.slotOf[Token(s, s.open[i])] = i
  /\ \A t \in DOMAIN s.slotOf :
       s.slotOf[t] # 0 => s.slotOf[t] \in DOMAIN s.open /\ Token(s, s.open[s.slotOf[t]]) = t

\* Each list names tokens that were made.
Made(s) ==
  \A list \in {s.spare, s.retiring, s.settled} : \A i \in DOMAIN list : list[i] \in DOMAIN s.slotOf

\* A token that was made belongs to one connection, or is free once, or is lost.
Tokens(s) ==
  /\ IsInjective(Free(s))
  /\ \A c \in Conns : Token(s, c) # 0 => Token(s, c) \in DOMAIN s.slotOf \ ToSet(Free(s))
  /\ \A c, d \in Conns : Token(s, c) # 0 /\ Token(s, c) = Token(s, d) => c = d

\* A connection is in the table, with the caller (l) or in the call's hands (h).
Places(s, l, h) ==
  /\ {c \in Conns : Phase(s, c) # "Closed"} = ToSet(s.open) \union l \union ({h} \ {None})
  /\ ToSet(s.open) \intersect l = {}
  /\ h \notin ToSet(s.open) \union l

\* Whoever is in the table has been parsed, and a whole request has been noted.
Looked(s) ==
  \A c \in ToSet(s.open) :
    /\ ~HasHead(s, c, "request")
    /\ Phase(s, c) = "Ready" => Token(s, c) \in ToSet(s.settled)

\* Where a call is, and what it has in hand.
CallInv ==
  /\ held # None <=> pc \in {"join", "body"}
  /\ pc = "body" => Phase(server, held) = "Ready"
  /\ pc = "join" => Token(server, held) # 0 \/ CanClaim(server)
  /\ pc = "wait" => server.settled = <<>>
  /\ pc = "sweep" => index <= Len(server.open)
  /\ \A e \in events \ {Listener} : e.token \in DOMAIN server.slotOf
  /\ \A c \in lent : Phase(server, c) = "Ready"

ServerInv ==
  /\ TypeOK
  /\ Slots(server) /\ Tokens(server) /\ Places(server, lent, held) /\ Looked(server)
  /\ CallInv

-----------------------------------------------------------------------------
(* Exchanges, and the heads they hold                                      *)

\* A connection sends no more ahead than the bound.
LEMMA AheadIs == \A q : q \in Ahead <=> q \in Seq(Heads) /\ Len(q) <= MaxAhead
<1>0. MaxAhead \in Nat
  BY BoundsAssumption
<1>1. ASSUME NEW q \in Ahead PROVE q \in Seq(Heads) /\ Len(q) <= MaxAhead
  <2>1. PICK n \in 0 .. MaxAhead : q \in [1 .. n -> Heads]
    BY <1>1 DEF Ahead
  <2>2. n \in Nat /\ n <= MaxAhead
    BY <1>0, <2>1
  <2>3. q \in Seq(Heads)
    BY <2>1, <2>2, SeqDef
  <2>4. Len(q) = n
    BY <2>1, <2>2, <2>3, LenProperties
  <2> QED
    BY <2>2, <2>3, <2>4
<1>2. ASSUME NEW q \in Seq(Heads), Len(q) <= MaxAhead PROVE q \in Ahead
  <2>1. Len(q) \in 0 .. MaxAhead /\ q \in [1 .. Len(q) -> Heads]
    BY <1>0, <1>2, LenProperties
  <2> QED
    BY <2>1 DEF Ahead
<1> QED
  BY <1>1, <1>2

\* A connection that is closed, and one that was just accepted.
LEMMA DeinitedIs ==
  /\ Deinited \in Exchange
  /\ Deinited.phase = "Closed" /\ Deinited.inbox = <<>> /\ Deinited.token = 0
  /\ Opening \in Exchange
  /\ Opening.phase \in {"Handshaking", "ReadingHead"} /\ Opening.inbox = <<>> /\ Opening.token = 0
<1>0. MaxAhead \in Nat /\ 0 \in 0 .. MaxTokens
  BY BoundsAssumption
<1>1. <<>> \in Ahead
  <2>1. PICK e : e = <<>>
    OBVIOUS
  <2>2. e \in Seq(Heads) /\ Len(e) = 0
    BY <2>1, EmptySeq
  <2>3. Len(e) <= MaxAhead
    BY <1>0, <2>2
  <2>4. e \in Ahead
    BY <2>2, <2>3, AheadIs
  <2> QED
    BY <2>1, <2>4
<1>2. Deinited \in Exchange
  BY <1>0, <1>1 DEF Deinited, Exchange, Phases
<1>3. Deinited.phase = "Closed" /\ Deinited.inbox = <<>> /\ Deinited.token = 0
  BY DEF Deinited
<1> DEFINE p == IF secure THEN "Handshaking" ELSE "ReadingHead"
<1>4. p \in {"Handshaking", "ReadingHead"} /\ p \in Phases /\ Opening = [Deinited EXCEPT !.phase = p]
  BY DEF Phases, Opening
<1> HIDE DEF p
<1>5. Opening \in Exchange /\ Opening.phase = p /\ Opening.inbox = <<>> /\ Opening.token = 0
  BY <1>2, <1>3, <1>4 DEF Exchange
<1> QED
  BY <1>2, <1>3, <1>4, <1>5

-----------------------------------------------------------------------------
(* What the operations change                                              *)

\* From s to r nothing but the exchange of c changes.
Only(s, r, c) ==
  /\ r \in Tables
  /\ r.open = s.open /\ r.slotOf = s.slotOf
  /\ r.spare = s.spare /\ r.retiring = s.retiring /\ r.settled = s.settled
  /\ \A d \in Conns : d # c => r.conn[d] = s.conn[d]

\* An exchange put in its place changes that connection only.
LEMMA Put ==
  ASSUME NEW s \in Tables, NEW c \in Conns, NEW x \in Exchange
  PROVE  Only(s, [s EXCEPT !.conn[c] = x], c) /\ [s EXCEPT !.conn[c] = x].conn[c] = x
<1> DEFINE f == [s.conn EXCEPT ![c] = x]
           r == [s EXCEPT !.conn = f]
<1>1. f \in [Conns -> Exchange] /\ f[c] = x /\ \A d \in Conns : d # c => f[d] = s.conn[d]
  BY DEF Tables
<1>2. [s EXCEPT !.conn[c] = x] = r
  OBVIOUS
<1> HIDE DEF f
<1>3. /\ r \in Tables /\ r.conn = f /\ r.open = s.open /\ r.slotOf = s.slotOf
      /\ r.spare = s.spare /\ r.retiring = s.retiring /\ r.settled = s.settled
  BY <1>1 DEF Tables
<1> QED
  BY <1>1, <1>2, <1>3 DEF Only

\* r is s with the phase of c at p.
Moved(s, r, c, p) ==
  /\ Only(s, r, c)
  /\ r.conn[c].phase = p /\ r.conn[c].token = s.conn[c].token
  /\ r.conn[c].inbox = s.conn[c].inbox /\ r.conn[c].inner = s.conn[c].inner

\* A change of phase changes that connection's phase only.
LEMMA Moves ==
  ASSUME NEW s \in Tables, NEW c \in Conns, NEW p \in Phases
  PROVE  Moved(s, [s EXCEPT !.conn[c].phase = p], c, p)
<1> DEFINE x == [s.conn[c] EXCEPT !.phase = p]
<1>0. s.conn[c] \in Exchange
  BY DEF Tables
<1>1. x \in Exchange
  BY <1>0 DEF Exchange
<1>2. /\ x.phase = p /\ x.token = s.conn[c].token
      /\ x.inbox = s.conn[c].inbox /\ x.inner = s.conn[c].inner
  BY <1>0 DEF Exchange
<1>3. [s EXCEPT !.conn[c].phase = p] = [s EXCEPT !.conn[c] = x]
  OBVIOUS
<1> HIDE DEF x
<1> QED
  BY <1>1, <1>2, <1>3, Put DEF Moved

\* The phases reopen, begin_lingering and hear move a connection to.
LEMMA MovesTo ==
  ASSUME NEW s \in Tables, NEW c \in Conns
  PROVE  /\ Moved(s, Reopen(s, c), c, "ReadingHead")
         /\ Moved(s, BeginLingering(s, c), c, "Lingering")
         /\ Moved(s, [s EXCEPT !.conn[c].phase = "Ready"], c, "Ready")
<1>1. {"ReadingHead", "Lingering", "Ready"} \subseteq Phases
  BY DEF Phases
<1> QED
  BY <1>1, Moves DEF Reopen, BeginLingering

\* A connection that deinit closed.
LEMMA Deinits ==
  ASSUME NEW s \in Tables, NEW c \in Conns
  PROVE  Only(s, Deinit(s, c), c) /\ Deinit(s, c).conn[c] = Deinited
  BY Put, DeinitedIs DEF Deinit

\* What a concatenation holds, place by place.
LEMMA Joined ==
  ASSUME NEW S, NEW p \in Seq(S), NEW q \in Seq(S)
  PROVE  /\ p \o q \in Seq(S) /\ Len(p \o q) = Len(p) + Len(q)
         /\ \A i \in 1 .. Len(p) + Len(q) :
              (p \o q)[i] = IF i <= Len(p) THEN p[i] ELSE q[i - Len(p)]
  OBVIOUS

\* The first of what was sent ahead.
LEMMA HeadOf ==
  ASSUME NEW q \in Ahead, q # <<>>
  PROVE  Head(q) \in Heads /\ Tail(q) \in Ahead
<1>1. q \in Seq(Heads) /\ Len(q) <= MaxAhead /\ MaxAhead \in Nat
  BY AheadIs, BoundsAssumption
<1>2. Head(q) \in Heads /\ Tail(q) \in Seq(Heads) /\ Len(Tail(q)) = Len(q) - 1 /\ Len(q) \in Nat
  BY <1>1, HeadTailProperties
<1>3. Len(Tail(q)) <= MaxAhead
  BY <1>1, <1>2
<1> QED
  BY <1>2, <1>3, AheadIs

\* step and settle_at's refusal: afterwards no whole head waits to be parsed.
\* The connection keeps its token and is not closed, and only one that was
\* reading a head is moved.
Reads(s, r, c) ==
  /\ Only(s, r, c)
  /\ r.conn[c].token = s.conn[c].token
  /\ r.conn[c].phase = "Closed" => s.conn[c].phase = "Closed"

\* Parsing leaves no head that is there unparsed, and no other connection changed.
LEMMA Parses ==
  ASSUME NEW s \in Tables, NEW c \in Conns
  PROVE  /\ Reads(s, Parsed(s, c), c)
         /\ Parsed(s, c).conn[c].phase = "ReadingHead" => Parsed(s, c).conn[c].inbox = <<>>
         /\ ~HasHead(Parsed(s, c), c, "request")
         /\ s.conn[c].phase # "ReadingHead" => Parsed(s, c) = s
         /\ ~HasHead(s, c, "request") /\ s.conn[c].phase # "Ready" =>
              Parsed(s, c).conn[c].phase # "Ready"
<1>0. s.conn[c] \in Exchange /\ s.conn[c].inbox \in Ahead
  BY DEF Tables, Exchange
<1>1. CASE HasHead(s, c, "bad")
  <2>1. Moved(s, Parsed(s, c), c, "Lingering")
    BY <1>1, MovesTo DEF Parsed
  <2> QED
    BY <1>1, <2>1 DEF Moved, Reads, HasHead, Phase
<1>2. CASE HasHead(s, c, "request")
  <2> DEFINE x == [s.conn[c] EXCEPT !.phase = "Ready", !.inbox = Tail(@)]
             r == [s EXCEPT !.conn[c] = x]
  <2>1. ~HasHead(s, c, "bad")
    BY <1>2 DEF HasHead
  <2>2. Parsed(s, c) = r
    BY <1>2, <2>1 DEF Parsed, Step
  <2>3. s.conn[c].phase = "ReadingHead" /\ Tail(s.conn[c].inbox) \in Ahead
    BY <1>0, <1>2, HeadOf DEF HasHead, Phase
  <2>4. "Ready" \in Phases
    BY DEF Phases
  <2>5. x \in Exchange /\ x.phase = "Ready" /\ x.token = s.conn[c].token
    BY <1>0, <2>3, <2>4 DEF Exchange
  <2> HIDE DEF x
  <2>6. Only(s, r, c) /\ r.conn[c] = x
    BY <2>5, Put
  <2> QED
    BY <1>2, <2>2, <2>3, <2>5, <2>6 DEF Reads, HasHead, Phase
<1>3. CASE ~HasHead(s, c, "bad") /\ ~HasHead(s, c, "request")
  <2>1. Parsed(s, c) = s
    BY <1>3 DEF Parsed, Step
  <2>2. s.conn[c].phase = "ReadingHead" => s.conn[c].inbox = <<>>
    BY <1>0, <1>3, HeadOf DEF HasHead, Phase, Heads
  <2> QED
    BY <1>3, <2>1, <2>2 DEF Reads, Only
<1> QED
  BY <1>1, <1>2, <1>3

\* One read appends to what the Reader holds, and leaves the rest inside TLS.
LEMMA ReadDoes ==
  ASSUME NEW s \in Tables, NEW c \in Conns, NEW q \in Ahead, NEW k \in 0 .. MaxAhead,
         CanRead(s, c, q, k)
  PROVE  /\ Reads(s, Read(s, c, q, k), c)
         /\ Read(s, c, q, k).conn[c].phase = s.conn[c].phase
<1> DEFINE u == Unread(s, c, q)
           a == s.conn[c].inbox \o SubSeq(u, 1, k)
           b == SubSeq(u, k + 1, Len(u))
           x == [s.conn[c] EXCEPT !.inbox = a, !.inner = b]
           r == [s EXCEPT !.conn[c] = x]
<1>0. MaxAhead \in Nat /\ k \in Nat
  BY BoundsAssumption
<1>1. s.conn[c] \in Exchange /\ s.conn[c].inbox \in Ahead /\ s.conn[c].inner \in Ahead
  BY DEF Tables, Exchange
<1>2. /\ s.conn[c].inbox \in Seq(Heads) /\ s.conn[c].inner \in Seq(Heads) /\ q \in Seq(Heads)
  BY <1>1, AheadIs
<1>3. u \in Seq(Heads) /\ Len(u) \in Nat
  BY <1>2 DEF Unread
<1>4. Len(s.conn[c].inbox) + Len(u) <= MaxAhead /\ k <= Len(u)
  BY DEF CanRead
<1> HIDE DEF u
<1>5. SubSeq(u, 1, k) \in Seq(Heads) /\ Len(SubSeq(u, 1, k)) = k
  BY <1>0, <1>3, <1>4
<1>6. b \in Seq(Heads) /\ Len(b) = Len(u) - k
  BY <1>0, <1>3, <1>4
<1>7. Len(s.conn[c].inbox) \in Nat
  BY <1>2
<1>8. a \in Seq(Heads) /\ Len(a) = Len(s.conn[c].inbox) + k
  <2> DEFINE v == SubSeq(u, 1, k)
  <2>1. v \in Seq(Heads) /\ Len(v) = k
    BY <1>5
  <2> HIDE DEF v
  <2>2. s.conn[c].inbox \o v \in Seq(Heads) /\ Len(s.conn[c].inbox \o v) = Len(s.conn[c].inbox) + k
    BY <1>2, <2>1, Joined
  <2> QED
    BY <2>2 DEF v
<1>9. a \in Ahead /\ b \in Ahead
  <2> HIDE DEF a, b
  <2>1. Len(a) <= MaxAhead /\ Len(b) <= MaxAhead
    BY <1>0, <1>3, <1>4, <1>6, <1>7, <1>8
  <2> QED
    BY <1>6, <1>8, <2>1, AheadIs
<1>10. Read(s, c, q, k) = r
  BY DEF Read, u
<1> HIDE DEF a, b
<1>11. x \in Exchange /\ x.phase = s.conn[c].phase /\ x.token = s.conn[c].token
  BY <1>1, <1>9 DEF Exchange
<1> HIDE DEF x
<1> QED
  BY <1>10, <1>11, Put DEF Reads

-----------------------------------------------------------------------------
(* What the tables keep                                                    *)

Core(s) ==
  /\ s \in Tables /\ Len(s.slotOf) <= MaxTokens
  /\ Made(s) /\ Slots(s) /\ Tokens(s)

\* The types of the server's tables.
LEMMA CoreTypes ==
  ASSUME NEW s, Core(s)
  PROVE  /\ s.conn \in [Conns -> Exchange] /\ s.open \in Seq(Conns) /\ s.slotOf \in Seq(Nat)
         /\ s.spare \in Seq(Nat) /\ s.retiring \in Seq(Nat) /\ s.settled \in Seq(Nat)
         /\ Len(s.open) \in Nat /\ Len(s.slotOf) \in Nat
         /\ DOMAIN s.open = 1 .. Len(s.open) /\ DOMAIN s.slotOf = 1 .. Len(s.slotOf)
         /\ \A c \in Conns : s.conn[c] \in Exchange /\ Token(s, c) \in Nat
         /\ \A i \in DOMAIN s.open : s.open[i] \in Conns /\ s.open[i] \in ToSet(s.open)
         /\ \A c \in ToSet(s.open) : c \in Conns /\ \E i \in DOMAIN s.open : s.open[i] = c
<1>1. /\ s.conn \in [Conns -> Exchange] /\ s.open \in Seq(Conns) /\ s.slotOf \in Seq(Nat)
      /\ s.spare \in Seq(Nat) /\ s.retiring \in Seq(Nat) /\ s.settled \in Seq(Nat)
  BY DEF Core, Tables
<1>2. \A c \in Conns : s.conn[c] \in Exchange /\ Token(s, c) \in Nat
  BY <1>1, BoundsAssumption DEF Exchange, Token
<1>3. /\ Len(s.open) \in Nat /\ Len(s.slotOf) \in Nat
      /\ DOMAIN s.open = 1 .. Len(s.open) /\ DOMAIN s.slotOf = 1 .. Len(s.slotOf)
  BY <1>1
<1>4. /\ \A i \in DOMAIN s.open : s.open[i] \in Conns /\ s.open[i] \in ToSet(s.open)
      /\ \A c \in ToSet(s.open) : c \in Conns /\ \E i \in DOMAIN s.open : s.open[i] = c
  BY <1>1 DEF ToSet
<1> QED
  BY <1>1, <1>2, <1>3, <1>4

\* A connection in the table stands at one place of it.
LEMMA OnePlace ==
  ASSUME NEW s, Core(s), NEW i \in DOMAIN s.open, NEW j \in DOMAIN s.open, s.open[i] = s.open[j]
  PROVE  i = j
  BY DEF Core, Slots

\* The tables do not care what an exchange holds, as long as it keeps its token,
\* and one that is in no table may lose that.
LEMMA OnlyKeeps ==
  ASSUME NEW s, Core(s), NEW c \in Conns, NEW r, Only(s, r, c),
         Token(r, c) = Token(s, c) \/ (Token(r, c) = 0 /\ c \notin ToSet(s.open))
  PROVE  Core(r)
<1>0. \A d \in Conns : Token(r, d) = Token(s, d) \/ (d = c /\ Token(r, d) = 0)
  BY DEF Only, Token
<1>1. r \in Tables /\ Len(r.slotOf) <= MaxTokens /\ Made(r)
  BY DEF Only, Core, Made
<1>2. \A i \in DOMAIN s.open : s.open[i] \in Conns /\ s.open[i] \in ToSet(s.open)
  BY CoreTypes
<1>3. \A i \in DOMAIN s.open : Token(r, s.open[i]) = Token(s, s.open[i])
  BY <1>0, <1>2
<1>4. Slots(r)
  BY <1>3 DEF Only, Core, Slots
<1>5. Free(r) = Free(s) /\ r.slotOf = s.slotOf
  BY DEF Only, Free
<1>6. Tokens(r)
  BY <1>0, <1>5 DEF Core, Tokens
<1> QED
  BY <1>1, <1>4, <1>6 DEF Core

\* The name of a whole request goes on the list.
LEMMA Notes ==
  ASSUME NEW s, Core(s), NEW c \in Conns, Token(s, c) # 0
  PROVE  /\ Core(NoteSettled(s, c))
         /\ NoteSettled(s, c).conn = s.conn /\ NoteSettled(s, c).open = s.open
         /\ NoteSettled(s, c).slotOf = s.slotOf
         /\ ToSet(s.settled) \subseteq ToSet(NoteSettled(s, c).settled)
         /\ Phase(s, c) = "Ready" => Token(s, c) \in ToSet(NoteSettled(s, c).settled)
<1>1. CASE Phase(s, c) # "Ready"
  BY <1>1 DEF NoteSettled
<1>2. CASE Phase(s, c) = "Ready"
  <2> DEFINE t == Token(s, c)
             l == Append(s.settled, t)
             r == [s EXCEPT !.settled = l]
  <2>0. s \in Tables /\ s.settled \in Seq(Nat) /\ t \in Nat /\ t \in DOMAIN s.slotOf
    BY CoreTypes DEF Core, Tokens
  <2>1. NoteSettled(s, c) = r
    BY <1>2 DEF NoteSettled
  <2> HIDE DEF t
  <2>2. /\ l \in Seq(Nat) /\ Len(l) = Len(s.settled) + 1 /\ l[Len(s.settled) + 1] = t
        /\ \A i \in 1 .. Len(s.settled) : l[i] = s.settled[i]
    BY <2>0
  <2>3. DOMAIN l = 1 .. Len(s.settled) + 1 /\ DOMAIN s.settled = 1 .. Len(s.settled)
        /\ Len(s.settled) \in Nat
    BY <2>0, <2>2
  <2> HIDE DEF l
  <2>4. /\ r \in Tables /\ r.conn = s.conn /\ r.open = s.open /\ r.slotOf = s.slotOf
        /\ r.spare = s.spare /\ r.retiring = s.retiring /\ r.settled = l
    BY <2>0, <2>2 DEF Tables
  <2> HIDE DEF r
  <2>5. ToSet(s.settled) \subseteq ToSet(l) /\ t \in ToSet(l)
    BY <2>2, <2>3 DEF ToSet
  <2>6. \A i \in DOMAIN l : l[i] \in DOMAIN s.slotOf
    <3>1. \A i \in DOMAIN s.settled : s.settled[i] \in DOMAIN s.slotOf
      BY DEF Core, Made
    <3> QED
      BY SMTT(30), <2>0, <2>2, <2>3, <3>1
  <2>7. Made(r)
    BY <2>4, <2>6 DEF Core, Made
  <2>8. Slots(r) /\ Tokens(r)
    BY <2>4 DEF Core, Slots, Tokens, Free, Token
  <2> QED
    BY <1>2, <2>1, <2>4, <2>5, <2>7, <2>8 DEF Core, t
<1> QED
  BY <1>1, <1>2

\* What a concatenation holds, and when it holds nothing twice.
LEMMA JoinedSet ==
  ASSUME NEW S, NEW p \in Seq(S), NEW q \in Seq(S)
  PROVE  /\ ToSet(p \o q) = ToSet(p) \union ToSet(q)
         /\ IsInjective(p \o q) <=>
              IsInjective(p) /\ IsInjective(q) /\ ToSet(p) \intersect ToSet(q) = {}
<1> DEFINE f == p \o q
<1>1. /\ Len(p) \in Nat /\ Len(q) \in Nat /\ DOMAIN p = 1 .. Len(p) /\ DOMAIN q = 1 .. Len(q)
  OBVIOUS
<1>2. /\ f \in Seq(S) /\ Len(f) = Len(p) + Len(q)
      /\ \A i \in 1 .. Len(p) + Len(q) : f[i] = IF i <= Len(p) THEN p[i] ELSE q[i - Len(p)]
  BY Joined
<1> HIDE DEF f
<1>3. DOMAIN f = 1 .. Len(p) + Len(q)
  BY <1>2
<1>4. ASSUME NEW i \in DOMAIN p PROVE i \in DOMAIN f /\ f[i] = p[i]
  BY <1>1, <1>2, <1>3
<1>5. ASSUME NEW i \in DOMAIN q PROVE Len(p) + i \in DOMAIN f /\ f[Len(p) + i] = q[i]
  <2>1. /\ Len(p) + i \in 1 .. Len(p) + Len(q) /\ ~(Len(p) + i <= Len(p))
        /\ (Len(p) + i) - Len(p) = i
    BY <1>1
  <2> QED
    BY <1>2, <1>3, <2>1
<1>6. ASSUME NEW k \in DOMAIN f
      PROVE  k \in DOMAIN p \/ \E i \in DOMAIN q : k = Len(p) + i
  <2>1. k \in DOMAIN p \/ (k - Len(p) \in DOMAIN q /\ k = Len(p) + (k - Len(p)))
    BY <1>1, <1>3
  <2> QED
    BY <2>1
<1>7. ToSet(f) = ToSet(p) \union ToSet(q)
  BY <1>4, <1>5, <1>6 DEF ToSet
<1>8. ASSUME IsInjective(f)
      PROVE  IsInjective(p) /\ IsInjective(q) /\ ToSet(p) \intersect ToSet(q) = {}
  <2>1. IsInjective(p)
    BY <1>4, <1>8 DEF IsInjective
  <2>2. ASSUME NEW a \in DOMAIN q, NEW b \in DOMAIN q, q[a] = q[b] PROVE a = b
    <3>1. Len(p) + a = Len(p) + b
      BY <1>5, <1>8, <2>2 DEF IsInjective
    <3> QED
      BY <1>1, <3>1
  <2>3. ASSUME NEW a \in DOMAIN p, NEW b \in DOMAIN q, p[a] = q[b] PROVE FALSE
    <3>1. a = Len(p) + b
      BY <1>4, <1>5, <1>8, <2>3 DEF IsInjective
    <3> QED
      BY <1>1, <3>1
  <2> QED
    BY <2>1, <2>2, <2>3 DEF IsInjective, ToSet
<1>9. ASSUME IsInjective(p), IsInjective(q), ToSet(p) \intersect ToSet(q) = {} PROVE IsInjective(f)
  <2> SUFFICES ASSUME NEW a \in DOMAIN f, NEW b \in DOMAIN f, f[a] = f[b] PROVE a = b
    BY DEF IsInjective
  <2>1. \A i \in DOMAIN p, j \in DOMAIN q : p[i] # q[j]
    BY <1>9 DEF ToSet
  <2>2. CASE a \in DOMAIN p /\ b \in DOMAIN p
    BY <1>4, <1>9, <2>2 DEF IsInjective
  <2>3. CASE a \in DOMAIN p /\ b \notin DOMAIN p
    BY <1>4, <1>5, <1>6, <2>1, <2>3
  <2>4. CASE a \notin DOMAIN p /\ b \in DOMAIN p
    BY <1>4, <1>5, <1>6, <2>1, <2>4
  <2>5. CASE a \notin DOMAIN p /\ b \notin DOMAIN p
    <3>1. PICK i \in DOMAIN q : a = Len(p) + i
      BY <1>6, <2>5
    <3>2. PICK j \in DOMAIN q : b = Len(p) + j
      BY <1>6, <2>5
    <3>3. q[i] = q[j]
      BY <1>5, <3>1, <3>2
    <3> QED
      BY <1>9, <3>1, <3>2, <3>3 DEF IsInjective
  <2> QED
    BY <2>2, <2>3, <2>4, <2>5
<1> QED
  BY <1>7, <1>8, <1>9 DEF f

\* What dropping the last entry, adding one and turning a list round change.
LEMMA Popped ==
  ASSUME NEW S, NEW q \in Seq(S), q # <<>>
  PROVE  /\ Front(q) \in Seq(S) /\ Len(Front(q)) = Len(q) - 1 /\ Len(q) \in Nat \ {0}
         /\ \A i \in 1 .. Len(q) - 1 : Front(q)[i] = q[i]
         /\ ToSet(q) = ToSet(Front(q)) \union {Last(q)}
         /\ Last(q) \in S
         /\ IsInjective(q) => IsInjective(Front(q)) /\ Last(q) \notin ToSet(Front(q))
<1> DEFINE f == Front(q)
<1>1. Len(q) \in Nat \ {0} /\ DOMAIN q = 1 .. Len(q)
  OBVIOUS
<1>2. f \in Seq(S) /\ Len(f) = Len(q) - 1 /\ \A n \in 1 .. Len(q) - 1 : f[n] = q[n]
  BY <1>1 DEF Front
<1>3. DOMAIN f = 1 .. Len(q) - 1
  BY <1>1, <1>2
<1> HIDE DEF f
<1>4. Last(q) \in S
  BY <1>1 DEF Last
<1>5. ToSet(q) = ToSet(f) \union {Last(q)}
  BY <1>1, <1>2, <1>3 DEF ToSet, Last
<1>6. ASSUME IsInjective(q) PROVE IsInjective(f) /\ Last(q) \notin ToSet(f)
  BY <1>1, <1>2, <1>3, <1>6 DEF IsInjective, ToSet, Last
<1> QED
  BY <1>1, <1>2, <1>4, <1>5, <1>6 DEF f

\* What a list holds with one element behind the others.
LEMMA Pushed ==
  ASSUME NEW S, NEW q \in Seq(S), NEW e \in S
  PROVE  /\ Append(q, e) \in Seq(S) /\ Len(Append(q, e)) = Len(q) + 1 /\ Len(q) \in Nat
         /\ \A i \in 1 .. Len(q) : Append(q, e)[i] = q[i]
         /\ Append(q, e)[Len(q) + 1] = e
         /\ ToSet(Append(q, e)) = ToSet(q) \union {e}
         /\ IsInjective(q) /\ e \notin ToSet(q) => IsInjective(Append(q, e))
<1> DEFINE a == Append(q, e)
<1>1. a \in Seq(S) /\ Len(a) = Len(q) + 1 /\ a[Len(q) + 1] = e
      /\ \A n \in 1 .. Len(q) : a[n] = q[n]
  OBVIOUS
<1>2. DOMAIN q = 1 .. Len(q) /\ DOMAIN a = 1 .. Len(q) + 1 /\ Len(q) \in Nat
  BY <1>1
<1> HIDE DEF a
<1>3. ToSet(a) = ToSet(q) \union {e}
  BY <1>1, <1>2 DEF ToSet
<1>4. ASSUME IsInjective(q), e \notin ToSet(q) PROVE IsInjective(a)
  BY <1>1, <1>2, <1>4 DEF IsInjective, ToSet
<1> QED
  BY <1>1, <1>2, <1>3, <1>4 DEF a

\* A list turned around holds the same.
LEMMA Turned ==
  ASSUME NEW S, NEW q \in Seq(S)
  PROVE  /\ Reverse(q) \in Seq(S) /\ ToSet(Reverse(q)) = ToSet(q)
         /\ IsInjective(q) => IsInjective(Reverse(q))
<1> DEFINE r == Reverse(q)
<1>1. Len(q) \in Nat /\ DOMAIN q = 1 .. Len(q)
  OBVIOUS
<1>2. \A i \in 1 .. Len(q) : Len(q) - i + 1 \in 1 .. Len(q) /\ Len(q) - (Len(q) - i + 1) + 1 = i
  BY <1>1
<1>3. r \in Seq(S) /\ DOMAIN r = 1 .. Len(q) /\ \A i \in 1 .. Len(q) : r[i] = q[Len(q) - i + 1]
  BY <1>1, <1>2 DEF Reverse
<1> HIDE DEF r
<1>4. ToSet(r) = ToSet(q)
  BY <1>1, <1>2, <1>3 DEF ToSet
<1>5. ASSUME IsInjective(q) PROVE IsInjective(r)
  BY <1>1, <1>2, <1>3, <1>5 DEF IsInjective
<1> QED
  BY <1>3, <1>4, <1>5 DEF r

\* The free tokens are those spare and those retiring (claim_token, retire).
LEMMA FreeIs ==
  ASSUME NEW s, s \in Tables
  PROVE  /\ ToSet(Free(s)) = ToSet(s.spare) \union ToSet(s.retiring)
         /\ IsInjective(Free(s)) <=>
              /\ IsInjective(s.spare) /\ IsInjective(s.retiring)
              /\ ToSet(s.spare) \intersect ToSet(s.retiring) = {}
<1>1. s.spare \in Seq(Nat) /\ s.retiring \in Seq(Nat)
  BY DEF Tables
<1> QED
  BY <1>1, JoinedSet DEF Free

\* Every token in a list was made.
LEMMA MadeIs ==
  ASSUME NEW s, s \in Tables
  PROVE  Made(s) <=> ToSet(s.spare) \union ToSet(s.retiring) \union ToSet(s.settled)
                       \subseteq DOMAIN s.slotOf
  BY DEF Made, ToSet

\* settle_tokens: what was retired is spare.
LEMMA Settles ==
  ASSUME NEW s, Core(s)
  PROVE  /\ Core(SettleTokens(s))
         /\ SettleTokens(s).conn = s.conn /\ SettleTokens(s).open = s.open
         /\ SettleTokens(s).slotOf = s.slotOf /\ SettleTokens(s).settled = s.settled
<1> DEFINE b == Reverse(s.retiring)
           a == s.spare \o b
           r == [s EXCEPT !.spare = a, !.retiring = <<>>]
<1>1. s \in Tables /\ s.spare \in Seq(Nat) /\ s.retiring \in Seq(Nat)
  BY CoreTypes DEF Core
<1>2. /\ b \in Seq(Nat) /\ ToSet(b) = ToSet(s.retiring)
      /\ IsInjective(s.retiring) => IsInjective(b)
  BY <1>1, Turned
<1> HIDE DEF b
<1>3. /\ a \in Seq(Nat) /\ ToSet(a) = ToSet(s.spare) \union ToSet(s.retiring)
      /\ IsInjective(Free(s)) => IsInjective(a)
  <2>1. a \in Seq(Nat)
    BY <1>1, <1>2, Joined
  <2>2. /\ ToSet(a) = ToSet(s.spare) \union ToSet(b)
        /\ IsInjective(s.spare) /\ IsInjective(b) /\ ToSet(s.spare) \intersect ToSet(b) = {} =>
             IsInjective(a)
    BY <1>1, <1>2, JoinedSet
  <2> HIDE DEF a
  <2> QED
    BY <1>1, <1>2, <2>1, <2>2, FreeIs
<1>4. SettleTokens(s) = r
  BY DEF SettleTokens, b
<1> HIDE DEF a
<1>E. PICK e : e = <<>>
  OBVIOUS
<1>5. e = <<>> /\ e \in Seq(Nat) /\ ToSet(e) = {} /\ IsInjective(e)
  <2>1. e \in Seq(Nat) /\ DOMAIN e = {}
    BY <1>E
  <2> QED
    BY <1>E, <2>1 DEF ToSet, IsInjective
<1>6. /\ r \in Tables /\ r.conn = s.conn /\ r.open = s.open /\ r.slotOf = s.slotOf
      /\ r.spare = a /\ r.retiring = e /\ r.settled = s.settled
  BY <1>1, <1>3, <1>5 DEF Tables
<1> HIDE DEF r
<1>7. Made(r)
  BY <1>1, <1>3, <1>5, <1>6, MadeIs DEF Core
<1>8. ToSet(Free(r)) = ToSet(Free(s)) /\ IsInjective(Free(r))
  BY <1>1, <1>3, <1>5, <1>6, FreeIs DEF Core, Tokens
<1>9. Slots(r) /\ Tokens(r)
  BY <1>6, <1>8 DEF Core, Slots, Tokens, Token
<1> QED
  BY <1>4, <1>6, <1>7, <1>9 DEF Core

\* claim_token.
LEMMA Claims ==
  ASSUME NEW s, Core(s), NEW c \in Conns, Token(s, c) = 0, CanClaim(s)
  PROVE  /\ Core(Claim(s, c))
         /\ Claim(s, c).open = s.open /\ Claim(s, c).settled = s.settled
         /\ DOMAIN s.slotOf \subseteq DOMAIN Claim(s, c).slotOf
         /\ Token(Claim(s, c), c) # 0
         /\ \A d \in Conns : d # c => Claim(s, c).conn[d] = s.conn[d]
         /\ Claim(s, c).conn[c].phase = s.conn[c].phase
<1>0. /\ s \in Tables /\ s.spare \in Seq(Nat) /\ s.conn \in [Conns -> Exchange]
      /\ s.conn[c] \in Exchange /\ s.slotOf \in Seq(Nat)
      /\ MaxTokens \in Nat /\ Len(s.slotOf) \in Nat /\ Len(s.slotOf) <= MaxTokens
      /\ DOMAIN s.slotOf = 1 .. Len(s.slotOf)
  BY CoreTypes, BoundsAssumption DEF Core
<1>F. \A t \in 0 .. MaxTokens :
        LET f == [s.conn EXCEPT ![c].token = t]
        IN  /\ f \in [Conns -> Exchange] /\ f[c].token = t /\ f[c].phase = s.conn[c].phase
            /\ \A d \in Conns : d # c => f[d] = s.conn[d]
  <2> SUFFICES ASSUME NEW t \in 0 .. MaxTokens
               PROVE  LET f == [s.conn EXCEPT ![c].token = t]
                      IN  /\ f \in [Conns -> Exchange] /\ f[c].token = t
                          /\ f[c].phase = s.conn[c].phase
                          /\ \A d \in Conns : d # c => f[d] = s.conn[d]
    OBVIOUS
  <2> DEFINE x == [s.conn[c] EXCEPT !.token = t]
  <2>1. x \in Exchange /\ x.token = t /\ x.phase = s.conn[c].phase
    BY <1>0 DEF Exchange
  <2>2. [s.conn EXCEPT ![c].token = t] = [s.conn EXCEPT ![c] = x]
    OBVIOUS
  <2> HIDE DEF x
  <2> QED
    BY <1>0, <2>1, <2>2
<1>T. Made(s) /\ Slots(s) /\ Tokens(s)
  BY DEF Core
<1>1. CASE s.spare # <<>>
  <2> DEFINE t == Last(s.spare)
             a == Front(s.spare)
             f == [s.conn EXCEPT ![c].token = t]
             r == [s EXCEPT !.spare = a, !.conn = f]
  <2>1. /\ a \in Seq(Nat) /\ t \in Nat /\ ToSet(s.spare) = ToSet(a) \union {t}
        /\ IsInjective(s.spare) => IsInjective(a) /\ t \notin ToSet(a)
    BY <1>0, <1>1, Popped
  <2>2. t \in DOMAIN s.slotOf
    BY <1>0, <1>T, <2>1, MadeIs
  <2>3. t \in 0 .. MaxTokens /\ t # 0
    BY <1>0, <2>2
  <2>4. /\ f \in [Conns -> Exchange] /\ f[c].token = t /\ f[c].phase = s.conn[c].phase
        /\ \A d \in Conns : d # c => f[d] = s.conn[d]
    BY <1>F, <2>3
  <2>5. Claim(s, c) = r
    BY <1>1 DEF Claim
  <2> HIDE DEF a, t, f
  <2>6. /\ r \in Tables /\ r.conn = f /\ r.open = s.open /\ r.slotOf = s.slotOf
        /\ r.spare = a /\ r.retiring = s.retiring /\ r.settled = s.settled
    BY <1>0, <2>1, <2>4 DEF Tables
  <2> HIDE DEF r
  <2>7. Token(r, c) = t /\ \A d \in Conns : d # c => Token(r, d) = Token(s, d)
    BY <2>4, <2>6 DEF Token
  <2>8. Made(r)
    BY <1>0, <1>T, <2>1, <2>6, MadeIs
  <2>9. /\ IsInjective(Free(r)) /\ ToSet(Free(r)) \subseteq ToSet(Free(s)) /\ t \in ToSet(Free(s))
        /\ t \notin ToSet(Free(r))
    BY <1>0, <1>T, <2>1, <2>6, FreeIs DEF Tokens
  <2>10. Tokens(r)
    BY <1>T, <2>2, <2>6, <2>7, <2>9 DEF Tokens
  <2>11. \A i \in DOMAIN s.open : s.open[i] \in Conns /\ s.open[i] # c
    BY <1>T, CoreTypes DEF Slots
  <2>12. Slots(r)
    BY <1>T, <2>6, <2>7, <2>11 DEF Slots
  <2> QED
    BY <1>0, <2>3, <2>4, <2>5, <2>6, <2>7, <2>8, <2>10, <2>12 DEF Core
<1>2. CASE s.spare = <<>>
  <2> DEFINE t == Len(s.slotOf) + 1
             z == Append(s.slotOf, 0)
             f == [s.conn EXCEPT ![c].token = t]
             r == [s EXCEPT !.slotOf = z, !.conn = f]
  <2>1. /\ z \in Seq(Nat) /\ Len(z) = t /\ z[t] = 0
        /\ \A i \in 1 .. Len(s.slotOf) : z[i] = s.slotOf[i]
    BY <1>0
  <2>2. DOMAIN z = 1 .. t /\ t \notin DOMAIN s.slotOf /\ t \in DOMAIN z
        /\ DOMAIN z = DOMAIN s.slotOf \union {t}
    BY <1>0, <2>1
  <2>3. t \in 0 .. MaxTokens /\ t # 0 /\ t <= MaxTokens
    BY <1>0, <1>2 DEF CanClaim
  <2>4. /\ f \in [Conns -> Exchange] /\ f[c].token = t /\ f[c].phase = s.conn[c].phase
        /\ \A d \in Conns : d # c => f[d] = s.conn[d]
    BY <1>F, <2>3
  <2>5. Claim(s, c) = r
    BY <1>2 DEF Claim
  <2> HIDE DEF z, f
  <2>6. /\ r \in Tables /\ r.conn = f /\ r.open = s.open /\ r.slotOf = z
        /\ r.spare = s.spare /\ r.retiring = s.retiring /\ r.settled = s.settled
    BY <1>0, <2>1, <2>4 DEF Tables
  <2> HIDE DEF r
  <2>7. Token(r, c) = t /\ \A d \in Conns : d # c => Token(r, d) = Token(s, d)
    BY <2>4, <2>6 DEF Token
  <2>8. Made(r)
    BY <1>0, <1>T, <2>2, <2>6, MadeIs
  <2>9. /\ Free(r) = Free(s) /\ ToSet(Free(s)) \subseteq DOMAIN s.slotOf
    <3>1. Free(r) = Free(s)
      BY <2>6 DEF Free
    <3> QED
      BY <1>0, <1>T, <3>1, FreeIs, MadeIs
  <2>N. t \notin ToSet(Free(r))
    BY <2>2, <2>9
  <2>10. Tokens(r)
    <3>1. \A d \in Conns : Token(s, d) # t
      BY <1>T, <2>2, <2>3 DEF Tokens
    <3> HIDE DEF t
    <3> QED
      BY <1>T, <2>2, <2>6, <2>7, <2>9, <2>N, <3>1 DEF Tokens
  <2>11. \A i \in DOMAIN s.open : s.open[i] \in Conns /\ s.open[i] # c
    BY <1>T, CoreTypes DEF Slots
  <2>12. Slots(r)
    <3>1. ASSUME NEW i \in DOMAIN s.open
          PROVE  Token(r, s.open[i]) # 0 /\ z[Token(r, s.open[i])] = i
      <4>1. /\ Token(r, s.open[i]) = Token(s, s.open[i]) /\ Token(s, s.open[i]) # 0
            /\ s.slotOf[Token(s, s.open[i])] = i
        BY <1>T, <2>7, <2>11 DEF Slots
      <4>2. Token(s, s.open[i]) \in DOMAIN s.slotOf
        BY <1>T, <2>11, <4>1 DEF Tokens
      <4> QED
        BY <1>0, <2>1, <4>1, <4>2
    <3>2. ASSUME NEW k \in DOMAIN z, z[k] # 0
          PROVE  z[k] \in DOMAIN s.open /\ Token(r, s.open[z[k]]) = k
      <4>1. k \in DOMAIN s.slotOf
        BY <2>1, <2>2, <3>2
      <4>2. z[k] = s.slotOf[k]
        BY <1>0, <2>1, <4>1
      <4> QED
        BY <1>T, <2>7, <2>11, <3>2, <4>1, <4>2 DEF Slots
    <3> QED
      BY <2>6, <3>1, <3>2 DEF Slots
  <2> QED
    BY <1>0, <2>1, <2>2, <2>3, <2>4, <2>5, <2>6, <2>7, <2>8, <2>10, <2>12 DEF Core
<1> QED
  BY <1>1, <1>2

\* One slot of the server is written.
LEMMA Slotted ==
  ASSUME NEW z \in Seq(Nat), NEW t \in 1 .. Len(z), NEW n \in Nat
  PROVE  /\ [z EXCEPT ![t] = n] \in Seq(Nat) /\ Len([z EXCEPT ![t] = n]) = Len(z)
         /\ DOMAIN [z EXCEPT ![t] = n] = DOMAIN z
         /\ \A k \in 1 .. Len(z) : [z EXCEPT ![t] = n][k] = IF k = t THEN n ELSE z[k]
  BY ExceptSeq

\* The token of a connection that is gone is retired.
LEMMA Retires ==
  ASSUME NEW s, Core(s), NEW t \in DOMAIN s.slotOf, t \notin ToSet(Free(s)),
         \A c \in Conns : Token(s, c) # t
  PROVE  /\ Core(Retire(s, t))
         /\ Retire(s, t).conn = s.conn /\ Retire(s, t).open = s.open
         /\ DOMAIN Retire(s, t).slotOf = DOMAIN s.slotOf /\ Retire(s, t).settled = s.settled
<1>0. /\ s \in Tables /\ s.slotOf \in Seq(Nat) /\ s.retiring \in Seq(Nat)
      /\ Len(s.slotOf) <= MaxTokens /\ DOMAIN s.slotOf = 1 .. Len(s.slotOf)
  BY CoreTypes DEF Core
<1>T. Made(s) /\ Slots(s) /\ Tokens(s)
  BY DEF Core
<1> DEFINE z == [s.slotOf EXCEPT ![t] = 0]
           l == Append(s.retiring, t)
           r == [s EXCEPT !.slotOf = z, !.retiring = l]
<1>1. /\ z \in Seq(Nat) /\ Len(z) = Len(s.slotOf) /\ DOMAIN z = DOMAIN s.slotOf
      /\ \A k \in DOMAIN s.slotOf : z[k] = IF k = t THEN 0 ELSE s.slotOf[k]
  BY <1>0, Slotted
<1>2. t \in Nat
  BY <1>0
<1>3. /\ l \in Seq(Nat) /\ ToSet(l) = ToSet(s.retiring) \union {t}
      /\ IsInjective(s.retiring) /\ t \notin ToSet(s.retiring) => IsInjective(l)
  BY <1>0, <1>2, Pushed
<1>4. Retire(s, t) = r
  BY DEF Retire
<1> HIDE DEF z, l
<1>5. /\ r \in Tables /\ r.conn = s.conn /\ r.open = s.open /\ r.slotOf = z
      /\ r.spare = s.spare /\ r.retiring = l /\ r.settled = s.settled
  BY <1>0, <1>1, <1>3 DEF Tables
<1> HIDE DEF r
<1>6. \A c \in Conns : Token(r, c) = Token(s, c)
  BY <1>5 DEF Token
<1>7. Made(r)
  BY <1>0, <1>T, <1>1, <1>3, <1>5, MadeIs
<1>8. IsInjective(Free(r)) /\ ToSet(Free(r)) = ToSet(Free(s)) \union {t}
  BY ZenonT(30), <1>0, <1>T, <1>3, <1>5, FreeIs DEF Tokens
<1>9. Tokens(r)
  BY <1>T, <1>1, <1>5, <1>6, <1>8 DEF Tokens
<1>10. \A i \in DOMAIN s.open : s.open[i] \in Conns
  BY CoreTypes
<1>11. Slots(r)
  <2>1. ASSUME NEW i \in DOMAIN s.open
        PROVE  Token(r, s.open[i]) # 0 /\ z[Token(r, s.open[i])] = i
    <3>1. Token(s, s.open[i]) # 0 /\ s.slotOf[Token(s, s.open[i])] = i
      BY <1>T DEF Slots
    <3>2. Token(s, s.open[i]) \in DOMAIN s.slotOf
      BY <1>T, <1>10, <3>1 DEF Tokens
    <3> QED
      BY <1>1, <1>6, <1>10, <3>1, <3>2
  <2>2. ASSUME NEW k \in DOMAIN z, z[k] # 0
        PROVE  z[k] \in DOMAIN s.open /\ Token(r, s.open[z[k]]) = k
    BY <1>T, <1>1, <1>6, <1>10, <2>2 DEF Slots
  <2> QED
    BY <1>5, <2>1, <2>2 DEF Slots
<1> QED
  BY <1>0, <1>1, <1>4, <1>5, <1>7, <1>9, <1>11 DEF Core

\* take_out: the last connection takes the place of the one that goes, and its
\* slot is noted.
LEMMA TakesOut ==
  ASSUME NEW s, Core(s), NEW i \in DOMAIN s.open
  PROVE  /\ Core(TakeOut(s, i))
         /\ TakeOut(s, i).conn = s.conn
         /\ ToSet(TakeOut(s, i).open) = ToSet(s.open) \ {s.open[i]}
         /\ Len(TakeOut(s, i).open) = Len(s.open) - 1
         /\ DOMAIN TakeOut(s, i).slotOf = DOMAIN s.slotOf /\ TakeOut(s, i).settled = s.settled
         /\ TakeOut(s, i).spare = s.spare /\ TakeOut(s, i).retiring = s.retiring
<1>0. /\ s \in Tables /\ s.slotOf \in Seq(Nat) /\ s.open \in Seq(Conns)
      /\ Len(s.slotOf) <= MaxTokens /\ DOMAIN s.slotOf = 1 .. Len(s.slotOf)
      /\ Len(s.open) \in Nat /\ DOMAIN s.open = 1 .. Len(s.open)
  BY CoreTypes DEF Core
<1>T. Made(s) /\ Slots(s) /\ Tokens(s)
  BY DEF Core
<1> DEFINE n == Len(s.open)
           w == s.open[n]
           k == Token(s, s.open[i])
           m == Token(s, w)
<1>1. n \in Nat \ {0} /\ n \in DOMAIN s.open /\ i \in 1 .. n
  BY <1>0
<1>2. \A j \in 1 .. n : s.open[j] \in Conns
  BY <1>0
<1>3. \A j \in 1 .. n : /\ Token(s, s.open[j]) \in DOMAIN s.slotOf /\ Token(s, s.open[j]) # 0
                       /\ s.slotOf[Token(s, s.open[j])] = j
  BY <1>T, <1>0, <1>2 DEF Slots, Tokens
<1>4. k \in DOMAIN s.slotOf /\ m \in DOMAIN s.slotOf /\ m # 0 /\ (i # n => k # m)
  BY <1>1, <1>3
<1> DEFINE x == [s.open EXCEPT ![i] = w]
           o == Front(x)
           z1 == [s.slotOf EXCEPT ![k] = 0]
           z2 == [z1 EXCEPT ![m] = i]
           z == IF i = n THEN z1 ELSE z2
           r1 == [s EXCEPT !.open = o, !.slotOf = z1]
           r == [s EXCEPT !.open = o, !.slotOf = z]
<1>5. /\ x \in Seq(Conns) /\ Len(x) = n
      /\ \A j \in 1 .. n : x[j] = IF j = i THEN w ELSE s.open[j]
  BY <1>0, <1>1, <1>2
<1>6. /\ o \in Seq(Conns) /\ Len(o) = n - 1 /\ DOMAIN o = 1 .. n - 1
      /\ \A j \in 1 .. n - 1 : o[j] = IF j = i THEN w ELSE s.open[j]
  <2> HIDE DEF x
  <2>1. x # <<>>
    BY <1>1, <1>5
  <2>2. o \in Seq(Conns) /\ Len(o) = n - 1 /\ \A j \in 1 .. n - 1 : o[j] = x[j]
    BY <1>5, <2>1, Popped
  <2> HIDE DEF o
  <2> QED
    BY <1>1, <1>5, <2>2
<1>7. /\ z1 \in Seq(Nat) /\ Len(z1) = Len(s.slotOf) /\ DOMAIN z1 = DOMAIN s.slotOf
      /\ \A t \in DOMAIN s.slotOf : z1[t] = IF t = k THEN 0 ELSE s.slotOf[t]
  BY <1>0, <1>4, Slotted
<1>8. /\ z2 \in Seq(Nat) /\ Len(z2) = Len(s.slotOf) /\ DOMAIN z2 = DOMAIN s.slotOf
      /\ \A t \in DOMAIN s.slotOf : z2[t] = IF t = m THEN i ELSE z1[t]
  <2> HIDE DEF z1
  <2>1. i \in Nat /\ m \in 1 .. Len(z1)
    BY <1>0, <1>1, <1>4, <1>7
  <2> QED
    BY <1>0, <1>7, <2>1, Slotted
<1>9. /\ z \in Seq(Nat) /\ Len(z) = Len(s.slotOf) /\ DOMAIN z = DOMAIN s.slotOf
      /\ \A t \in DOMAIN s.slotOf :
           z[t] = IF i # n /\ t = m THEN i ELSE IF t = k THEN 0 ELSE s.slotOf[t]
  <2> HIDE DEF z1, z2
  <2> QED
    BY <1>7, <1>8
<1>10. TakeOut(s, i) = r
  <2>1. TakeOut(s, i) = NoteSlot(r1, i)
    BY DEF TakeOut, Last
  <2> HIDE DEF o, z1
  <2>2. /\ r1.conn = s.conn /\ r1.open = o /\ r1.slotOf = z1
    BY <1>0, <1>6, <1>7 DEF Tables
  <2>3. CASE i = n
    <3>1. i \notin DOMAIN r1.open
      BY <1>1, <1>6, <2>2, <2>3
    <3> QED
      BY <2>1, <2>3, <3>1 DEF NoteSlot
  <2>4. CASE i # n
    <3>1. i \in DOMAIN r1.open /\ r1.open[i] = w
      BY <1>1, <1>6, <2>2, <2>4
    <3>2. Token(r1, w) = m
      BY <2>2 DEF Token
    <3>3. NoteSlot(r1, i) = [r1 EXCEPT !.slotOf[m] = i]
      BY <3>1, <3>2 DEF NoteSlot
    <3> HIDE DEF m
    <3>4. [r1 EXCEPT !.slotOf[m] = i] = [r1 EXCEPT !.slotOf = z2]
      BY <2>2
    <3>5. [r1 EXCEPT !.slotOf = z2] = [s EXCEPT !.open = o, !.slotOf = z2]
      BY <1>0 DEF Tables
    <3> QED
      BY <2>1, <2>4, <3>3, <3>4, <3>5
  <2> QED
    BY <2>3, <2>4
<1> HIDE DEF x, o, z, z1, z2
<1>11. /\ r \in Tables /\ r.conn = s.conn /\ r.open = o /\ r.slotOf = z
       /\ r.spare = s.spare /\ r.retiring = s.retiring /\ r.settled = s.settled
  BY <1>0, <1>6, <1>9 DEF Tables
<1> HIDE DEF r, r1
<1>12. \A c : Token(r, c) = Token(s, c)
  BY <1>11 DEF Token
<1>13. Made(r) /\ Tokens(r)
  BY <1>T, <1>9, <1>11 DEF Made, Tokens, Free, Token
<1>14. Slots(r)
  <2>1. ASSUME NEW j \in DOMAIN o PROVE Token(r, o[j]) # 0 /\ z[Token(r, o[j])] = j
    <3>0. j \in 1 .. n /\ j # n
      BY <1>1, <1>6, <2>1
    <3>1. CASE j = i
      <4>1. o[j] = w /\ Token(r, o[j]) = m
        BY <1>6, <1>12, <3>1, <2>1
      <4> QED
        BY <1>4, <1>9, <3>0, <3>1, <4>1
    <3>2. CASE j # i
      <4>1. o[j] = s.open[j] /\ Token(r, o[j]) = Token(s, s.open[j])
        BY <1>6, <1>12, <3>2, <2>1
      <4>2. Token(s, s.open[j]) # k /\ Token(s, s.open[j]) # m
        BY <1>1, <1>3, <3>0, <3>2
      <4> HIDE DEF k, m
      <4> QED
        BY <1>3, <1>9, <3>0, <4>1, <4>2
    <3> QED
      BY <3>1, <3>2
  <2>2. ASSUME NEW t \in DOMAIN z, z[t] # 0
        PROVE  z[t] \in DOMAIN o /\ Token(r, o[z[t]]) = t
    <3>1. CASE i # n /\ t = m
      <4>1. z[t] = i /\ i \in 1 .. n - 1
        BY <1>1, <1>9, <3>1
      <4> QED
        BY <1>6, <1>12, <3>1, <4>1
    <3>2. CASE ~(i # n /\ t = m)
      <4>1. t # k /\ z[t] = s.slotOf[t]
        BY <1>9, <2>2, <3>2
      <4>2. s.slotOf[t] \in 1 .. n /\ Token(s, s.open[s.slotOf[t]]) = t
        BY <1>T, <1>0, <1>9, <2>2, <4>1 DEF Slots
      <4>3. s.slotOf[t] # i /\ s.slotOf[t] # n
        BY <3>2, <4>1, <4>2
      <4> HIDE DEF k, m
      <4>4. s.slotOf[t] \in 1 .. n - 1
        BY <1>1, <4>2, <4>3
      <4> QED
        BY <1>6, <1>12, <4>1, <4>2, <4>3, <4>4
    <3> QED
      BY <3>1, <3>2
  <2> QED
    BY <1>11, <2>1, <2>2 DEF Slots
<1>15. ToSet(o) = ToSet(s.open) \ {s.open[i]}
  <2>0. \A a, b \in 1 .. n : s.open[a] = s.open[b] => a = b
    BY <1>3
  <2>1. ASSUME NEW e \in ToSet(o) PROVE e \in ToSet(s.open) \ {s.open[i]}
    <3>1. PICK j \in 1 .. n - 1 : o[j] = e
      BY <1>6, <2>1 DEF ToSet
    <3>2. CASE j = i
      <4>1. e = w /\ i # n
        BY <1>1, <1>6, <3>1, <3>2
      <4>2. e # s.open[i]
        BY <1>1, <2>0, <4>1
      <4> QED
        BY <1>1, <4>1, <4>2 DEF ToSet
    <3>3. CASE j # i
      <4>1. e = s.open[j] /\ j \in 1 .. n
        BY <1>1, <1>6, <3>1, <3>3
      <4> QED
        BY <1>0, <1>1, <2>0, <3>3, <4>1 DEF ToSet
    <3> QED
      BY <3>2, <3>3
  <2>2. ASSUME NEW e \in ToSet(s.open), e # s.open[i] PROVE e \in ToSet(o)
    <3>1. PICK j \in 1 .. n : s.open[j] = e
      BY <1>0, <2>2 DEF ToSet
    <3>2. j # i
      BY <2>2, <3>1
    <3>3. CASE j = n
      <4>1. i \in 1 .. n - 1 /\ o[i] = e
        BY <1>1, <1>6, <3>1, <3>2, <3>3
      <4> QED
        BY <1>6, <4>1 DEF ToSet
    <3>4. CASE j # n
      <4>1. j \in 1 .. n - 1 /\ o[j] = e
        BY <1>1, <1>6, <3>1, <3>2, <3>4
      <4> QED
        BY <1>6, <4>1 DEF ToSet
    <3> QED
      BY <3>3, <3>4
  <2> QED
    BY <2>1, <2>2
<1> QED
  BY <1>0, <1>6, <1>9, <1>10, <1>11, <1>13, <1>14, <1>15 DEF Core

\* drop_at: the connection leaves the table, its exchange is gone and its token
\* is retired.
LEMMA DropsAt ==
  ASSUME NEW s, Core(s), NEW i \in DOMAIN s.open
  PROVE  /\ Core(DropAt(s, i))
         /\ \A d \in Conns : d # s.open[i] => DropAt(s, i).conn[d] = s.conn[d]
         /\ DropAt(s, i).conn[s.open[i]] = Deinited
         /\ ToSet(DropAt(s, i).open) = ToSet(s.open) \ {s.open[i]}
         /\ Len(DropAt(s, i).open) = Len(s.open) - 1
         /\ DOMAIN DropAt(s, i).slotOf = DOMAIN s.slotOf /\ DropAt(s, i).settled = s.settled
<1> DEFINE c == s.open[i]
           t == Token(s, c)
           u == TakeOut(s, i)
           v == Deinit(u, c)
           r == Retire(v, t)
<1>0. c \in Conns
  BY CoreTypes
<1>1. t # 0 /\ t \in DOMAIN s.slotOf \ ToSet(Free(s)) /\ \A d \in Conns : Token(s, d) = t => d = c
  BY <1>0 DEF Core, Slots, Tokens
<1>2. /\ Core(u) /\ u.conn = s.conn /\ ToSet(u.open) = ToSet(s.open) \ {c}
      /\ Len(u.open) = Len(s.open) - 1 /\ DOMAIN u.slotOf = DOMAIN s.slotOf
      /\ u.settled = s.settled /\ u.spare = s.spare /\ u.retiring = s.retiring
  BY TakesOut
<1>3. DropAt(s, i) = r
  BY DEF DropAt
<1> HIDE DEF u, t, c
<1>4. Only(u, v, c) /\ v.conn[c] = Deinited
  BY <1>0, <1>2, Deinits DEF Core
<1> HIDE DEF v
<1>5. Token(v, c) = 0 /\ \A d \in Conns : d # c => Token(v, d) = Token(s, d)
  BY <1>2, <1>4, DeinitedIs DEF Only, Token
<1>6. Core(v)
  BY <1>0, <1>2, <1>4, <1>5, OnlyKeeps
<1>7. Free(v) = Free(s) /\ v.slotOf = u.slotOf /\ v.open = u.open /\ v.settled = s.settled
  BY <1>2, <1>4 DEF Only, Free
<1>8. t \in DOMAIN v.slotOf /\ t \notin ToSet(Free(v)) /\ \A d \in Conns : Token(v, d) # t
  BY <1>1, <1>2, <1>5, <1>7
<1>9. /\ Core(r) /\ r.conn = v.conn /\ r.open = v.open /\ DOMAIN r.slotOf = DOMAIN v.slotOf
      /\ r.settled = v.settled
  BY <1>6, <1>8, Retires
<1> HIDE DEF r
<1>10. \A d \in Conns : d # c => v.conn[d] = s.conn[d]
  BY <1>2, <1>4 DEF Only
<1> QED
  BY <1>2, <1>3, <1>4, <1>7, <1>9, <1>10 DEF c

\* restore puts a connection behind the others.
LEMMA Enters ==
  ASSUME NEW s, Core(s), NEW c \in Conns, Token(s, c) # 0, c \notin ToSet(s.open)
  PROVE  /\ Core(Enter(s, c)) /\ Enter(s, c).conn = s.conn
         /\ ToSet(Enter(s, c).open) = ToSet(s.open) \union {c}
         /\ DOMAIN Enter(s, c).slotOf = DOMAIN s.slotOf /\ Enter(s, c).settled = s.settled
<1> DEFINE t == Token(s, c)
           n == Len(s.open) + 1
           o == Append(s.open, c)
           z == [s.slotOf EXCEPT ![t] = n]
           r == [s EXCEPT !.open = o, !.slotOf = z]
<1>0. /\ s \in Tables /\ s.slotOf \in Seq(Nat) /\ s.open \in Seq(Conns)
      /\ Len(s.slotOf) <= MaxTokens /\ DOMAIN s.slotOf = 1 .. Len(s.slotOf)
      /\ Len(s.open) \in Nat /\ DOMAIN s.open = 1 .. Len(s.open) /\ n \in Nat
  BY CoreTypes DEF Core
<1>T. Made(s) /\ Slots(s) /\ Tokens(s)
  BY DEF Core
<1>1. /\ o \in Seq(Conns) /\ Len(o) = n /\ DOMAIN o = 1 .. n /\ o[n] = c
      /\ \A i \in DOMAIN s.open : o[i] = s.open[i]
      /\ ToSet(o) = ToSet(s.open) \union {c}
  <2>1. /\ o \in Seq(Conns) /\ Len(o) = n /\ o[n] = c
        /\ \A i \in 1 .. Len(s.open) : o[i] = s.open[i]
        /\ ToSet(o) = ToSet(s.open) \union {c}
    BY <1>0, Pushed
  <2> HIDE DEF o, n
  <2> QED
    BY <1>0, <2>1
<1>2. t \in DOMAIN s.slotOf /\ t # 0
  BY <1>T DEF Tokens
<1>3. /\ z \in Seq(Nat) /\ Len(z) = Len(s.slotOf) /\ DOMAIN z = DOMAIN s.slotOf
      /\ \A k \in DOMAIN s.slotOf : z[k] = IF k = t THEN n ELSE s.slotOf[k]
  BY <1>0, <1>2, Slotted
<1>4. Enter(s, c) = r
  BY DEF Enter
<1> HIDE DEF z, o
<1>5. /\ r \in Tables /\ r.conn = s.conn /\ r.open = o /\ r.slotOf = z
      /\ r.spare = s.spare /\ r.retiring = s.retiring /\ r.settled = s.settled
  BY <1>0, <1>1, <1>3 DEF Tables
<1> HIDE DEF r
<1>6. \A d : Token(r, d) = Token(s, d)
  BY <1>5 DEF Token
<1>7. Made(r) /\ Tokens(r)
  BY <1>T, <1>3, <1>5 DEF Made, Tokens, Free, Token
<1>8. \A i \in DOMAIN s.open : s.open[i] \in Conns /\ s.open[i] # c
  BY CoreTypes
<1>9. \A i \in DOMAIN s.open : /\ Token(s, s.open[i]) \in DOMAIN s.slotOf
                             /\ Token(s, s.open[i]) # 0 /\ Token(s, s.open[i]) # t
                             /\ s.slotOf[Token(s, s.open[i])] = i
  BY <1>T, <1>2, <1>8 DEF Slots, Tokens
<1>10. Slots(r)
  <2>1. ASSUME NEW i \in DOMAIN o PROVE Token(r, o[i]) # 0 /\ z[Token(r, o[i])] = i
    <3>1. CASE i = n
      BY <1>1, <1>2, <1>3, <1>6, <3>1
    <3>2. CASE i # n
      <4>1. i \in DOMAIN s.open /\ o[i] = s.open[i]
        BY <1>0, <1>1, <2>1, <3>2
      <4> HIDE DEF t, n
      <4> QED
        BY <1>3, <1>6, <1>9, <4>1
    <3> QED
      BY <3>1, <3>2
  <2>2. ASSUME NEW k \in DOMAIN z, z[k] # 0
        PROVE  z[k] \in DOMAIN o /\ Token(r, o[z[k]]) = k
    <3>1. CASE k = t
      BY <1>0, <1>1, <1>3, <1>6, <2>2, <3>1
    <3>2. CASE k # t
      <4>1. z[k] = s.slotOf[k]
        BY <1>3, <2>2, <3>2
      <4>2. z[k] \in DOMAIN s.open /\ Token(s, s.open[z[k]]) = k
        BY <1>T, <1>3, <2>2, <4>1 DEF Slots
      <4>3. z[k] \in DOMAIN o
        BY <1>0, <1>1, <4>2
      <4> QED
        BY <1>1, <1>6, <4>2, <4>3
    <3> QED
      BY <3>1, <3>2
  <2> QED
    BY <1>5, <2>1, <2>2 DEF Slots
<1> QED
  BY <1>0, <1>1, <1>3, <1>4, <1>5, <1>7, <1>10 DEF Core

-----------------------------------------------------------------------------
(* Where every connection is, through every step                           *)

Sound(s, l, h) == Core(s) /\ Places(s, l, h) /\ Looked(s)

\* What the invariant says of the tables and of who holds an exchange.
LEMMA InvIs ==
  ASSUME ServerInv
  PROVE  /\ Sound(server, lent, held) /\ CallInv /\ server \in Tables
         /\ lent \subseteq Conns /\ held \in Conns \union {None} /\ None \notin Conns
         /\ ToSet(server.open) \subseteq Conns
<1>1. Core(server)
  BY DEF ServerInv, TypeOK, Core, Made
<1> QED
  BY <1>1, CoreTypes, ConnsAssumption DEF ServerInv, TypeOK, Sound

\* Only c changes what it is in.
LEMMA Placed ==
  ASSUME NEW s, NEW r, NEW c \in Conns, NEW l, NEW h, NEW k, NEW g,
         Places(s, l, h), \A d \in Conns : d # c => r.conn[d] = s.conn[d],
         ToSet(r.open) \ {c} = ToSet(s.open) \ {c}, k \ {c} = l \ {c},
         {g} \ {None, c} = {h} \ {None, c},
         c \notin ToSet(r.open) \intersect k, g = c => c \notin ToSet(r.open) \union k,
         Phase(r, c) # "Closed" <=> c \in ToSet(r.open) \union k \union {g},
         g # None \/ None \notin ToSet(r.open) \union k
  PROVE  Places(r, k, g)
<1>0. c # None
  BY ConnsAssumption
<1>1. \A d \in Conns : d # c => Phase(r, d) = Phase(s, d)
  BY DEF Phase
<1>2. \A d : d # c => (d \in ToSet(r.open) <=> d \in ToSet(s.open))
  OBVIOUS
<1>3. \A d : d # c => (d \in k <=> d \in l)
  OBVIOUS
<1>4. \A d : d # c /\ d # None => (d = g <=> d = h)
  OBVIOUS
<1>5. \A d \in Conns : Phase(r, d) # "Closed" <=>
        d \in ToSet(r.open) \union k \union ({g} \ {None})
  <2>1. ASSUME NEW d \in Conns, d # c
        PROVE  Phase(r, d) # "Closed" <=> d \in ToSet(r.open) \union k \union ({g} \ {None})
    <3>1. Phase(s, d) # "Closed" <=> d \in ToSet(s.open) \union l \union ({h} \ {None})
      BY DEF Places
    <3>2. d # None
      BY ConnsAssumption
    <3> QED
      BY <1>1, <1>2, <1>3, <1>4, <2>1, <3>1, <3>2
  <2> QED
    BY <1>0, <2>1
<1>6. ASSUME NEW d \in ToSet(r.open) \union k \union ({g} \ {None}) PROVE d \in Conns
  <2>1. CASE d = c
    BY <2>1
  <2>2. CASE d # c
    BY <1>2, <1>3, <1>4, <1>6, <2>2 DEF Places
  <2> QED
    BY <2>1, <2>2
<1>7. ToSet(r.open) \intersect k = {}
  BY <1>2, <1>3 DEF Places
<1>8. g \notin ToSet(r.open) \union k
  BY <1>0, <1>2, <1>3, <1>4 DEF Places
<1> QED
  BY <1>5, <1>6, <1>7, <1>8 DEF Places

\* Whoever is in the table besides c is still parsed and noted.
LEMMA LookedBut ==
  ASSUME NEW s, NEW r, NEW c, Core(r), Looked(s),
         \A d \in Conns : d # c => r.conn[d] = s.conn[d],
         ToSet(r.open) \ {c} \subseteq ToSet(s.open),
         \A d \in ToSet(r.open) \ {c} :
           Token(s, d) \in ToSet(s.settled) => Token(s, d) \in ToSet(r.settled),
         c \in ToSet(r.open) =>
           /\ ~HasHead(r, c, "request")
           /\ Phase(r, c) = "Ready" => Token(r, c) \in ToSet(r.settled)
  PROVE  Looked(r)
<1> SUFFICES ASSUME NEW d \in ToSet(r.open), d # c
             PROVE  /\ ~HasHead(r, d, "request")
                    /\ Phase(r, d) = "Ready" => Token(r, d) \in ToSet(r.settled)
  BY DEF Looked
<1>1. d \in Conns
  BY CoreTypes
<1>2. r.conn[d] = s.conn[d] /\ d \in ToSet(s.open)
  BY <1>1
<1> QED
  BY <1>2 DEF Looked, HasHead, Phase, Token

\* A connection that stays in the table is read, parsed or moved on.
LEMMA Handled ==
  ASSUME NEW s, NEW l, NEW h, Sound(s, l, h), NEW c \in ToSet(s.open), NEW r, Only(s, r, c),
         Token(r, c) = Token(s, c), Phase(r, c) # "Closed", ~HasHead(r, c, "request")
  PROVE  /\ Sound(NoteSettled(r, c), l, h)
         /\ Phase(r, c) # "Ready" \/ Phase(s, c) = "Ready" => Sound(r, l, h)
         /\ NoteSettled(r, c).slotOf = s.slotOf /\ NoteSettled(r, c).open = s.open
         /\ NoteSettled(r, c).conn = r.conn
<1>0. Core(s) /\ Places(s, l, h) /\ Looked(s)
  BY DEF Sound
<1>1. c \in Conns
  BY <1>0, CoreTypes
<1>2. Core(r)
  BY <1>0, <1>1, OnlyKeeps
<1>3. r.open = s.open /\ r.slotOf = s.slotOf /\ r.settled = s.settled
      /\ \A d \in Conns : d # c => r.conn[d] = s.conn[d]
  BY DEF Only
<1>4. Token(r, c) # 0
  <2>1. PICK i \in DOMAIN s.open : s.open[i] = c
    BY <1>0, CoreTypes
  <2> QED
    BY <1>0, <2>1 DEF Core, Slots
<1> DEFINE n == NoteSettled(r, c)
<1>5. /\ Core(n) /\ n.conn = r.conn /\ n.open = r.open /\ n.slotOf = r.slotOf
      /\ ToSet(r.settled) \subseteq ToSet(n.settled)
      /\ Phase(r, c) = "Ready" => Token(r, c) \in ToSet(n.settled)
  BY <1>1, <1>2, <1>4, Notes
<1> HIDE DEF n
<1>6. Phase(n, c) = Phase(r, c) /\ Token(n, c) = Token(r, c) /\ ~HasHead(n, c, "request")
  BY <1>5 DEF Phase, Token, HasHead
<1>P. c \notin l /\ h # c /\ None \notin l
  BY <1>0, ConnsAssumption DEF Places
<1>7. Places(r, l, h) /\ Places(n, l, h)
  <2>1. \A d \in Conns : Phase(r, d) # "Closed" <=> Phase(s, d) # "Closed"
    <3>1. Phase(s, c) # "Closed"
      BY <1>0, <1>1 DEF Places
    <3> QED
      BY <1>3, <3>1 DEF Phase
  <2>2. \A d \in Conns : Phase(n, d) # "Closed" <=> Phase(s, d) # "Closed"
    BY <1>5, <2>1 DEF Phase
  <2> QED
    BY <1>0, <1>3, <1>5, <2>1, <2>2 DEF Places
<1>8. Looked(n)
  BY <1>0, <1>3, <1>5, <1>6, LookedBut
<1>9. ASSUME Phase(r, c) # "Ready" \/ Phase(s, c) = "Ready" PROVE Looked(r)
  <2>1. Phase(s, c) = "Ready" => Token(s, c) \in ToSet(s.settled)
    BY <1>0 DEF Looked
  <2> QED
    BY <1>0, <1>2, <1>3, <1>9, <2>1, LookedBut
<1> QED
  BY <1>2, <1>3, <1>5, <1>7, <1>8, <1>9 DEF Sound, n

\* A connection that is not in the table is changed, closed or handed on.
LEMMA Aside ==
  ASSUME NEW s, NEW l, NEW h, Sound(s, l, h), NEW c \in Conns, c \notin ToSet(s.open),
         NEW r, Core(r), r.open = s.open, r.settled = s.settled,
         \A d \in Conns : d # c => r.conn[d] = s.conn[d],
         NEW k, NEW g, k \ {c} = l \ {c}, {g} \ {None, c} = {h} \ {None, c},
         c \in k => g # c, None \notin k,
         Phase(r, c) # "Closed" <=> c \in k \union {g}
  PROVE  Sound(r, k, g)
<1>0. Core(s) /\ Places(s, l, h) /\ Looked(s)
  BY DEF Sound
<1>1. None \notin ToSet(s.open)
  BY <1>0, CoreTypes, ConnsAssumption
<1>2. Places(r, k, g)
  BY <1>0, <1>1, Placed
<1>3. Looked(r)
  BY <1>0, LookedBut
<1> QED
  BY <1>2, <1>3 DEF Sound

\* What a step keeps of the tables: where each connection is, and the tokens.
Grown == DOMAIN server.slotOf \subseteq DOMAIN server'.slotOf

TablesKept == Sound(server', lent', held') /\ Grown

\* The caller's actions.
LEMMA CallerStep ==
  ASSUME ServerInv, NEW c \in Conns,
         Accept(c) \/ Discard(c) \/ KeepCarries(c) \/ KeepLingers(c) \/ KeepCloses(c)
           \/ KeepFails(c)
  PROVE  TablesKept
<1>0. /\ Sound(server, lent, held) /\ CallInv /\ server \in Tables
      /\ None \notin Conns /\ None \notin lent /\ Core(server)
  BY InvIs DEF Sound
<1>I. pc = "idle" /\ held = None
  BY <1>0 DEF Accept, Discard, KeepCarries, KeepLingers, KeepCloses, KeepFails, Keep, CallInv
<1>P. /\ c \in lent => c \notin ToSet(server.open)
      /\ Phase(server, c) = "Closed" => c \notin ToSet(server.open) \union lent
  BY <1>0 DEF Sound, Places
<1>1. CASE Accept(c)
  <2> DEFINE u == [server EXCEPT !.conn[c].phase = "Ready"]
  <2>1. PICK q \in Ahead, k \in 0 .. MaxAhead : CanRead(u, c, q, k) /\ server' = Read(u, c, q, k)
    BY <1>1 DEF Accept
  <2>2. Moved(server, u, c, "Ready")
    BY <1>0, MovesTo
  <2> HIDE DEF u
  <2>3. Reads(u, server', c) /\ server'.conn[c].phase = u.conn[c].phase
    BY <2>1, <2>2, ReadDoes DEF Moved, Only
  <2>4. Only(server, server', c) /\ Token(server', c) = Token(server, c)
        /\ Phase(server', c) = "Ready"
    BY <2>2, <2>3 DEF Moved, Reads, Only, Token, Phase
  <2>5. lent' = lent \union {c} /\ held' = None /\ c \notin ToSet(server.open)
    BY <1>1, <1>I, <1>P DEF Accept, call
  <2>6. Core(server') /\ server'.open = server.open /\ server'.settled = server.settled
        /\ server'.slotOf = server.slotOf
        /\ \A d \in Conns : d # c => server'.conn[d] = server.conn[d]
    BY <1>0, <2>4, OnlyKeeps DEF Only
  <2>7. Sound(server', lent', held')
    BY <1>0, <1>I, <2>4, <2>5, <2>6, Aside
  <2> QED
    BY <2>6, <2>7 DEF TablesKept, Grown
<1>2. ASSUME c \in lent, lent' = lent \ {c}, held' = None, server' = Deinit(server, c)
      PROVE  TablesKept
  <2>1. Only(server, server', c) /\ Token(server', c) = 0 /\ Phase(server', c) = "Closed"
    BY <1>0, <1>2, Deinits, DeinitedIs DEF Token, Phase
  <2>2. Core(server') /\ server'.open = server.open /\ server'.settled = server.settled
        /\ server'.slotOf = server.slotOf
        /\ \A d \in Conns : d # c => server'.conn[d] = server.conn[d]
    BY <1>0, <1>2, <1>P, <2>1, OnlyKeeps DEF Only
  <2>3. Sound(server', lent', held')
    BY <1>0, <1>2, <1>I, <1>P, <2>1, <2>2, Aside
  <2> QED
    BY <2>2, <2>3 DEF TablesKept, Grown
<1>3. ASSUME c \in lent, lent' = lent \ {c}, held' = c, NEW p \in Phases, p # "Closed",
             Moved(server, server', c, p)
      PROVE  TablesKept
  <2>1. Only(server, server', c) /\ Token(server', c) = Token(server, c) /\ Phase(server', c) = p
    BY <1>3 DEF Moved, Token, Phase
  <2>2. Core(server') /\ server'.open = server.open /\ server'.settled = server.settled
        /\ server'.slotOf = server.slotOf
        /\ \A d \in Conns : d # c => server'.conn[d] = server.conn[d]
    BY <1>0, <2>1, OnlyKeeps DEF Only
  <2>3. Sound(server', lent', held')
    BY <1>0, <1>3, <1>I, <1>P, <2>1, <2>2, Aside
  <2> QED
    BY <2>2, <2>3 DEF TablesKept, Grown
<1>4. CASE Discard(c)
  BY <1>2, <1>4, <1>I DEF Discard, call
<1>5. CASE KeepFails(c)
  BY <1>2, <1>5, <1>I DEF KeepFails, Keep
<1>6. CASE KeepCarries(c) \/ KeepLingers(c)
  <2>1. c \in lent /\ lent' = lent \ {c} /\ held' = c
    BY <1>6 DEF KeepCarries, KeepLingers, Keep
  <2>2. Moved(server, server', c, "ReadingHead") \/ Moved(server, server', c, "Lingering")
    BY <1>0, <1>6, MovesTo DEF KeepCarries, KeepLingers, Keep
  <2>3. {"ReadingHead", "Lingering"} \subseteq Phases
    BY DEF Phases
  <2> QED
    BY <1>3, <2>1, <2>2, <2>3
<1>7. CASE KeepCloses(c)
  <2> DEFINE t == Token(server, c)
             v == Deinit(server, c)
  <2>1. c \in lent /\ lent' = lent \ {c} /\ held' = None
    BY <1>7, <1>I DEF KeepCloses, Keep
  <2>2. CASE t = 0
    BY <1>2, <1>7, <2>1, <2>2 DEF KeepCloses, Keep
  <2>3. CASE t # 0
    <3>1. server' = Retire(v, t)
      BY <1>7, <2>3 DEF KeepCloses, Keep
    <3>2. /\ t \in DOMAIN server.slotOf \ ToSet(Free(server))
          /\ \A d \in Conns : Token(server, d) = t => d = c
      BY <1>0, <2>3 DEF Core, Tokens
    <3>3. Only(server, v, c) /\ Token(v, c) = 0 /\ Phase(v, c) = "Closed"
      BY <1>0, Deinits, DeinitedIs DEF Token, Phase
    <3> HIDE DEF v, t
    <3>4. Core(v) /\ v.open = server.open /\ v.settled = server.settled
          /\ v.slotOf = server.slotOf /\ Free(v) = Free(server)
          /\ \A d \in Conns : d # c => v.conn[d] = server.conn[d]
      BY <1>0, <1>P, <2>1, <3>3, OnlyKeeps DEF Only, Free
    <3>5. \A d \in Conns : Token(v, d) # t
      BY <2>3, <3>2, <3>3, <3>4 DEF Token
    <3>6. /\ Core(server') /\ server'.conn = v.conn /\ server'.open = v.open
          /\ DOMAIN server'.slotOf = DOMAIN v.slotOf /\ server'.settled = v.settled
      BY <3>1, <3>2, <3>4, <3>5, Retires
    <3>7. Phase(server', c) = "Closed"
      BY <3>3, <3>6 DEF Phase
    <3>8. Sound(server', lent', held')
      BY <1>0, <1>I, <1>P, <2>1, <3>4, <3>6, <3>7, Aside
    <3> QED
      BY <3>4, <3>6, <3>8 DEF TablesKept, Grown
  <2> QED
    BY <2>2, <2>3
<1> QED
  BY <1>1, <1>4, <1>5, <1>6, <1>7

\* Steps that leave the tables alone keep what is said of them.
LEMMA SameTables ==
  ASSUME ServerInv, UNCHANGED <<server, lent, held>>
  PROVE  TablesKept
  BY InvIs DEF TablesKept, Grown

\* hold and restore, and their failures.
LEMMA JoinStep ==
  ASSUME ServerInv, Hold \/ HoldFails \/ Join \/ JoinFails
  PROVE  TablesKept
<1>0. /\ Sound(server, lent, held) /\ CallInv /\ server \in Tables
      /\ None \notin Conns /\ None \notin lent /\ Core(server) /\ held \in Conns \union {None}
      /\ None \notin ToSet(server.open)
  BY InvIs DEF Sound
<1>I. held # None /\ held \in Conns /\ (Token(server, held) # 0 \/ CanClaim(server))
  BY <1>0 DEF Hold, HoldFails, Join, JoinFails, CallInv
<1>P. /\ held \notin ToSet(server.open) \union lent /\ Phase(server, held) # "Closed"
  BY <1>0, <1>I DEF Sound, Places
<1>L. UNCHANGED lent
  BY DEF Hold, HoldFails, Join, JoinFails
<1>1. CASE Hold \/ HoldFails
  <2> DEFINE r == Claim(server, held)
  <2>1. Token(server, held) = 0
    BY <1>1 DEF Hold, HoldFails
  <2>2. /\ Core(r) /\ r.open = server.open /\ r.settled = server.settled
        /\ DOMAIN server.slotOf \subseteq DOMAIN r.slotOf
        /\ \A d \in Conns : d # held => r.conn[d] = server.conn[d]
        /\ r.conn[held].phase = server.conn[held].phase
    BY <1>0, <1>I, <2>1, Claims
  <2> DEFINE v == Deinit(r, held)
  <2>H. CASE Hold
    <3>1. server' = r /\ held' = held
      BY <2>H DEF Hold, call
    <3> HIDE DEF r
    <3>2. Phase(r, held) # "Closed"
      BY <1>P, <2>2 DEF Phase
    <3>3. Sound(r, lent, held)
      BY <1>0, <1>I, <1>P, <2>2, <3>2, Aside
    <3> QED
      BY <1>L, <2>2, <3>1, <3>3 DEF TablesKept, Grown
  <2>F. CASE HoldFails
    <3>1. server' = v /\ held' = None
      BY <2>F DEF HoldFails, CallFails
    <3> HIDE DEF r
    <3>2. Only(r, v, held) /\ Token(v, held) = 0 /\ Phase(v, held) = "Closed"
      BY <1>I, <2>2, Deinits, DeinitedIs DEF Core, Token, Phase
    <3> HIDE DEF v
    <3>3. Core(v)
      BY <1>I, <1>P, <2>2, <3>2, OnlyKeeps
    <3>4. /\ v.open = server.open /\ v.settled = server.settled /\ v.slotOf = r.slotOf
          /\ \A d \in Conns : d # held => v.conn[d] = server.conn[d]
      BY <2>2, <3>2 DEF Only
    <3>5. Sound(v, lent, None)
      BY <1>0, <1>I, <1>P, <3>2, <3>3, <3>4, Aside
    <3> QED
      BY <1>L, <2>2, <3>1, <3>4, <3>5 DEF TablesKept, Grown
  <2> QED
    BY <1>1, <2>H, <2>F
<1>2. CASE Join \/ JoinFails
  <2> DEFINE c == held
             e == Enter(server, c)
             m == Parsed(e, c)
             r == NoteSettled(m, c)
  <2>1. Token(server, c) # 0
    BY <1>2 DEF Join, JoinFails
  <2>2. /\ Core(e) /\ e.conn = server.conn /\ ToSet(e.open) = ToSet(server.open) \union {c}
        /\ DOMAIN e.slotOf = DOMAIN server.slotOf /\ e.settled = server.settled
    BY <1>0, <1>I, <1>P, <2>1, Enters
  <2> HIDE DEF e
  <2>3. Places(e, lent, None)
    <3>1. Places(server, lent, held)
      BY <1>0 DEF Sound
    <3>2. Phase(e, c) # "Closed"
      BY <1>P, <2>2 DEF Phase
    <3>3. /\ ToSet(e.open) \ {c} = ToSet(server.open) \ {c} /\ None \notin ToSet(e.open) \union lent
          /\ {None} \ {None, c} = {held} \ {None, c} /\ c \notin ToSet(e.open) \intersect lent
          /\ \A d \in Conns : d # c => e.conn[d] = server.conn[d]
      BY <1>0, <1>I, <1>P, <2>2
    <3> HIDE DEF c
    <3> QED
      BY <1>0, <1>I, <2>2, <3>1, <3>2, <3>3, Placed DEF c
  <2>J. CASE Join
    <3>1. server' = r /\ held' = None
      BY <2>J DEF Join, Restore, e
    <3>2. /\ Reads(e, m, c) /\ ~HasHead(m, c, "request")
      BY <1>I, <2>2, Parses DEF Core
    <3> HIDE DEF m
    <3>3. /\ Only(e, m, c) /\ Token(m, c) = Token(e, c) /\ Phase(m, c) # "Closed"
      BY <1>P, <2>2, <3>2 DEF Reads, Token, Phase
    <3>4. Core(m) /\ Token(m, c) # 0
      BY <1>I, <2>1, <2>2, <3>3, OnlyKeeps DEF Token
    <3>5. /\ Core(r) /\ r.conn = m.conn /\ r.open = m.open /\ r.slotOf = m.slotOf
          /\ ToSet(m.settled) \subseteq ToSet(r.settled)
          /\ Phase(m, c) = "Ready" => Token(m, c) \in ToSet(r.settled)
      BY <1>I, <3>4, Notes
    <3> HIDE DEF r
    <3>6. /\ ToSet(r.open) = ToSet(server.open) \union {c} /\ r.slotOf = e.slotOf
          /\ \A d \in Conns : d # c => r.conn[d] = server.conn[d]
          /\ ToSet(server.settled) \subseteq ToSet(r.settled)
          /\ Phase(r, c) = Phase(m, c) /\ Token(r, c) = Token(m, c) /\ ~HasHead(r, c, "request")
      BY <2>2, <3>2, <3>3, <3>5 DEF Only, Phase, Token, HasHead
    <3>7. Looked(r)
      <4>1. Looked(server)
        BY <1>0 DEF Sound
      <4> QED
        BY <4>1, <3>5, <3>6, LookedBut
    <3>8. Places(r, lent, None)
      <4>1. Places(server, lent, held)
        BY <1>0 DEF Sound
      <4>2. /\ ToSet(r.open) \ {c} = ToSet(server.open) \ {c} /\ None \notin ToSet(r.open) \union lent
            /\ {None} \ {None, c} = {held} \ {None, c} /\ c \notin ToSet(r.open) \intersect lent
            /\ None # c /\ Phase(r, c) # "Closed" /\ c \in ToSet(r.open)
        BY <1>0, <1>I, <1>P, <3>3, <3>6
      <4> QED
        BY <1>0, <1>I, <3>6, <4>1, <4>2, Placed
    <3> QED
      BY <1>L, <2>2, <3>1, <3>5, <3>6, <3>7, <3>8 DEF TablesKept, Sound, Grown
  <2>F. CASE JoinFails
    <3>1. server' = e /\ held' = None /\ HasHead(server, c, "bad")
      BY <2>F DEF JoinFails, CallFails, e
    <3>2. ~HasHead(e, c, "request") /\ Phase(e, c) # "Ready"
      BY <2>2, <3>1 DEF HasHead, Phase
    <3>3. Looked(server)
      BY <1>0 DEF Sound
    <3>4. Looked(e)
      BY <2>2, <3>2, <3>3, LookedBut
    <3> QED
      BY <1>L, <2>2, <2>3, <3>1, <3>4 DEF TablesKept, Sound, Grown
  <2> QED
    BY <1>2, <2>J, <2>F
<1> QED
  BY <1>1, <1>2

\* Taking the body of the request that is handed out, and a caller of the backlog.
LEMMA HandStep ==
  ASSUME ServerInv, Body \/ BodyFails \/ \E c \in Conns : TakeNew(c)
  PROVE  TablesKept
<1>0. /\ Sound(server, lent, held) /\ CallInv /\ server \in Tables
      /\ None \notin Conns /\ None \notin lent /\ Core(server) /\ held \in Conns \union {None}
      /\ None \notin ToSet(server.open)
  BY InvIs DEF Sound
<1>1. CASE Body \/ BodyFails
  <2>1. held \in Conns
    BY <1>0, <1>1 DEF Body, BodyFails, CallInv
  <2>2. /\ held \notin ToSet(server.open) \union lent /\ Phase(server, held) # "Closed"
    BY <1>0, <2>1 DEF Sound, Places
  <2>B. CASE Body
    <3>1. PICK q \in Ahead, k \in 0 .. MaxAhead :
            CanRead(server, held, q, k) /\ server' = Read(server, held, q, k)
      BY <2>B DEF Body
    <3>2. Only(server, server', held) /\ Token(server', held) = Token(server, held)
          /\ Phase(server', held) = Phase(server, held)
      BY <1>0, <2>1, <3>1, ReadDoes DEF Reads, Token, Phase
    <3>3. lent' = lent \union {held} /\ held' = None
      BY <2>B DEF Body
    <3>4. /\ Core(server') /\ server'.open = server.open /\ server'.settled = server.settled
          /\ server'.slotOf = server.slotOf
          /\ \A d \in Conns : d # held => server'.conn[d] = server.conn[d]
      BY <1>0, <2>1, <3>2, OnlyKeeps DEF Only
    <3>5. Sound(server', lent', held')
      BY <1>0, <2>1, <2>2, <3>2, <3>3, <3>4, Aside
    <3> QED
      BY <3>4, <3>5 DEF TablesKept, Grown
  <2>F. CASE BodyFails
    <3>1. server' = Deinit(server, held) /\ held' = None /\ lent' = lent
      BY <2>F DEF BodyFails, CallFails
    <3>2. Only(server, server', held) /\ Token(server', held) = 0
          /\ Phase(server', held) = "Closed"
      BY <1>0, <2>1, <3>1, Deinits, DeinitedIs DEF Token, Phase
    <3>4. /\ Core(server') /\ server'.open = server.open /\ server'.settled = server.settled
          /\ server'.slotOf = server.slotOf
          /\ \A d \in Conns : d # held => server'.conn[d] = server.conn[d]
      BY <1>0, <2>1, <2>2, <3>2, OnlyKeeps DEF Only
    <3>5. Sound(server', lent', held')
      BY <1>0, <2>1, <2>2, <3>1, <3>2, <3>4, Aside
    <3> QED
      BY <3>4, <3>5 DEF TablesKept, Grown
  <2> QED
    BY <1>1, <2>B, <2>F
<1>2. ASSUME NEW c \in Conns, TakeNew(c) PROVE TablesKept
  <2>1. /\ Phase(server, c) = "Closed" /\ server' = [server EXCEPT !.conn[c] = Opening]
        /\ held' = c /\ held = None /\ lent' = lent
    BY <1>0, <1>2 DEF TakeNew, CallInv
  <2>2. c \notin ToSet(server.open) \union lent
    BY <1>0, <2>1 DEF Sound, Places
  <2>3. Only(server, server', c) /\ Token(server', c) = 0 /\ Phase(server', c) # "Closed"
    BY <1>0, <2>1, Put, DeinitedIs DEF Token, Phase
  <2>4. /\ Core(server') /\ server'.open = server.open /\ server'.settled = server.settled
        /\ server'.slotOf = server.slotOf
        /\ \A d \in Conns : d # c => server'.conn[d] = server.conn[d]
    BY <1>0, <2>2, <2>3, OnlyKeeps DEF Only
  <2>5. /\ {c} \ {None, c} = {held} \ {None, c} /\ c \notin lent /\ c # None
    BY <1>0, <2>1, <2>2
  <2>6. Sound(server', lent, c)
    BY <1>0, <2>2, <2>3, <2>4, <2>5, Aside
  <2> QED
    BY <2>1, <2>4, <2>6 DEF TablesKept, Grown
<1> QED
  BY <1>1, <1>2

\* discard_ready.
LEMMA Drops ==
  ASSUME NEW s \in Tables, NEW c \in Conns
  PROVE  /\ Only(s, Dropped(s, c), c)
         /\ Dropped(s, c).conn[c].phase = s.conn[c].phase
         /\ Dropped(s, c).conn[c].token = s.conn[c].token
         /\ HasHead(Dropped(s, c), c, "request") => HasHead(s, c, "request")
<1> DEFINE x == [s.conn[c] EXCEPT !.inbox = <<>>]
           r == [s EXCEPT !.conn[c] = x]
<1>0. s.conn[c] \in Exchange /\ Deinited.inbox = <<>> /\ Deinited.inbox \in Ahead
  BY DeinitedIs DEF Tables, Exchange
<1>1. CASE Phase(s, c) # "Lingering"
  BY <1>1 DEF Dropped, Only
<1>2. CASE Phase(s, c) = "Lingering"
  <2>1. Dropped(s, c) = r
    BY <1>2 DEF Dropped
  <2>2. x \in Exchange /\ x.phase = s.conn[c].phase /\ x.token = s.conn[c].token
    BY <1>0 DEF Exchange
  <2> HIDE DEF x
  <2>3. Only(s, r, c) /\ r.conn[c] = x
    BY <2>2, Put
  <2> QED
    BY <1>2, <2>1, <2>2, <2>3 DEF HasHead, Phase
<1> QED
  BY <1>1, <1>2

\* Two changes of one connection change that connection only.
LEMMA OnlyTwice ==
  ASSUME NEW s, NEW u, NEW r, NEW c, Only(s, u, c), Only(u, r, c)
  PROVE  Only(s, r, c)
  BY DEF Only

\* The connection that an event is about, if it is in the table.
LEMMA Heard ==
  ASSUME ServerInv, NEW e \in events, Hears(e)
  PROVE  /\ Slot(e) \in DOMAIN server.open /\ Named(e) = server.open[Slot(e)]
         /\ Named(e) \in ToSet(server.open) /\ Named(e) \in Conns
         /\ held = None /\ Named(e) \notin lent /\ Phase(server, Named(e)) # "Closed"
         /\ ~HasHead(server, Named(e), "request")
<1>0. Sound(server, lent, held) /\ CallInv /\ Core(server)
  BY InvIs DEF Sound
<1>1. e \in events \ {Listener} /\ Slot(e) # 0 /\ pc = "hear"
  BY DEF Hears
<1>2. e.token \in DOMAIN server.slotOf /\ held = None
  BY <1>0, <1>1 DEF CallInv
<1>3. Slot(e) \in DOMAIN server.open
  BY <1>0, <1>1, <1>2 DEF Core, Slots, Slot
<1>4. Named(e) = server.open[Slot(e)] /\ Named(e) \in ToSet(server.open) /\ Named(e) \in Conns
  BY <1>0, <1>3, CoreTypes DEF Named
<1>5. Named(e) \notin lent /\ Phase(server, Named(e)) # "Closed"
  BY <1>0, <1>4 DEF Sound, Places
<1> QED
  BY <1>0, <1>2, <1>3, <1>4, <1>5 DEF Sound, Looked

\* The end of a handshake changes that connection only.
LEMMA AwakeIs ==
  ASSUME server \in Tables, NEW c \in Conns
  PROVE  /\ Awake(c) \in Tables /\ Moved(server, Awake(c), c, "ReadingHead")
         /\ Only(server, Awake(c), c) /\ Token(Awake(c), c) = Token(server, c)
         /\ Phase(Awake(c), c) = "ReadingHead"
<1>1. Awake(c) = Reopen(server, c)
  BY DEF Awake, Reopen
<1>2. Moved(server, Reopen(server, c), c, "ReadingHead")
  BY MovesTo
<1> QED
  BY <1>1, <1>2 DEF Moved, Only, Token, Phase

\* A read for a connection whose wait was answered changes that connection only.
LEMMA AwakeReads ==
  ASSUME server \in Tables, NEW c \in Conns, NEW q \in Ahead, NEW k \in 0 .. MaxAhead,
         CanRead(Awake(c), c, q, k)
  PROVE  /\ Only(server, Read(Awake(c), c, q, k), c)
         /\ Token(Read(Awake(c), c, q, k), c) = Token(server, c)
         /\ Phase(Read(Awake(c), c, q, k), c) = "ReadingHead"
<1> DEFINE a == Awake(c)
           r == Read(a, c, q, k)
<1>1. Moved(server, a, c, "ReadingHead") /\ a \in Tables
  BY AwakeIs
<1>2. CanRead(a, c, q, k)
  OBVIOUS
<1> HIDE DEF a
<1>3. Reads(a, r, c) /\ r.conn[c].phase = a.conn[c].phase
  BY <1>1, <1>2, ReadDoes
<1> HIDE DEF r
<1>4. Only(server, r, c) /\ Token(r, c) = Token(server, c) /\ Phase(r, c) = "ReadingHead"
  BY <1>1, <1>3, OnlyTwice DEF Moved, Reads, Token, Phase
<1> QED
  BY <1>4 DEF r, a

\* hear, for a connection that is in the table.
LEMMA HearStep ==
  ASSUME ServerInv, NEW e \in events,
         HearNobody(e) \/ HearNothing(e) \/ HearClosed(e) \/ HearRefuses(e) \/ HearParses(e)
           \/ HearReads(e) \/ HearFails(e)
  PROVE  TablesKept
<1> DEFINE c == Named(e)
           i == Slot(e)
<1>0. /\ Sound(server, lent, held) /\ CallInv /\ server \in Tables /\ Core(server)
      /\ held \in Conns \union {None}
  BY InvIs DEF Sound
<1>1. CASE HearNobody(e)
  BY <1>1, SameTables DEF HearNobody, Hear
<1>H. ASSUME Hears(e)
      PROVE  /\ i \in DOMAIN server.open /\ c = server.open[i] /\ c \in ToSet(server.open)
             /\ c \in Conns /\ held = None /\ c \notin lent /\ Phase(server, c) # "Closed"
             /\ ~HasHead(server, c, "request")
  BY <1>H, Heard
<1>S. ASSUME Hears(e), NEW r, server' = r \/ server' = NoteSettled(r, c), Only(server, r, c),
             Token(r, c) = Token(server, c), Phase(r, c) # "Closed", ~HasHead(r, c, "request"),
             server' = r => Phase(r, c) # "Ready" \/ Phase(server, c) = "Ready",
             UNCHANGED <<lent, held>>
      PROVE  TablesKept
  <2>1. c \in ToSet(server.open)
    BY <1>H, <1>S
  <2> HIDE DEF c
  <2>2. /\ Sound(NoteSettled(r, c), lent, held)
        /\ Phase(r, c) # "Ready" \/ Phase(server, c) = "Ready" => Sound(r, lent, held)
        /\ NoteSettled(r, c).slotOf = server.slotOf
    BY <1>0, <1>S, <2>1, Handled
  <2>3. r.slotOf = server.slotOf
    BY <1>S DEF Only
  <2> QED
    BY <1>S, <2>2, <2>3 DEF TablesKept, Grown
<1>2. CASE HearNothing(e)
  <2>1. Hears(e) /\ server' = Dropped(server, c) /\ UNCHANGED <<lent, held>>
    BY <1>2 DEF HearNothing, Hear
  <2>2. /\ c \in Conns /\ Phase(server, c) # "Closed" /\ ~HasHead(server, c, "request")
    BY <1>H, <2>1
  <2> HIDE DEF c
  <2>3. /\ Only(server, server', c) /\ Token(server', c) = Token(server, c)
        /\ Phase(server', c) = Phase(server, c) /\ ~HasHead(server', c, "request")
    BY <1>0, <2>1, <2>2, Drops DEF Token, Phase
  <2>4. Phase(server', c) # "Ready" \/ Phase(server, c) = "Ready"
    BY <2>3
  <2> QED
    BY <1>S, <2>1, <2>2, <2>3, <2>4 DEF c
<1>3. CASE HearClosed(e)
  <2> DEFINE r == DropAt(server, i)
  <2>1. Hears(e) /\ server' = r /\ UNCHANGED <<lent, held>>
    BY <1>3 DEF HearClosed, Hear
  <2>2. /\ i \in DOMAIN server.open /\ c = server.open[i] /\ c \in ToSet(server.open)
        /\ c \in Conns /\ held = None /\ c \notin lent
    BY <1>H, <2>1
  <2> HIDE DEF i, c
  <2>3. /\ Core(r) /\ ToSet(r.open) = ToSet(server.open) \ {c} /\ r.conn[c] = Deinited
        /\ DOMAIN r.slotOf = DOMAIN server.slotOf /\ r.settled = server.settled
        /\ \A d \in Conns : d # c => r.conn[d] = server.conn[d]
    BY <1>0, <2>2, DropsAt
  <2> HIDE DEF r
  <2>4. Phase(r, c) = "Closed"
    BY <2>3, DeinitedIs DEF Phase
  <2>5. Looked(server) /\ Places(server, lent, held)
    BY <1>0 DEF Sound
  <2>6. Looked(r)
    BY <2>3, <2>5, LookedBut
  <2>7. /\ ToSet(r.open) \ {c} = ToSet(server.open) \ {c}
        /\ None \notin ToSet(r.open) \union lent /\ c # None
    BY <2>2, <2>3, InvIs
  <2>8. Places(r, lent, held)
    <3>1. c \notin ToSet(r.open) \union lent \union {held}
      BY <2>2, <2>3, <2>7
    <3> QED
      BY <2>2, <2>3, <2>4, <2>5, <2>7, <3>1, Placed
  <2> QED
    BY <2>1, <2>3, <2>6, <2>8 DEF TablesKept, Grown, Sound
<1>4. CASE HearRefuses(e)
  <2> DEFINE u == Dropped(server, c)
  <2>1. Hears(e) /\ server' = BeginLingering(u, c) /\ UNCHANGED <<lent, held>>
    BY <1>4 DEF HearRefuses, Hear
  <2>2. c \in Conns
    BY <1>H, <2>1
  <2> HIDE DEF c
  <2>3. Only(server, u, c) /\ u.conn[c].token = server.conn[c].token /\ u \in Tables
    BY <1>0, <2>2, Drops DEF Only
  <2> HIDE DEF u
  <2>4. Moved(u, server', c, "Lingering")
    BY <2>1, <2>2, <2>3, MovesTo
  <2>5. /\ Only(server, server', c) /\ Token(server', c) = Token(server, c)
        /\ Phase(server', c) = "Lingering" /\ ~HasHead(server', c, "request")
    BY <2>3, <2>4, OnlyTwice DEF Moved, Token, Phase, HasHead
  <2> QED
    BY <1>S, <2>1, <2>5 DEF c
<1>5. CASE HearParses(e)
  <2> DEFINE m == Parsed(server, c)
  <2>1. Hears(e) /\ server' = NoteSettled(m, c) /\ UNCHANGED <<lent, held>>
    BY <1>5 DEF HearParses, Hear
  <2>2. c \in Conns /\ Phase(server, c) # "Closed" /\ ~HasHead(server, c, "request")
    BY <1>H, <2>1
  <2> HIDE DEF c
  <2>3. Reads(server, m, c) /\ ~HasHead(m, c, "request")
        /\ (server.conn[c].phase # "Ready" => m.conn[c].phase # "Ready")
    BY <1>0, <2>2, Parses DEF Phase
  <2> HIDE DEF m
  <2>4. /\ Only(server, m, c) /\ Token(m, c) = Token(server, c) /\ Phase(m, c) # "Closed"
        /\ (Phase(m, c) # "Ready" \/ Phase(server, c) = "Ready")
    BY <2>2, <2>3 DEF Reads, Token, Phase
  <2> QED
    BY <1>S, <2>1, <2>3, <2>4 DEF c
<1>R. ASSUME Hears(e), NEW q \in Ahead, NEW k \in 0 .. MaxAhead, CanRead(Awake(c), c, q, k)
      PROVE  LET r == Read(Awake(c), c, q, k)
             IN  Only(server, r, c) /\ Token(r, c) = Token(server, c)
                 /\ Phase(r, c) = "ReadingHead"
  <2>1. c \in Conns
    BY <1>H, <1>R
  <2> HIDE DEF c
  <2> QED
    BY <1>0, <1>R, <2>1, AwakeReads
<1>6. CASE HearReads(e)
  <2>1. PICK q \in Ahead, k \in 0 .. MaxAhead :
          /\ CanRead(Awake(c), c, q, k)
          /\ Hear(e, NoteSettled(Parsed(Read(Awake(c), c, q, k), c), c))
    BY <1>6 DEF HearReads
  <2> DEFINE r == Read(Awake(c), c, q, k)
             m == Parsed(r, c)
  <2>2. Hears(e) /\ server' = NoteSettled(m, c) /\ UNCHANGED <<lent, held>>
    BY <1>6, <2>1 DEF HearReads, Hear
  <2>3. Only(server, r, c) /\ Token(r, c) = Token(server, c) /\ Phase(r, c) = "ReadingHead"
    BY <1>R, <2>1, <2>2
  <2>4. c \in Conns /\ r \in Tables
    BY <1>H, <2>2, <2>3 DEF Only
  <2> HIDE DEF r, c
  <2>5. Reads(r, m, c) /\ ~HasHead(m, c, "request")
    BY <2>4, Parses
  <2> HIDE DEF m
  <2>6. Only(server, m, c) /\ Token(m, c) = Token(server, c) /\ Phase(m, c) # "Closed"
    BY <2>3, <2>5, OnlyTwice DEF Reads, Token, Phase
  <2>7. server' = m => (Phase(m, c) # "Ready" \/ Phase(server, c) = "Ready")
    <3>1. CASE Phase(m, c) # "Ready"
      BY <3>1
    <3>2. CASE Phase(m, c) = "Ready"
      <4>1. server' = [m EXCEPT !.settled = Append(@, Token(m, c))]
        BY <2>2, <3>2 DEF NoteSettled
      <4>2. m \in Tables /\ m.settled \in Seq(Nat)
        BY <2>6 DEF Only, Tables
      <4>3. Token(m, c) \in Nat
        BY <1>0, <2>4, <2>6, CoreTypes
      <4>4. server'.settled = Append(m.settled, Token(m, c))
        BY <4>1, <4>2 DEF Tables
      <4>5. Len(server'.settled) = Len(m.settled) + 1 /\ Len(m.settled) \in Nat
        BY <4>2, <4>3, <4>4
      <4> QED
        BY <4>5
    <3> QED
      BY <3>1, <3>2
  <2> QED
    BY <1>S, <2>2, <2>5, <2>6, <2>7 DEF c
<1>7. CASE HearFails(e)
  <2>1. Hears(e) /\ UNCHANGED lent /\ held' = None
    BY <1>7 DEF HearFails, CallFails
  <2>2. held = None /\ c \in Conns
    BY <1>H, <2>1
  <2>3. CASE server' = Awake(c)
    <3>1. ~HasHead(server', c, "request")
      <4>1. CASE ~HasHead(Awake(c), c, "request")
        BY <2>3, <4>1
      <4>2. CASE HasHead(Awake(c), c, "request")
        <5>1. PICK q \in Ahead, k \in 0 .. MaxAhead :
                HasHead(Read(Awake(c), c, q, k), c, "bad") /\ server' = Read(Awake(c), c, q, k)
          BY <1>7, <4>2 DEF HearFails
        <5> QED
          BY <5>1 DEF HasHead
      <4> QED
        BY <4>1, <4>2
    <3> HIDE DEF c
    <3>2. /\ Only(server, server', c) /\ Token(server', c) = Token(server, c)
          /\ Phase(server', c) = "ReadingHead"
      BY <1>0, <2>2, <2>3, AwakeIs
    <3>3. Phase(server', c) # "Ready" /\ Phase(server', c) # "Closed" /\ UNCHANGED <<lent, held>>
      BY <2>1, <2>2, <3>2
    <3> QED
      BY <1>S, <2>1, <3>1, <3>2, <3>3 DEF c
  <2>4. CASE server' # Awake(c)
    <3>1. PICK q \in Ahead, k \in 0 .. MaxAhead :
            /\ CanRead(Awake(c), c, q, k) /\ HasHead(Read(Awake(c), c, q, k), c, "bad")
            /\ server' = Read(Awake(c), c, q, k)
      BY <1>7, <2>4 DEF HearFails
    <3>2. Only(server, server', c) /\ Token(server', c) = Token(server, c)
          /\ Phase(server', c) = "ReadingHead"
      BY <1>R, <2>1, <3>1
    <3>3. ~HasHead(server', c, "request")
      BY <3>1 DEF HasHead
    <3> HIDE DEF c
    <3>4. Phase(server', c) # "Ready" /\ Phase(server', c) # "Closed" /\ UNCHANGED <<lent, held>>
      BY <2>1, <2>2, <3>2
    <3> QED
      BY <1>S, <2>1, <3>2, <3>3, <3>4 DEF c
  <2> QED
    BY <2>3, <2>4
<1> QED
  BY <1>1, <1>2, <1>3, <1>4, <1>5, <1>6, <1>7

\* The name settled takes off the list was made.
LEMMA LastMade ==
  ASSUME NEW s, Core(s), s.settled # <<>>
  PROVE  Last(s.settled) \in DOMAIN s.slotOf
<1> DEFINE q == s.settled
<1>1. q \in Seq(Nat) /\ q # <<>>
  BY CoreTypes
<1>2. ToSet(q) \subseteq DOMAIN s.slotOf
  BY MadeIs DEF Core
<1> HIDE DEF q
<1>3. ToSet(q) = ToSet(Front(q)) \union {Last(q)}
  BY <1>1, Popped
<1>4. Last(q) \in DOMAIN s.slotOf
  BY <1>2, <1>3
<1> QED
  BY <1>4 DEF q

\* settled, for one name of the list.
LEMMA SettledStep ==
  ASSUME ServerInv, Settled
  PROVE  TablesKept /\ (pc' = "body" => Phase(server', held') = "Ready")
<1> DEFINE popped == [server EXCEPT !.settled = Front(@)]
           t == Last(server.settled)
           slot == server.slotOf[t]
<1>0. /\ Sound(server, lent, held) /\ CallInv /\ server \in Tables /\ Core(server)
      /\ None \notin Conns /\ None \notin lent /\ None \notin ToSet(server.open)
  BY InvIs DEF Sound
<1>1. /\ server.settled # <<>> /\ pc = "settled" /\ held = None /\ UNCHANGED lent
  BY <1>0 DEF Settled, CallInv
<1>2. server.settled \in Seq(Nat)
  BY <1>0, CoreTypes
<1>3. /\ Front(server.settled) \in Seq(Nat)
      /\ ToSet(server.settled) = ToSet(Front(server.settled)) \union {t}
  BY <1>1, <1>2, Popped
<1>4. /\ popped \in Tables /\ popped.conn = server.conn /\ popped.open = server.open
      /\ popped.slotOf = server.slotOf /\ popped.spare = server.spare
      /\ popped.retiring = server.retiring /\ popped.settled = Front(server.settled)
  <2> DEFINE z == Front(server.settled)
  <2> HIDE DEF z
  <2>1. [server EXCEPT !.settled = z] \in Tables
    BY <1>0, <1>3 DEF Tables, z
  <2> QED
    BY <1>0, <2>1 DEF Tables, z
<1>5. Core(popped)
  <2> HIDE DEF popped
  <2>1. Made(popped)
    BY <1>0, <1>3, <1>4, MadeIs DEF Core
  <2> QED
    BY <1>0, <1>4, <2>1 DEF Core, Slots, Tokens, Token, Free
<1>6. t \in DOMAIN server.slotOf /\ slot \in Nat
  <2>1. t \in DOMAIN server.slotOf
    BY <1>0, <1>3, MadeIs DEF Core
  <2> QED
    BY <1>0, <2>1, CoreTypes
<1>P. Places(popped, lent, None)
  BY <1>0, <1>1, <1>4 DEF Sound, Places, Phase
<1>L. \A d \in ToSet(server.open) : Token(server, d) # t /\ Token(server, d) \in ToSet(server.settled)
        => Token(server, d) \in ToSet(popped.settled)
  BY <1>3, <1>4
<1> HIDE DEF popped
<1>Z. CASE slot = 0
  <2>1. server' = popped /\ held' = None /\ pc' = "settled"
    BY <1>Z, <1>1 DEF Settled, popped
  <2>2. \A d \in ToSet(server.open) : Token(server, d) # t
    <3>1. ASSUME NEW d \in ToSet(server.open), Token(server, d) = t PROVE FALSE
      <4>1. PICK i \in DOMAIN server.open : server.open[i] = d
        BY <1>0, <3>1, CoreTypes
      <4>2. slot = i /\ i # 0
        BY <1>0, <3>1, <4>1, CoreTypes DEF Core, Slots
      <4> QED
        BY <1>Z, <4>2
    <3> QED
      BY <3>1
  <2>3. Looked(popped)
    BY <1>0, <1>4, <1>L, <2>2 DEF Sound, Looked, HasHead, Phase, Token
  <2> QED
    BY <1>1, <1>4, <1>5, <1>P, <2>1, <2>3 DEF TablesKept, Grown, Sound
<1>N. CASE slot # 0
  <2> DEFINE c == server.open[slot]
             s == Parsed(popped, c)
             r == TakeOut(s, slot)
  <2>1. /\ \/ Done(s, c) /\ server' = r /\ pc' = "body" /\ held' = c
           \/ ~Done(s, c) /\ server' = s /\ UNCHANGED <<pc, held>>
    BY <1>N DEF Settled, popped
  <2>2. slot \in DOMAIN server.open /\ Token(server, c) = t
    BY <1>0, <1>6, <1>N DEF Core, Slots
  <2>3. c \in ToSet(server.open) /\ c \in Conns
    BY <1>0, <2>2, CoreTypes
  <2>4. ~HasHead(popped, c, "request") /\ Phase(server, c) # "Closed"
    BY <1>0, <1>4, <2>3 DEF Sound, Looked, Places, HasHead, Phase
  <2>5. \A d \in ToSet(server.open) : d # c => Token(server, d) # t
    BY SMTT(30), <1>0, <2>2, <2>3, CoreTypes, OnePlace DEF Core, Tokens, Slots
  <2> HIDE DEF c, slot, t
  <2>6. /\ Reads(popped, s, c) /\ ~HasHead(s, c, "request")
        /\ (popped.conn[c].phase # "Ready" => s.conn[c].phase # "Ready")
    BY <1>4, <2>3, <2>4, Parses DEF Phase
  <2> HIDE DEF s
  <2>7. /\ Only(popped, s, c) /\ Token(s, c) = Token(popped, c) /\ Phase(s, c) # "Closed"
    BY <1>4, <2>4, <2>6 DEF Reads, Token, Phase
  <2>8. /\ Core(s) /\ s.open = server.open /\ s.slotOf = server.slotOf
        /\ s.settled = popped.settled
        /\ \A d \in Conns : d # c => s.conn[d] = server.conn[d]
    BY <1>4, <1>5, <2>3, <2>7, OnlyKeeps DEF Only
  <2>9. \A d \in ToSet(server.open) \ {c} :
          Token(server, d) \in ToSet(server.settled) => Token(server, d) \in ToSet(s.settled)
    BY <1>L, <2>5, <2>8
  <2>10. Looked(server) /\ Places(server, lent, None)
    BY <1>0, <1>1 DEF Sound
  <2>D. CASE Done(s, c)
    <3>1. server' = r /\ pc' = "body" /\ held' = c /\ Phase(s, c) = "Ready"
      BY <2>1, <2>D DEF Done
    <3>2. /\ Core(r) /\ r.conn = s.conn /\ ToSet(r.open) = ToSet(server.open) \ {c}
          /\ DOMAIN r.slotOf = DOMAIN server.slotOf /\ r.settled = s.settled
      <4>1. slot \in DOMAIN s.open /\ s.open[slot] = c
        BY <2>2, <2>8 DEF c
      <4>2. /\ Core(TakeOut(s, slot)) /\ TakeOut(s, slot).conn = s.conn
            /\ ToSet(TakeOut(s, slot).open) = ToSet(s.open) \ {s.open[slot]}
            /\ DOMAIN TakeOut(s, slot).slotOf = DOMAIN s.slotOf
            /\ TakeOut(s, slot).settled = s.settled
        BY <2>8, <4>1, TakesOut
      <4> QED
        BY <2>8, <4>1, <4>2
    <3> HIDE DEF r
    <3>3. Phase(r, c) = "Ready" /\ c \notin ToSet(r.open)
          /\ \A d \in Conns : d # c => r.conn[d] = server.conn[d]
      BY <2>8, <3>1, <3>2 DEF Phase
    <3>4. \A d \in ToSet(r.open) \ {c} :
            Token(server, d) \in ToSet(server.settled) => Token(server, d) \in ToSet(r.settled)
      BY <2>9, <3>2
    <3>5. ToSet(r.open) \ {c} \subseteq ToSet(server.open)
      BY <3>2
    <3>6. Looked(r)
      BY <2>10, <3>2, <3>3, <3>4, <3>5, LookedBut
    <3>7. /\ ToSet(r.open) \ {c} = ToSet(server.open) \ {c}
          /\ {c} \ {None, c} = {None} \ {None, c} /\ c \notin ToSet(r.open) \union lent
          /\ c # None /\ c \notin ToSet(r.open) \intersect lent
      BY <1>0, <2>3, <2>10, <3>2 DEF Places
    <3>8. Places(r, lent, c)
      BY SMTT(30), <2>3, <2>10, <3>3, <3>7, Placed
    <3> QED
      BY <1>1, <3>1, <3>2, <3>3, <3>6, <3>8 DEF TablesKept, Grown, Sound
  <2>E. CASE ~Done(s, c)
    <3>1. server' = s /\ held' = None /\ pc' = "settled" /\ Phase(s, c) # "Ready"
      BY <1>1, <2>1, <2>E DEF Done
    <3>2. Looked(s)
      BY <2>6, <2>8, <2>9, <2>10, <3>1, LookedBut
    <3>3. Places(s, lent, None)
      <4>1. c \notin ToSet(s.open) \intersect lent /\ c # None
        BY <1>0, <2>3, <2>8, <2>10 DEF Places
      <4>2. None \notin ToSet(s.open) \union lent /\ c \in ToSet(s.open) \union lent \union {None}
        BY <1>0, <2>3, <2>8
      <4> QED
        BY <2>3, <2>7, <2>8, <2>10, <4>1, <4>2, Placed
    <3> QED
      BY <1>1, <2>8, <3>1, <3>2, <3>3 DEF TablesKept, Grown, Sound
  <2> QED
    BY <2>D, <2>E
<1> QED
  BY <1>N, <1>Z

\* settle_tokens, and the sweep of those that are out of time.
LEMMA TurnStep ==
  ASSUME ServerInv, Turn
  PROVE  TablesKept
<1>0. /\ Sound(server, lent, held) /\ Core(server) /\ UNCHANGED <<lent, held>>
      /\ server' = SettleTokens(server)
  BY InvIs DEF Sound, Turn
<1>1. /\ Core(server') /\ server'.conn = server.conn /\ server'.open = server.open
      /\ server'.slotOf = server.slotOf /\ server'.settled = server.settled
  BY <1>0, Settles
<1> QED
  BY <1>0, <1>1 DEF TablesKept, Grown, Sound, Places, Looked, HasHead, Phase, Token

\* The sweep for connections out of time keeps the tables.
LEMMA SweepStep ==
  ASSUME ServerInv, OutOfTime
  PROVE  TablesKept
<1> DEFINE c == server.open[index]
<1>0. /\ Sound(server, lent, held) /\ CallInv /\ server \in Tables /\ Core(server)
      /\ None \notin Conns /\ None \notin lent /\ None \notin ToSet(server.open)
      /\ held \in Conns \union {None}
  BY InvIs DEF Sound
<1>1. /\ index \in DOMAIN server.open
  <2>1. pc = "sweep" /\ index > 0 /\ index \in 0 .. Cardinality(Conns)
    BY DEF OutOfTime, ServerInv, TypeOK
  <2>2. Cardinality(Conns) \in Nat
    BY ConnsAssumption, FS_CardinalityType
  <2>3. index \in Nat /\ index <= Len(server.open)
    BY <1>0, <2>1, <2>2 DEF CallInv
  <2> QED
    BY <1>0, <2>1, <2>3, CoreTypes
<1>2. c \in Conns /\ c \in ToSet(server.open)
  BY <1>0, <1>1, CoreTypes
<1>3. c \notin lent /\ c # held /\ held = None
  BY <1>0, <1>2 DEF Sound, Places, CallInv, OutOfTime
<1>4. UNCHANGED <<lent, held>>
  BY DEF OutOfTime, Sweep
<1>5. CASE Phase(server, c) = "Lingering"
  <2> DEFINE r == DropAt(server, index)
  <2>1. server' = r
    BY <1>5 DEF OutOfTime, Sweep
  <2>3. /\ Core(r) /\ ToSet(r.open) = ToSet(server.open) \ {c} /\ r.conn[c] = Deinited
        /\ DOMAIN r.slotOf = DOMAIN server.slotOf /\ r.settled = server.settled
        /\ \A d \in Conns : d # c => r.conn[d] = server.conn[d]
    BY <1>0, <1>1, DropsAt
  <2> HIDE DEF r, c
  <2>4. Phase(r, c) = "Closed"
    BY <2>3, DeinitedIs DEF Phase
  <2>5. Looked(server) /\ Places(server, lent, held)
    BY <1>0 DEF Sound
  <2>6. Looked(r)
    BY <2>3, <2>5, LookedBut
  <2>7. /\ ToSet(r.open) \ {c} = ToSet(server.open) \ {c}
        /\ None \notin ToSet(r.open) \union lent /\ c # None
    BY <1>0, <1>2, <2>3
  <2>8. Places(r, lent, held)
    <3>1. c \notin ToSet(r.open) \union lent \union {held}
      BY <1>3, <2>3, <2>7
    <3> QED
      BY <1>2, <2>3, <2>4, <2>5, <2>7, <3>1, Placed
  <2> QED
    BY <1>4, <2>1, <2>3, <2>6, <2>8 DEF TablesKept, Grown, Sound
<1>6. CASE Phase(server, c) # "Lingering"
  <2>1. server' = BeginLingering(server, c)
    BY <1>6 DEF OutOfTime, Sweep
  <2> HIDE DEF c
  <2>2. Moved(server, server', c, "Lingering")
    BY <1>0, <1>2, <2>1, MovesTo
  <2>3. /\ Only(server, server', c) /\ Token(server', c) = Token(server, c)
        /\ Phase(server', c) = "Lingering" /\ ~HasHead(server', c, "request")
    BY <2>2 DEF Moved, Token, Phase, HasHead
  <2>4. Sound(server', lent, held)
    BY <1>0, <1>2, <2>3, Handled
  <2> QED
    BY <1>4, <2>3, <2>4 DEF TablesKept, Grown, Only
<1> QED
  BY <1>5, <1>6

-----------------------------------------------------------------------------
(* The phases, and the call                                                *)

\* What a step keeps of the phases: the caller's exchanges hold a whole request,
\* and a connection that is being closed is never back.
PhasesKept ==
  /\ \A c \in lent' : Phase(server', c) = "Ready"
  /\ \A c \in Conns :
       Phase(server, c) = "Lingering" => Phase(server', c) \in {"Lingering", "Closed"}

\* c is the only one whose exchange changes, or that is lent.
Changes(c) ==
  /\ \A d \in Conns : d # c => server'.conn[d] = server.conn[d]
  /\ lent' \subseteq lent \union {c}
  /\ c \in lent' => Phase(server', c) = "Ready"
  /\ Phase(server, c) = "Lingering" => Phase(server', c) \in {"Lingering", "Closed"}

\* A step on one connection keeps the phases of all the others, and of a
\* lingering one.
LEMMA ChangesOne ==
  ASSUME ServerInv, NEW c \in Conns, Changes(c)
  PROVE  PhasesKept
  BY InvIs DEF Changes, PhasesKept, CallInv, Phase

\* A step on no connection keeps every phase.
LEMMA ChangesNone ==
  ASSUME ServerInv, server'.conn = server.conn, lent' = lent
  PROVE  PhasesKept
  BY InvIs DEF PhasesKept, CallInv, Phase

\* The caller's steps keep the phases that are over.
LEMMA CallerPhases ==
  ASSUME ServerInv, NEW c \in Conns,
         Accept(c) \/ Discard(c) \/ KeepCarries(c) \/ KeepLingers(c) \/ KeepCloses(c)
           \/ KeepFails(c) \/ TakeNew(c)
  PROVE  PhasesKept
<1>0. /\ Sound(server, lent, held) /\ CallInv /\ server \in Tables
  BY InvIs
<1>1. CASE Accept(c)
  <2> DEFINE u == [server EXCEPT !.conn[c].phase = "Ready"]
  <2>1. PICK q \in Ahead, k \in 0 .. MaxAhead : CanRead(u, c, q, k) /\ server' = Read(u, c, q, k)
    BY <1>1 DEF Accept
  <2>2. Moved(server, u, c, "Ready")
    BY <1>0, MovesTo
  <2> HIDE DEF u
  <2>3. Reads(u, server', c) /\ server'.conn[c].phase = u.conn[c].phase
    BY <2>1, <2>2, ReadDoes DEF Moved, Only
  <2>4. /\ \A d \in Conns : d # c => server'.conn[d] = server.conn[d]
        /\ Phase(server', c) = "Ready" /\ Phase(server, c) = "Closed" /\ lent' = lent \union {c}
    BY <1>1, <2>2, <2>3 DEF Moved, Reads, Only, Phase, Accept
  <2> QED
    BY <2>4, ChangesOne DEF Changes
<1>2. ASSUME Only(server, server', c), c \in lent, lent' = lent \ {c} PROVE PhasesKept
  <2>1. Phase(server, c) = "Ready"
    BY <1>0, <1>2 DEF CallInv
  <2> QED
    BY <1>2, <2>1, ChangesOne DEF Changes, Only
<1>3. CASE Discard(c) \/ KeepFails(c)
  BY <1>0, <1>2, <1>3, Deinits DEF Discard, KeepFails, Keep
<1>4. CASE KeepCarries(c) \/ KeepLingers(c)
  <2>1. c \in lent /\ lent' = lent \ {c}
        /\ (server' = Reopen(server, c) \/ server' = BeginLingering(server, c))
    BY <1>4 DEF KeepCarries, KeepLingers, Keep
  <2>2. Only(server, Reopen(server, c), c) /\ Only(server, BeginLingering(server, c), c)
    BY <1>0, MovesTo DEF Moved
  <2> QED
    BY <1>2, <2>1, <2>2
<1>5. CASE KeepCloses(c)
  <2>1. c \in lent /\ lent' = lent \ {c} /\ Phase(server, c) = "Ready"
    BY <1>0, <1>5 DEF KeepCloses, Keep, CallInv
  <2>2. server'.conn = Deinit(server, c).conn
    <3> DEFINE v == Deinit(server, c)
    <3>1. v \in Tables
      BY <1>0, Deinits DEF Only
    <3>2. server' = v \/ server' = Retire(v, Token(server, c))
      BY <1>5 DEF KeepCloses, Keep
    <3> HIDE DEF v
    <3> QED
      BY <3>1, <3>2 DEF Retire, Tables, v
  <2>3. \A d \in Conns : d # c => server'.conn[d] = server.conn[d]
    BY <1>0, <2>2, Deinits DEF Only
  <2> QED
    BY <2>1, <2>3, ChangesOne DEF Changes
<1>6. CASE TakeNew(c)
  <2>1. server' = [server EXCEPT !.conn[c] = Opening] /\ lent' = lent /\ Phase(server, c) = "Closed"
    BY <1>6 DEF TakeNew
  <2>2. Only(server, server', c) /\ c \notin lent
    BY <1>0, <2>1, Put, DeinitedIs DEF Sound, Places
  <2> QED
    BY <2>1, <2>2, ChangesOne DEF Changes, Only
<1> QED
  BY <1>1, <1>3, <1>4, <1>5, <1>6

\* Parsing moves only one that is reading a head.
LEMMA ParsedPhase ==
  ASSUME NEW s \in Tables, NEW c \in Conns
  PROVE  /\ Only(s, Parsed(s, c), c)
         /\ Phase(s, c) = "Lingering" => Phase(Parsed(s, c), c) = "Lingering"
         /\ NoteSettled(Parsed(s, c), c).conn = Parsed(s, c).conn
<1> DEFINE m == Parsed(s, c)
<1>1. Only(s, m, c) /\ (s.conn[c].phase # "ReadingHead" => m = s)
  BY Parses DEF Reads
<1> HIDE DEF m
<1>2. NoteSettled(m, c).conn = m.conn
  BY <1>1 DEF NoteSettled, Only, Tables
<1> QED
  BY <1>1, <1>2 DEF Phase, m

\* The steps of a call keep the phases that are over.
LEMMA CallPhases ==
  ASSUME ServerInv,
         Hold \/ HoldFails \/ Join \/ JoinFails \/ Turn \/ Settled \/ Body \/ BodyFails
  PROVE  PhasesKept
<1>0. /\ Sound(server, lent, held) /\ CallInv /\ server \in Tables /\ Core(server)
      /\ held \in Conns \union {None}
  BY InvIs DEF Sound
<1>1. ASSUME held # None PROVE held \in Conns /\ held \notin lent
  BY <1>0, <1>1 DEF Sound, Places
<1>2. CASE Hold \/ HoldFails
  <2> DEFINE r == Claim(server, held)
             v == Deinit(r, held)
  <2>1. held \in Conns /\ held \notin lent /\ Token(server, held) = 0 /\ CanClaim(server)
        /\ lent' = lent /\ (server' = r \/ server' = v)
    BY <1>0, <1>1, <1>2 DEF Hold, HoldFails, CallInv
  <2>2. /\ Core(r) /\ \A d \in Conns : d # held => r.conn[d] = server.conn[d]
        /\ r.conn[held].phase = server.conn[held].phase
    BY <1>0, <2>1, Claims
  <2> HIDE DEF r
  <2>3. Only(r, v, held) /\ Phase(v, held) = "Closed"
    BY <2>1, <2>2, Deinits, DeinitedIs DEF Core, Phase
  <2> HIDE DEF v
  <2>4. Changes(held)
    BY <2>1, <2>2, <2>3 DEF Changes, Only, Phase
  <2> QED
    BY <2>1, <2>4, ChangesOne
<1>3. CASE Join \/ JoinFails
  <2> DEFINE e == Enter(server, held)
             m == Parsed(e, held)
             r == NoteSettled(m, held)
  <2>1. /\ held \in Conns /\ held \notin lent /\ lent' = lent /\ (server' = r \/ server' = e)
        /\ Token(server, held) # 0
    BY <1>0, <1>1, <1>3 DEF Join, JoinFails, Restore, CallInv
  <2>2. e \in Tables /\ e.conn = server.conn
    <3>1. held \notin ToSet(server.open)
      BY <1>0 DEF Sound, Places
    <3> QED
      BY <1>0, <2>1, <3>1, Enters DEF Core
  <2> HIDE DEF e
  <2>3. /\ Only(e, m, held) /\ r.conn = m.conn
        /\ Phase(e, held) = "Lingering" => Phase(m, held) = "Lingering"
    BY <2>1, <2>2, ParsedPhase
  <2> HIDE DEF m, r
  <2>4. Changes(held)
    BY <2>1, <2>2, <2>3 DEF Changes, Only, Phase
  <2> QED
    BY <2>1, <2>4, ChangesOne
<1>4. CASE Turn
  BY <1>0, <1>4, Settles, ChangesNone DEF Turn
<1>5. CASE Settled
  <2> DEFINE p == [server EXCEPT !.settled = Front(@)]
             slot == server.slotOf[Last(server.settled)]
             c == server.open[slot]
             m == Parsed(p, c)
  <2>1. lent' = lent /\ server.settled # <<>>
    BY <1>5 DEF Settled
  <2>2. p \in Tables /\ p.conn = server.conn /\ p.open = server.open /\ p.slotOf = server.slotOf
    <3>1. Front(server.settled) \in Seq(Nat)
      BY <1>0, <2>1, CoreTypes, Popped
    <3> QED
      BY <1>0, <3>1 DEF Tables
  <2> HIDE DEF p
  <2>3. CASE server' = p
    BY <2>1, <2>2, <2>3, ChangesNone
  <2>4. CASE server' # p
    <3>1. slot # 0 /\ (server' = TakeOut(m, slot) \/ server' = m)
      BY <1>5, <2>4 DEF Settled, p
    <3>2. slot \in DOMAIN server.open
      <4>1. Last(server.settled) \in DOMAIN server.slotOf
        BY <1>0, <2>1, LastMade
      <4> QED
        BY <1>0, <3>1, <4>1 DEF Core, Slots
    <3>3. c \in Conns /\ c \in ToSet(server.open) /\ c \notin lent
      <4>1. c \in Conns /\ c \in ToSet(server.open)
        BY <1>0, <3>2, CoreTypes
      <4> QED
        BY <1>0, <4>1 DEF Sound, Places
    <3> HIDE DEF c, slot
    <3>4. /\ Only(p, m, c) /\ (Phase(p, c) = "Lingering" => Phase(m, c) = "Lingering")
      BY <2>2, <3>3, ParsedPhase
    <3> HIDE DEF m
    <3>5. server'.conn = m.conn
      BY <3>1, <3>4 DEF TakeOut, NoteSlot, Only, Tables
    <3>6. Changes(c)
      BY <2>1, <2>2, <3>3, <3>4, <3>5 DEF Changes, Only, Phase
    <3> QED
      BY <3>3, <3>6, ChangesOne
  <2> QED
    BY <2>3, <2>4
<1>6. CASE Body
  <2>1. held \in Conns /\ Phase(server, held) = "Ready" /\ lent' = lent \union {held}
    BY <1>0, <1>6 DEF Body, CallInv
  <2>2. PICK q \in Ahead, k \in 0 .. MaxAhead :
          CanRead(server, held, q, k) /\ server' = Read(server, held, q, k)
    BY <1>6 DEF Body
  <2>3. Only(server, server', held) /\ Phase(server', held) = "Ready"
    BY <1>0, <2>1, <2>2, ReadDoes DEF Reads, Phase
  <2> QED
    BY <2>1, <2>3, ChangesOne DEF Changes, Only
<1>7. CASE BodyFails
  <2>1. held \in Conns /\ held \notin lent /\ lent' = lent /\ server' = Deinit(server, held)
    BY <1>0, <1>1, <1>7 DEF BodyFails, CallInv
  <2>2. Only(server, server', held) /\ Phase(server', held) = "Closed"
    BY <1>0, <2>1, Deinits, DeinitedIs DEF Phase
  <2> QED
    BY <2>1, <2>2, ChangesOne DEF Changes, Only
<1> QED
  BY <1>2, <1>3, <1>4, <1>5, <1>6, <1>7

\* The answers of hear keep the phases that are over.
LEMMA HearPhases ==
  ASSUME ServerInv, NEW e \in events,
         HearNobody(e) \/ HearNothing(e) \/ HearClosed(e) \/ HearRefuses(e) \/ HearParses(e)
           \/ HearReads(e) \/ HearFails(e)
  PROVE  PhasesKept
<1> DEFINE c == Named(e)
           i == Slot(e)
<1>0. /\ CallInv /\ server \in Tables /\ Core(server)
  BY InvIs DEF Sound
<1>1. CASE HearNobody(e)
  BY <1>1, ChangesNone DEF HearNobody, Hear
<1>L. lent' = lent
  BY DEF HearNobody, HearNothing, HearClosed, HearRefuses, HearParses, HearReads, HearFails, Hear
<1>H. ASSUME Hears(e)
      PROVE  /\ i \in DOMAIN server.open /\ c = server.open[i]
             /\ c \in Conns /\ c \notin lent
  BY <1>H, Heard
<1>S. ASSUME Hears(e), NEW r, server'.conn = r.conn, Only(server, r, c),
             Phase(server, c) = "Lingering" => Phase(r, c) \in {"Lingering", "Closed"}
      PROVE  PhasesKept
  <2>1. c \in Conns /\ c \notin lent
    BY <1>H, <1>S
  <2> HIDE DEF c
  <2> QED
    BY <1>L, <1>S, <2>1, ChangesOne DEF Changes, Only, Phase
<1>2. CASE HearNothing(e)
  <2>1. Hears(e) /\ server' = Dropped(server, c)
    BY <1>2 DEF HearNothing, Hear
  <2>2. Only(server, server', c) /\ Phase(server', c) = Phase(server, c)
    BY <1>0, <1>H, <2>1, Drops DEF Phase
  <2> QED
    BY <1>S, <2>1, <2>2
<1>3. CASE HearClosed(e)
  <2>1. Hears(e) /\ server' = DropAt(server, i)
    BY <1>3 DEF HearClosed, Hear
  <2>2. /\ i \in DOMAIN server.open /\ c = server.open[i] /\ c \in Conns /\ c \notin lent
    BY <1>H, <2>1
  <2> HIDE DEF i, c
  <2>3. /\ \A d \in Conns : d # c => server'.conn[d] = server.conn[d]
        /\ server'.conn[c] = Deinited
    BY <1>0, <2>1, <2>2, DropsAt
  <2>4. Changes(c)
    BY <1>L, <2>2, <2>3, DeinitedIs DEF Changes, Phase
  <2> QED
    BY <2>2, <2>4, ChangesOne
<1>4. CASE HearRefuses(e)
  <2> DEFINE u == Dropped(server, c)
  <2>1. Hears(e) /\ server' = BeginLingering(u, c) /\ c \in Conns
    BY <1>4, <1>H DEF HearRefuses, Hear
  <2>3. Only(server, u, c) /\ u \in Tables
    BY <1>0, <2>1, Drops DEF Only
  <2>4. Moved(u, server', c, "Lingering")
    BY <2>1, <2>3, MovesTo
  <2> HIDE DEF u, c
  <2>5. Only(server, server', c) /\ Phase(server', c) = "Lingering"
    BY <2>3, <2>4, OnlyTwice DEF Moved, Phase
  <2> QED
    BY <1>S, <2>1, <2>5 DEF c
<1>5. CASE HearParses(e)
  <2> DEFINE m == Parsed(server, c)
  <2>1. Hears(e) /\ server' = NoteSettled(m, c) /\ c \in Conns
    BY <1>5, <1>H DEF HearParses, Hear
  <2>2. /\ Only(server, m, c) /\ server'.conn = m.conn
        /\ Phase(server, c) = "Lingering" => Phase(m, c) = "Lingering"
    BY <1>0, <2>1, ParsedPhase
  <2> QED
    BY <1>S, <2>1, <2>2
<1>6. CASE HearReads(e)
  <2>1. PICK q \in Ahead, k \in 0 .. MaxAhead :
          /\ CanRead(Awake(c), c, q, k)
          /\ Hear(e, NoteSettled(Parsed(Read(Awake(c), c, q, k), c), c))
    BY <1>6 DEF HearReads
  <2> DEFINE r == Read(Awake(c), c, q, k)
             m == Parsed(r, c)
  <2>2. Hears(e) /\ server' = NoteSettled(m, c) /\ c \in Conns /\ Phase(server, c) # "Lingering"
    BY <1>6, <1>H, <2>1 DEF HearReads, Hear
  <2>3. Only(server, r, c)
    BY <1>0, <2>1, <2>2, AwakeReads
  <2>4. r \in Tables
    BY <2>3 DEF Only
  <2> HIDE DEF r, c
  <2>5. Only(r, m, c) /\ server'.conn = m.conn
    BY <2>2, <2>4, ParsedPhase
  <2> HIDE DEF m
  <2>6. Only(server, m, c)
    BY <2>3, <2>5, OnlyTwice
  <2> QED
    BY <1>S, <2>2, <2>5, <2>6 DEF c
<1>7. CASE HearFails(e)
  <2>1. Hears(e) /\ c \in Conns /\ Phase(server, c) # "Lingering"
    BY <1>7, <1>H DEF HearFails
  <2>3. CASE server' = Awake(c)
    <3>1. Only(server, server', c)
      BY <1>0, <2>1, <2>3, AwakeIs
    <3> QED
      BY <1>S, <2>1, <3>1
  <2>4. CASE server' # Awake(c)
    <3>1. PICK q \in Ahead, k \in 0 .. MaxAhead :
            /\ CanRead(Awake(c), c, q, k) /\ server' = Read(Awake(c), c, q, k)
      BY <1>7, <2>4 DEF HearFails
    <3>2. Only(server, server', c)
      BY <1>0, <2>1, <3>1, AwakeReads
    <3> QED
      BY <1>S, <2>1, <3>2
  <2> QED
    BY <2>3, <2>4
<1> QED
  BY <1>1, <1>2, <1>3, <1>4, <1>5, <1>6, <1>7

\* Every step keeps the tables and the phases.
LEMMA TablesStep ==
  ASSUME ServerInv, Next
  PROVE  TablesKept /\ PhasesKept
<1>1. ASSUME UNCHANGED <<server, lent, held>> PROVE TablesKept /\ PhasesKept
  BY <1>1, SameTables, ChangesNone
<1>2. CASE \E c \in Conns : Accept(c) \/ Discard(c) \/ KeepCarries(c) \/ KeepLingers(c)
                             \/ KeepCloses(c) \/ KeepFails(c)
  BY <1>2, CallerStep, CallerPhases
<1>3. CASE \E c \in Conns : TakeNew(c)
  BY <1>3, HandStep, CallerPhases
<1>4. CASE Hold \/ HoldFails \/ Join \/ JoinFails
  BY <1>4, JoinStep, CallPhases
<1>5. CASE Turn
  BY <1>5, TurnStep, CallPhases
<1>6. CASE Settled
  BY <1>6, SettledStep, CallPhases
<1>7. CASE Body \/ BodyFails
  BY <1>7, HandStep, CallPhases
<1>8. CASE \E e \in events :
              \/ HearNobody(e) \/ HearNothing(e) \/ HearClosed(e) \/ HearRefuses(e)
              \/ HearParses(e) \/ HearReads(e) \/ HearFails(e)
  BY <1>8, HearStep, HearPhases
<1>9. CASE OutOfTime
  <2> DEFINE c == server.open[index]
  <2>0. TablesKept
    BY <1>9, SweepStep
  <2>1. /\ Sound(server, lent, held) /\ CallInv /\ server \in Tables /\ Core(server)
    BY InvIs DEF Sound
  <2>2. index \in DOMAIN server.open
    <3>1. pc = "sweep" /\ index > 0 /\ index \in 0 .. Cardinality(Conns)
      BY <1>9 DEF OutOfTime, ServerInv, TypeOK
    <3>2. Cardinality(Conns) \in Nat
      BY ConnsAssumption, FS_CardinalityType
    <3>3. index \in Nat /\ index <= Len(server.open)
      BY <2>1, <3>1, <3>2 DEF CallInv
    <3> QED
      BY <2>1, <3>1, <3>3, CoreTypes
  <2>3. c \in Conns /\ c \in ToSet(server.open)
    BY <2>1, <2>2, CoreTypes
  <2>4. c \notin lent /\ lent' = lent
        /\ (server' = DropAt(server, index) \/ server' = BeginLingering(server, c))
    BY <1>9, <2>1, <2>3 DEF Sound, Places, OutOfTime, Sweep
  <2>5. Only(server, BeginLingering(server, c), c)
        /\ Phase(BeginLingering(server, c), c) = "Lingering"
    BY <2>1, <2>3, MovesTo DEF Moved, Phase
  <2>6. /\ \A d \in Conns : d # c => DropAt(server, index).conn[d] = server.conn[d]
        /\ Phase(DropAt(server, index), c) = "Closed"
    BY <2>1, <2>2, DropsAt, DeinitedIs DEF Phase
  <2> HIDE DEF c
  <2>7. Changes(c)
    BY <2>4, <2>5, <2>6 DEF Changes, Only
  <2> QED
    BY <2>0, <2>3, <2>7, ChangesOne
<1>10. CASE First \/ SettleListener \/ Wait \/ HearListener \/ TakeNoMore \/ BeginSweep
              \/ InTime \/ EndSweep
  BY <1>1, <1>10 DEF First, SettleListener, Wait, HearListener, TakeNoMore, BeginSweep, InTime,
       Sweep, EndSweep
<1>11. CASE SettleListenerFails \/ WaitFails \/ TakeFails \/ SweepFails
  <2>1. held = None
    BY <1>11, InvIs DEF CallInv, SettleListenerFails, WaitFails, TakeFails, SweepFails
  <2> QED
    BY <1>1, <1>11, <2>1 DEF SettleListenerFails, WaitFails, TakeFails, SweepFails, CallFails
<1> QED
  BY <1>2, <1>3, <1>4, <1>5, <1>6, <1>7, <1>8, <1>9, <1>10, <1>11 DEF Next

\* Where the call goes, and by which of its steps.
Control ==
  /\ pc' \in {"idle", "turn", "settled", "wait", "hear", "take", "join", "body", "sweep"}
  /\ back' \in {"turn", "take"} /\ secure' = secure /\ listening' \in BOOLEAN
  /\ held' # None <=> pc' \in {"join", "body"}
  /\ pc' = "body" => Settled
  /\ pc' = "join" => Hold \/ \E c \in Conns : KeepCarries(c) \/ KeepLingers(c) \/ TakeNew(c)
  /\ pc' = "wait" => SettleListener
  /\ pc' = "sweep" => BeginSweep \/ InTime \/ OutOfTime
  /\ events' \subseteq events \/ Wait
  /\ late' \subseteq late \/ BeginSweep
  /\ index' = index \/ index' = 0 \/ BeginSweep \/ InTime \/ OutOfTime

\* Each step leads to a place that next and first go to.
LEMMA ControlStep ==
  ASSUME ServerInv, Next
  PROVE  Control
<1>0. /\ held # None <=> pc \in {"join", "body"}
      /\ pc \in {"idle", "turn", "settled", "wait", "hear", "take", "join", "body", "sweep"}
      /\ back \in {"turn", "take"} /\ listening \in BOOLEAN /\ held \in Conns \union {None}
      /\ None \notin Conns /\ None \notin lent
  BY InvIs DEF ServerInv, CallInv, TypeOK
<1>1. ASSUME CallFails, UNCHANGED <<secure, listening>> PROVE Control
  BY <1>0, <1>1 DEF CallFails, Control
<1>2. ASSUME NEW c \in Conns,
             Accept(c) \/ Discard(c) \/ KeepCarries(c) \/ KeepLingers(c) \/ KeepCloses(c)
               \/ KeepFails(c) \/ TakeNew(c)
      PROVE  Control
  <2>1. CASE Accept(c) \/ Discard(c)
    BY <1>0, <2>1 DEF Control, Accept, Discard, call
  <2>2. CASE KeepCarries(c) \/ KeepLingers(c)
    <3>1. /\ pc' = "join" /\ held' = c
          /\ UNCHANGED <<secure, listening, back, events, late, index>>
      BY <2>2 DEF KeepCarries, KeepLingers, Keep
    <3> QED
      BY <1>0, <2>2, <3>1 DEF Control
  <2>3. CASE KeepCloses(c) \/ KeepFails(c)
    BY <1>0, <2>3 DEF Control, KeepCloses, KeepFails, Keep
  <2>4. CASE TakeNew(c)
    <3>1. /\ pc' = "join" /\ held' = c /\ back' = "take"
          /\ UNCHANGED <<secure, listening, events, late, index>>
      BY <2>4 DEF TakeNew
    <3> QED
      BY <1>0, <2>4, <3>1 DEF Control
  <2> QED
    BY <1>2, <2>1, <2>2, <2>3, <2>4
<1>3. CASE HoldFails \/ JoinFails \/ BodyFails \/ SettleListenerFails \/ WaitFails \/ TakeFails
             \/ SweepFails
  BY <1>1, <1>3 DEF HoldFails, JoinFails, BodyFails, SettleListenerFails, WaitFails, TakeFails,
       SweepFails
<1>4. CASE First \/ Turn \/ Body \/ HearListener \/ TakeNoMore \/ EndSweep
  BY <1>0, <1>4 DEF Control, First, Turn, Body, HearListener, TakeNoMore, EndSweep
<1>5. CASE Hold
  BY <1>0, <1>5 DEF Control, Hold, call
<1>6. CASE Join
  BY <1>0, <1>6 DEF Control, Join
<1>7. CASE Settled
  <2>1. /\ UNCHANGED <<secure, listening, back, events, late, index>> /\ pc = "settled"
        /\ \/ UNCHANGED <<pc, held>>
           \/ pc' = "body" /\ held' \in Conns
    <3> DEFINE slot == server.slotOf[Last(server.settled)]
               c == server.open[slot]
    <3>1. slot # 0 => c \in Conns
      <4>1. Core(server) /\ server.settled # <<>>
        BY <1>7, InvIs DEF Sound, Settled
      <4>3. Last(server.settled) \in DOMAIN server.slotOf
        BY <4>1, LastMade
      <4>4. slot # 0 => slot \in DOMAIN server.open
        BY <4>1, <4>3 DEF Core, Slots
      <4> QED
        BY <4>1, <4>4, CoreTypes
    <3> QED
      BY <1>7, <3>1 DEF Settled
  <2> QED
    BY <1>0, <1>7, <2>1 DEF Control
<1>8. CASE SettleListener
  BY <1>0, <1>8 DEF Control, SettleListener
<1>9. CASE Wait
  BY <1>0, <1>9 DEF Control, Wait
<1>10. ASSUME NEW e \in events,
              HearNobody(e) \/ HearNothing(e) \/ HearClosed(e) \/ HearRefuses(e) \/ HearParses(e)
                \/ HearReads(e) \/ HearFails(e)
       PROVE  Control
  <2>1. CASE HearFails(e)
    BY <1>1, <2>1 DEF HearFails
  <2>2. CASE ~HearFails(e)
    <3>1. /\ pc = "hear" /\ events' = events \ {e}
          /\ UNCHANGED <<secure, listening, pc, held, back, late, index>>
      BY <1>10, <2>2 DEF HearNobody, HearNothing, HearClosed, HearRefuses, HearParses, HearReads,
           Hears, Hear
    <3> QED
      BY <1>0, <3>1 DEF Control
  <2> QED
    BY <2>1, <2>2
<1>11. CASE BeginSweep
  BY <1>0, <1>11 DEF Control, BeginSweep
<1>12. CASE InTime \/ OutOfTime
  <2>1. /\ pc = "sweep" /\ late' \subseteq late
        /\ UNCHANGED <<secure, listening, pc, held, back, events>>
    BY <1>12 DEF InTime, OutOfTime, Sweep
  <2> QED
    BY <1>0, <1>12, <2>1 DEF Control
<1> QED
  BY <1>2, <1>3, <1>4, <1>5, <1>6, <1>7, <1>8, <1>9, <1>10, <1>11, <1>12 DEF Next

\* The table holds each connection once, so no more than there are.
LEMMA OpenFits ==
  ASSUME NEW s, Core(s)
  PROVE  Len(s.open) \in 0 .. Cardinality(Conns) /\ Cardinality(Conns) \in Nat
<1>1. /\ s.open \in [1 .. Len(s.open) -> Conns] /\ Len(s.open) \in Nat
  BY CoreTypes, LenProperties
<1>2. \A i, j \in 1 .. Len(s.open) : s.open[i] = s.open[j] => i = j
  BY OnePlace, CoreTypes
<1>3. s.open \in Injection(1 .. Len(s.open), Conns)
  BY <1>1, <1>2 DEF Injection, IsInjective
<1>4. Cardinality(1 .. Len(s.open)) <= Cardinality(Conns)
  BY <1>3, ConnsAssumption, FS_Injection
<1>5. Cardinality(1 .. Len(s.open)) = Len(s.open)
  <2> DEFINE n == Len(s.open)
  <2>1. n \in Nat /\ 1 \in Int /\ n \in Int
    BY <1>1
  <2> HIDE DEF n
  <2>2. Cardinality(1 .. n) = IF 1 > n THEN 0 ELSE n - 1 + 1
    BY <2>1, FS_Interval
  <2>3. Cardinality(1 .. n) = n
    BY <2>1, <2>2
  <2> QED
    BY <2>3 DEF n
<1>6. Cardinality(Conns) \in Nat
  BY ConnsAssumption, FS_CardinalityType
<1> QED
  BY <1>1, <1>4, <1>5, <1>6

\* The connections that the poller watches have tokens that were made.
LEMMA WatchedMade ==
  ASSUME ServerInv
  PROVE  /\ Watched \subseteq Event
         /\ \A e \in Watched \ {Listener} : e.token \in DOMAIN server.slotOf
<1>0. Core(server) /\ 0 \in 0 .. MaxTokens
  BY InvIs, BoundsAssumption DEF Sound
<1>1. ASSUME NEW e \in Watched, e # Listener
      PROVE  e \in Event /\ e.token \in DOMAIN server.slotOf
  <2>1. PICK c \in Conns : Token(server, c) # 0 /\ e = [token |-> Token(server, c), conn |-> c]
    BY <1>1 DEF Watched
  <2>2. Token(server, c) \in DOMAIN server.slotOf
    BY <1>0, <2>1 DEF Core, Tokens
  <2>3. Token(server, c) \in 0 .. MaxTokens
    BY <1>0, CoreTypes DEF Token, Exchange
  <2> QED
    BY <2>1, <2>2, <2>3 DEF Event
<1>2. Listener \in Event
  BY <1>0 DEF Listener, Event
<1> QED
  BY <1>1, <1>2

\* What the call holds is what its place says, after every step.
LEMMA CallKept ==
  ASSUME ServerInv, Next, TablesKept, PhasesKept, Control
  PROVE  CallInv'
<1>0. /\ CallInv /\ server \in Tables /\ Core(server) /\ Core(server') /\ server' \in Tables
      /\ index \in Nat /\ None \notin Conns
  <2>1. index \in 0 .. Cardinality(Conns) /\ Cardinality(Conns) \in Nat
    BY ConnsAssumption, FS_CardinalityType DEF ServerInv, TypeOK
  <2> QED
    BY <2>1, InvIs DEF TablesKept, Sound, Core
<1>1. (held # None <=> pc \in {"join", "body"})'
  BY DEF Control
<1>2. (pc = "body" => Phase(server, held) = "Ready")'
  BY SettledStep DEF Control, Phase
<1>3. (pc = "join" => Token(server, held) # 0 \/ CanClaim(server))'
  <2>1. ASSUME Hold PROVE Token(server', held') # 0
    <3>1. held \in Conns /\ Token(server, held) = 0 /\ CanClaim(server) /\ held' = held
          /\ server' = Claim(server, held)
      BY <1>0, <2>1, InvIs DEF Hold, CallInv, call
    <3>2. Token(Claim(server, held), held) # 0
      BY <1>0, <3>1, Claims
    <3> QED
      BY <3>1, <3>2
  <2>2. ASSUME NEW c \in Conns, Token(server, c) # 0 \/ CanClaim(server), held' = c,
               Only(server, server', c), Token(server', c) = Token(server, c) \/ CanClaim(server)
        PROVE  Token(server', held') # 0 \/ CanClaim(server')
    BY <2>2 DEF Only, CanClaim
  <2>3. ASSUME NEW c \in Conns, KeepCarries(c) \/ KeepLingers(c)
        PROVE  Token(server', held') # 0 \/ CanClaim(server')
    <3>1. /\ Token(server, c) # 0 \/ CanClaim(server)
          /\ held' = c /\ (server' = Reopen(server, c) \/ server' = BeginLingering(server, c))
      BY <2>3 DEF KeepCarries, KeepLingers, Keep
    <3>2. /\ Moved(server, Reopen(server, c), c, "ReadingHead")
          /\ Moved(server, BeginLingering(server, c), c, "Lingering")
      BY <1>0, MovesTo
    <3>3. Only(server, server', c) /\ Token(server', c) = Token(server, c)
      BY <3>1, <3>2 DEF Moved, Token
    <3> QED
      BY <2>2, <3>1, <3>3
  <2>4. ASSUME NEW c \in Conns, TakeNew(c)
        PROVE  Token(server', held') # 0 \/ CanClaim(server')
    <3>1. CanClaim(server) /\ held' = c /\ server' = [server EXCEPT !.conn[c] = Opening]
      BY <2>4 DEF TakeNew
    <3>2. Only(server, server', c)
      BY <1>0, <3>1, Put, DeinitedIs
    <3> QED
      BY <2>2, <3>1, <3>2
  <2>5. pc' = "join" => Token(server', held') # 0 \/ CanClaim(server')
    BY <2>1, <2>3, <2>4 DEF Control
  <2> QED
    BY <2>5 DEF Token, CanClaim
<1>4. (pc = "wait" => server.settled = <<>>)'
  BY DEF Control, SettleListener
<1>5. (pc = "sweep" => index <= Len(server.open))'
  <2>0. Len(server.open) \in Nat
    BY <1>0, CoreTypes
  <2>1. ASSUME BeginSweep PROVE index' <= Len(server'.open)
    BY <2>0, <2>1 DEF BeginSweep, SweepStart
  <2>2. ASSUME InTime \/ OutOfTime PROVE index' <= Len(server'.open)
    <3>1. pc = "sweep" /\ index > 0 /\ index' = index - 1 /\ index <= Len(server.open)
      BY <1>0, <2>2 DEF InTime, OutOfTime, Sweep, CallInv
    <3>2. index \in DOMAIN server.open
      BY <1>0, <2>0, <3>1, CoreTypes
    <3>3. \/ server' = server \/ server' = DropAt(server, index)
          \/ server' = BeginLingering(server, server.open[index])
      BY <2>2 DEF InTime, OutOfTime, Sweep
    <3>4. Len(DropAt(server, index).open) = Len(server.open) - 1
      BY <1>0, <3>2, DropsAt
    <3>5. BeginLingering(server, server.open[index]).open = server.open
      BY <1>0 DEF BeginLingering, Tables
    <3> QED
      BY <1>0, <2>0, <3>1, <3>3, <3>4, <3>5
  <2> QED
    BY <2>1, <2>2 DEF Control
<1>6. (\A e \in events \ {Listener} : e.token \in DOMAIN server.slotOf)'
  <2>1. \A e \in events' \ {Listener} : e.token \in DOMAIN server.slotOf
    BY <1>0, WatchedMade DEF Control, CallInv, Wait
  <2>2. \A e \in events' \ {Listener} : e.token \in DOMAIN server'.slotOf
    BY <2>1 DEF TablesKept, Grown
  <2> QED
    BY <2>2
<1>7. (\A c \in lent : Phase(server, c) = "Ready")'
  BY DEF PhasesKept, Phase
<1> QED
  BY <1>1, <1>2, <1>3, <1>4, <1>5, <1>6, <1>7 DEF CallInv

\* Every step keeps the types.
LEMMA TypesKept ==
  ASSUME ServerInv, Next, TablesKept, Control
  PROVE  TypeOK'
<1>0. /\ TypeOK /\ Core(server) /\ Core(server') /\ Places(server', lent', held')
      /\ ToSet(server.open) \subseteq Conns
  BY InvIs DEF ServerInv, TablesKept, Sound
<1>1. server' \in Tables /\ Len(server'.slotOf) <= MaxTokens /\ Made(server')
  BY <1>0 DEF Core
<1>2. lent' \subseteq Conns /\ held' \in Conns \union {None}
  BY <1>0 DEF Places
<1>3. events' \subseteq Event
  BY <1>0, WatchedMade DEF Control, Wait, TypeOK
<1>4. late' \subseteq Conns
  BY <1>0 DEF Control, BeginSweep, TypeOK
<1>5. index' \in 0 .. Cardinality(Conns)
  <2>1. /\ Len(server.open) \in 0 .. Cardinality(Conns) /\ Cardinality(Conns) \in Nat
        /\ index \in 0 .. Cardinality(Conns)
    BY <1>0, OpenFits DEF TypeOK
  <2>2. \/ index' = index \/ index' = 0 \/ index' = Len(server.open)
        \/ index > 0 /\ index' = index - 1
    BY DEF Control, BeginSweep, SweepStart, InTime, OutOfTime, Sweep
  <2> QED
    BY <2>1, <2>2
<1>6. secure' \in BOOLEAN /\ listening' \in BOOLEAN /\ back' \in {"turn", "take"}
      /\ pc' \in {"idle", "turn", "settled", "wait", "hear", "take", "join", "body", "sweep"}
  BY <1>0 DEF Control, TypeOK
<1>7. (\A list \in {server.spare, server.retiring, server.settled} :
         \A i \in DOMAIN list : list[i] \in DOMAIN server.slotOf)'
  BY <1>1 DEF Made
<1> QED
  BY <1>1, <1>2, <1>3, <1>4, <1>5, <1>6, <1>7 DEF TypeOK

-----------------------------------------------------------------------------
(* Theorems                                                                *)

\* The server begins as the invariant says.
LEMMA ServerInitially == Init => ServerInv
<1> SUFFICES ASSUME Init PROVE ServerInv
  OBVIOUS
<1>0. MaxTokens \in Nat /\ Cardinality(Conns) \in Nat
  BY BoundsAssumption, ConnsAssumption, FS_CardinalityType
<1>1. PICK z : z = <<>>
  OBVIOUS
<1>2. z \in Seq(Conns) /\ z \in Seq(Nat) /\ Len(z) = 0 /\ DOMAIN z = {}
  BY <1>1
<1> DEFINE f == [c \in Conns |-> Deinited]
<1>3. f \in [Conns -> Exchange] /\ \A c \in Conns : f[c] = Deinited
  BY DeinitedIs
<1> HIDE DEF f
<1>4. server = [conn |-> f, open |-> z, slotOf |-> z, spare |-> z, retiring |-> z,
                settled |-> z]
  BY <1>1 DEF Init, f
<1>5. /\ server \in Tables /\ server.conn = f /\ server.open = z /\ server.slotOf = z
      /\ server.spare = z /\ server.retiring = z /\ server.settled = z
  BY <1>2, <1>3, <1>4 DEF Tables
<1>6. \A c \in Conns : Phase(server, c) = "Closed" /\ Token(server, c) = 0
  BY <1>3, <1>5, DeinitedIs DEF Phase, Token
<1>7. TypeOK
  BY <1>0, <1>2, <1>5 DEF Init, TypeOK
<1>8. ToSet(z) = {} /\ IsInjective(z)
  BY <1>2 DEF ToSet, IsInjective
<1>9. Slots(server) /\ Looked(server) /\ Places(server, lent, held)
  BY <1>2, <1>5, <1>6, <1>8, ConnsAssumption DEF Slots, Looked, Places, Init
<1>10. Tokens(server)
  <2>1. IsInjective(Free(server))
    BY <1>5, <1>8, FreeIs
  <2> QED
    BY <1>6, <2>1 DEF Tokens
<1>11. CallInv
  BY DEF Init, CallInv
<1> QED
  BY <1>7, <1>9, <1>10, <1>11 DEF ServerInv

\* Every step of the server keeps the invariant.
LEMMA ServerStep == ServerInv /\ [Next]_vars => ServerInv'
<1> SUFFICES ASSUME ServerInv, [Next]_vars PROVE ServerInv'
  OBVIOUS
<1>1. CASE Next
  <2>1. TablesKept /\ PhasesKept /\ Control
    BY <1>1, TablesStep, ControlStep
  <2>2. CallInv' /\ TypeOK'
    BY <1>1, <2>1, CallKept, TypesKept
  <2>3. Slots(server') /\ Tokens(server') /\ Places(server', lent', held') /\ Looked(server')
    BY <2>1 DEF TablesKept, Sound, Core
  <2> QED
    BY <2>2, <2>3 DEF ServerInv, Slots, Tokens, Places, Looked, Token, Phase, HasHead, Free
<1>2. CASE UNCHANGED vars
  BY <1>2 DEF vars, call, ServerInv, TypeOK, Slots, Tokens, Places, Looked, CallInv, Token, Phase,
     HasHead, Free, CanClaim
<1> QED
  BY <1>1, <1>2

\* In every state that `first`, `next`, `accept` and the failures of their steps
\* lead to, the tables of the Server agree with its exchanges, whoever waits in
\* them has been parsed, and the call holds what its place says.
THEOREM ServerInvariance == Spec => []ServerInv
  BY ServerInitially, ServerStep, PTL DEF Spec

\* slot_of and open say the same of every connection whatever take_out, restore,
\* retire and claim_token have done, each live connection is in one place, and no
\* token is of two connections or both of one and free.
THEOREM TheTableAgrees == Spec => []TableAgrees
<1>1. ServerInv => TableAgrees
  <2> SUFFICES ASSUME ServerInv PROVE TableAgrees
    OBVIOUS
  <2>1. Slots(server) /\ Tokens(server) /\ Places(server, lent, held)
    BY DEF ServerInv
  <2>2. /\ Live = InTable \union lent \union ({held} \ {None})
        /\ InTable \intersect lent = {} /\ held \notin InTable \union lent
    BY <2>1 DEF Places, Live, InTable
  <2>3. /\ IsInjective(server.spare \o server.retiring)
        /\ \A c \in Tokened : Token(server, c) \notin ToSet(server.spare \o server.retiring)
        /\ \A c, d \in Tokened : Token(server, c) = Token(server, d) => c = d
    BY <2>1 DEF Tokens, Tokened, Free
  <2> QED
    BY <2>1, <2>2, <2>3 DEF TableAgrees, Slots
<1> QED
  BY <1>1, ServerInvariance, PTL

\* wait_for_one goes to the poller only when no connection of the table holds a
\* whole request, parsed or not: restore and hear parse what has been sent ahead
\* and note it, and settled empties the list before every wait.
THEOREM NobodyOverlooked == Spec => []NothingOverlooked
<1>1. ServerInv => NothingOverlooked
  <2> SUFFICES ASSUME ServerInv, pc = "wait", NEW c \in InTable
               PROVE  Phase(server, c) # "Ready" /\ ~HasHead(server, c, "request")
    BY DEF NothingOverlooked
  <2>1. Looked(server) /\ server.settled = <<>>
    BY DEF ServerInv, CallInv
  <2>2. ToSet(server.settled) = {}
    BY <2>1 DEF ToSet
  <2> QED
    BY <2>1, <2>2 DEF Looked, InTable
<1> QED
  BY <1>1, ServerInvariance, PTL

\* The exchange that wait_for_one hands out has a whole request, however old the
\* name is that settled took off the list.
THEOREM HandsOutWhole == Spec => []HandedWhole
<1>1. ServerInv => HandedWhole
  BY DEF ServerInv, CallInv, HandedWhole
<1> QED
  BY <1>1, ServerInvariance, PTL

\* A connection that begin_lingering has begun to close is never back among those
\* that carry a request.
THEOREM LingeringIsTheEnd == Spec => LingeringEnds
<1>1. ServerInv /\ [Next]_vars =>
        [\A c \in Conns :
           Phase(server, c) = "Lingering" => Phase(server', c) \in {"Lingering", "Closed"}]_vars
  BY TablesStep DEF PhasesKept
<1> QED
  BY <1>1, ServerInvariance, PTL DEF Spec, LingeringEnds

=============================================================================
