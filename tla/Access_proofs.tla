---------------------------- MODULE Access_proofs ----------------------------
(***************************************************************************)
(* How long a change of an account can stay without effect, for every      *)
(* number of processes, tickets and sockets and every time to live.        *)
(*                                                                         *)
(* Neither property is inductive: they speak of what is cached, spent or   *)
(* open and not of where it came from.  Chain bounds, for each of the five *)
(* places a decision on the old row can be in, the age of the change plus  *)
(* the time that place has left; each step hands the bound on to the next  *)
(* place.  The cap is a matter of counting sockets against slots taken.    *)
(* What an eviction achieves is a matter of order (Fresh): it empties what *)
(* is cached, and marks what is in flight.                                 *)
(***************************************************************************)
EXTENDS Access, FiniteSetTheorems, TLAPS

Entries == [row : Row, left : 0..CacheTTL, raced : BOOLEAN]
Fills   == [row : Row, took : -1..Prompt, evicted : BOOLEAN]
Sockets == [pc : {"closed", "opening", "open"}, process : Process, ticks : 0..(Prompt + MaxSeconds)]

Typed ==
    /\ row \in Row
    /\ age \in 0..(Horizon + 1)
    /\ cached \in [Process -> Entries]
    /\ fill \in [Process -> Fills]
    /\ ticket \in [Ticket -> 0..TicketTTL]
    /\ socket \in [Socket -> Sockets]

\* A sign-in in flight has missed only what came after its start.
FillsAge == \A p \in Process : Filling(p) /\ fill[p].row # row => age <= fill[p].took

\* A cached one takes no longer than the sign-in and its time to live.
EntriesAge ==
    \A p \in Process : Cached(p) /\ cached[p].row # row => age + cached[p].left <= CacheHorizon

\* Tickets, openings and sockets of a suspended user date from such an entry.
TicketsAge ==
    \A t \in Ticket : row = "suspended" /\ ticket[t] > 0 => age + ticket[t] <= TicketHorizon

SocketsAge ==
    \A s \in Socket :
        /\ socket[s].pc = "opening" => /\ socket[s].ticks <= Prompt
                                       /\ row = "suspended" => age <= TicketHorizon + socket[s].ticks
        /\ socket[s].pc = "open" => /\ socket[s].ticks <= MaxSeconds
                                    /\ row = "suspended" => age + socket[s].ticks <= Horizon

Chain == Typed /\ FillsAge /\ EntriesAge /\ TicketsAge /\ SocketsAge

-----------------------------------------------------------------------------
\* The horizons are sums of the times to live.
LEMMA HorizonsAreSums ==
  /\ CacheHorizon \in Nat /\ CacheHorizon = Prompt + CacheTTL
  /\ TicketHorizon \in Nat /\ TicketHorizon = CacheHorizon + TicketTTL
  /\ Horizon \in Nat /\ Horizon = TicketHorizon + Prompt + MaxSeconds
  /\ {CacheTTL, TicketTTL, MaxSeconds} \subseteq Nat \ {0} /\ Prompt \in Nat
  BY AccessAssumption DEF CacheHorizon, TicketHorizon, OpenHorizon, Horizon

\* The values that stand for nothing.
LEMMA NothingIsTyped ==
  /\ NoEntry \in Entries /\ NoEntry.left = 0
  /\ NoFill \in Fills /\ NoFill.took = -1
  /\ NoSocket \in Sockets /\ NoSocket.pc = "closed"
  BY HorizonsAreSums, AccessAssumption DEF NoEntry, NoFill, NoSocket, Entries, Fills, Sockets, Row

LEMMA InitChain == AccessInit => Chain
  <1> SUFFICES ASSUME AccessInit PROVE Chain
    OBVIOUS
  <1>1. Typed
    BY NothingIsTyped, HorizonsAreSums DEF AccessInit, Typed, Row
  <1>2. FillsAge /\ EntriesAge
    BY NothingIsTyped DEF AccessInit, FillsAge, EntriesAge, Filling, Cached
  <1>3. TicketsAge /\ SocketsAge
    BY NothingIsTyped DEF AccessInit, TicketsAge, SocketsAge
  <1> QED
    BY <1>1, <1>2, <1>3 DEF Chain

-----------------------------------------------------------------------------
(* One lemma per action.                                                   *)

\* The clock of the change starts again; everything is younger than its life.
LEMMA ChangeChain == ASSUME NEW new \in Row PROVE Chain /\ Change(new) => Chain'
  <1> SUFFICES ASSUME Chain, Change(new) PROVE Chain'
    OBVIOUS
  <1> USE HorizonsAreSums
  <1>1. age' = 0 /\ row' = new /\ UNCHANGED <<cached, fill, ticket, socket>>
    BY DEF Change, wsVars
  <1>2. Typed'
    BY <1>1 DEF Chain, Typed
  <1>3. FillsAge'
    BY <1>1 DEF FillsAge, Filling, Chain, Typed, Fills
  <1>4. EntriesAge'
    <2> SUFFICES ASSUME NEW p \in Process PROVE 0 + cached[p].left <= CacheHorizon
      BY <1>1 DEF EntriesAge, Cached
    <2>1. cached[p].left \in 0..CacheTTL
      BY DEF Chain, Typed, Entries
    <2> QED
      BY <2>1
  <1>5. TicketsAge'
    BY <1>1 DEF TicketsAge, Chain, Typed
  <1>6. SocketsAge'
    <2> SUFFICES ASSUME NEW s \in Socket
                 PROVE  /\ socket[s].pc = "opening" => socket[s].ticks <= Prompt /\ 0 <= TicketHorizon + socket[s].ticks
                        /\ socket[s].pc = "open" => socket[s].ticks <= MaxSeconds /\ 0 + socket[s].ticks <= Horizon
      BY <1>1 DEF SocketsAge
    <2>1. socket[s].ticks \in 0..(Prompt + MaxSeconds)
      BY DEF Chain, Typed, Sockets
    <2> QED
      BY <2>1 DEF Chain, SocketsAge
  <1> QED
    BY <1>2, <1>3, <1>4, <1>5, <1>6 DEF Chain

\* Steps of the cache keep what the web sockets are about, if nothing cached is
\* older than it says.
LEMMA CacheSteps ==
  ASSUME Chain, UNCHANGED <<row, age, ticket, socket>>,
         cached' \in [Process -> Entries], fill' \in [Process -> Fills], FillsAge', EntriesAge'
  PROVE  Chain'
  BY DEF Chain, Typed, TicketsAge, SocketsAge

LEMMA EvictChain == ASSUME NEW p \in Process PROVE Chain /\ Evict(p) => Chain'
  <1> SUFFICES ASSUME Chain, Evict(p) PROVE Chain'
    OBVIOUS
  <1>1. UNCHANGED <<row, age, ticket, socket>>
    BY DEF Evict, wsVars
  <1>2. /\ cached' \in [Process -> Entries]
        /\ cached'[p].left = 0
        /\ \A q \in Process \ {p} : cached'[q] = cached[q]
    BY NothingIsTyped DEF Chain, Typed, Evict
  <1>3. /\ fill' \in [Process -> Fills]
        /\ \A q \in Process : fill'[q].row = fill[q].row /\ fill'[q].took = fill[q].took
    <2>1. PICK b \in BOOLEAN : fill' = [fill EXCEPT ![p] = [@ EXCEPT !.evicted = b]]
      <3>1. Filling(p) \in BOOLEAN
        BY DEF Filling
      <3> QED
        BY <3>1 DEF Evict
    <2>2. fill \in [Process -> Fills]
      BY DEF Chain, Typed
    <2> QED
      BY <2>1, <2>2 DEF Fills
  <1>4. FillsAge'
    BY <1>1, <1>3 DEF Chain, FillsAge, Filling
  <1>5. EntriesAge'
    BY <1>1, <1>2 DEF Chain, EntriesAge, Cached
  <1> QED
    BY <1>1, <1>2, <1>3, <1>4, <1>5, CacheSteps

LEMMA ReadRowChain == ASSUME NEW p \in Process PROVE Chain /\ ReadRow(p) => Chain'
  <1> SUFFICES ASSUME Chain, ReadRow(p) PROVE Chain'
    OBVIOUS
  <1>1. UNCHANGED <<row, age, cached, ticket, socket>>
    BY DEF ReadRow, wsVars
  <1>2. /\ fill' \in [Process -> Fills]
        /\ fill'[p].row = row
        /\ \A q \in Process \ {p} : fill'[q] = fill[q]
    BY HorizonsAreSums DEF Chain, Typed, ReadRow, Fills
  <1>3. FillsAge'
    BY <1>1, <1>2 DEF Chain, FillsAge, Filling
  <1>4. EntriesAge' /\ cached' \in [Process -> Entries]
    BY <1>1 DEF Chain, Typed, EntriesAge, Cached
  <1> QED
    BY <1>1, <1>2, <1>3, <1>4, CacheSteps

\* The age a sign-in vouches for goes into the entry it makes.
LEMMA CacheChain == ASSUME NEW p \in Process PROVE Chain /\ Cache(p) => Chain'
  <1> SUFFICES ASSUME Chain, Cache(p) PROVE Chain'
    OBVIOUS
  <1> USE HorizonsAreSums
  <1>1. UNCHANGED <<row, age, ticket, socket>> /\ Filling(p)
    BY DEF Cache, wsVars
  <1>2. /\ fill[p].row \in Row /\ fill[p].took \in -1..Prompt /\ fill[p].evicted \in BOOLEAN
        /\ age \in Nat
    BY DEF Chain, Typed, Fills
  <1>3. /\ cached' \in [Process -> Entries]
        /\ cached'[p].row = fill[p].row /\ cached'[p].left = CacheTTL
        /\ \A q \in Process \ {p} : cached'[q] = cached[q]
    BY <1>2 DEF Chain, Typed, Cache, Entries
  <1>4. /\ fill' \in [Process -> Fills]
        /\ fill'[p].took = -1
        /\ \A q \in Process \ {p} : fill'[q] = fill[q]
    BY NothingIsTyped DEF Chain, Typed, Cache
  <1>5. FillsAge'
    BY <1>1, <1>4 DEF Chain, FillsAge, Filling
  <1>6. fill[p].row # row => age + CacheTTL <= CacheHorizon
    BY <1>1, <1>2 DEF Chain, FillsAge
  <1>7. EntriesAge'
    BY <1>1, <1>3, <1>6 DEF Chain, EntriesAge, Cached
  <1> QED
    BY <1>1, <1>3, <1>4, <1>5, <1>7, CacheSteps

\* What a process admits of a suspended user it admits from an old entry.
LEMMA AdmittedIsOld ==
  ASSUME Chain, NEW p \in Process, Admits(p), row = "suspended"
  PROVE  age + cached[p].left <= CacheHorizon /\ cached[p].left \in 1..CacheTTL
  BY HorizonsAreSums DEF Chain, Typed, EntriesAge, Admits, Cached, Entries

\* Steps of the web sockets leave the cache alone.
LEMMA SocketSteps ==
  ASSUME Chain, UNCHANGED <<row, age, cached, fill>>,
         ticket' \in [Ticket -> 0..TicketTTL], socket' \in [Socket -> Sockets],
         TicketsAge', SocketsAge'
  PROVE  Chain'
  BY DEF Chain, Typed, FillsAge, EntriesAge, Filling, Cached

LEMMA IssueChain ==
  ASSUME NEW p \in Process, NEW t \in Ticket PROVE Chain /\ Issue(p, t) => Chain'
  <1> SUFFICES ASSUME Chain, Issue(p, t) PROVE Chain'
    OBVIOUS
  <1> USE HorizonsAreSums
  <1>1. UNCHANGED <<row, age, cached, fill, socket>> /\ Admits(p) /\ age \in Nat
    BY DEF Issue, cacheVars, Chain, Typed
  <1>2. /\ ticket' \in [Ticket -> 0..TicketTTL]
        /\ ticket'[t] = TicketTTL
        /\ \A u \in Ticket \ {t} : ticket'[u] = ticket[u]
    BY DEF Chain, Typed, Issue
  <1>3. row = "suspended" => age + TicketTTL <= TicketHorizon
    BY <1>1, AdmittedIsOld
  <1>4. TicketsAge'
    BY <1>1, <1>2, <1>3 DEF Chain, TicketsAge
  <1>5. SocketsAge' /\ socket' \in [Socket -> Sockets]
    BY <1>1 DEF Chain, Typed, SocketsAge
  <1> QED
    BY <1>1, <1>2, <1>4, <1>5, SocketSteps

LEMMA AuthenticateChain ==
  ASSUME NEW s \in Socket, NEW p \in Process PROVE Chain /\ Authenticate(s, p) => Chain'
  <1> SUFFICES ASSUME Chain, Authenticate(s, p) PROVE Chain'
    OBVIOUS
  <1> USE HorizonsAreSums
  <1>1. UNCHANGED <<row, age, cached, fill>> /\ age \in Nat
    BY DEF Authenticate, cacheVars, Chain, Typed
  <1>2. /\ socket' \in [Socket -> Sockets]
        /\ socket'[s].pc = "opening" /\ socket'[s].ticks = 0
        /\ \A r \in Socket \ {s} : socket'[r] = socket[r]
    BY DEF Chain, Typed, Authenticate, Sockets
  <1>3. /\ ticket' \in [Ticket -> 0..TicketTTL]
        /\ \A t \in Ticket : ticket'[t] = ticket[t] \/ ticket'[t] = 0
        /\ (\E t \in Ticket : ticket[t] > 0) \/ Admits(p)
    BY DEF Chain, Typed, Authenticate
  <1>4. row = "suspended" => age <= TicketHorizon
    <2>1. ASSUME NEW t \in Ticket, ticket[t] > 0, row = "suspended" PROVE age <= TicketHorizon
      BY <1>1, <2>1 DEF Chain, Typed, TicketsAge
    <2>2. ASSUME Admits(p), row = "suspended" PROVE age <= TicketHorizon
      BY <1>1, <2>2, AdmittedIsOld
    <2> QED
      BY <1>3, <2>1, <2>2
  <1>5. TicketsAge'
    BY <1>1, <1>3 DEF Chain, TicketsAge
  <1>6. SocketsAge'
    BY <1>1, <1>2, <1>4 DEF Chain, SocketsAge
  <1> QED
    BY <1>1, <1>2, <1>3, <1>5, <1>6, SocketSteps

\* A socket that is closed says nothing.
LEMMA ClosingChain ==
  ASSUME NEW s \in Socket, Chain, UNCHANGED <<row, age, cached, fill, ticket>>,
         socket' = [socket EXCEPT ![s] = NoSocket]
  PROVE  Chain'
  <1>1. /\ socket' \in [Socket -> Sockets]
        /\ socket'[s].pc = "closed"
        /\ \A r \in Socket \ {s} : socket'[r] = socket[r]
    BY NothingIsTyped DEF Chain, Typed
  <1>2. SocketsAge'
    BY <1>1 DEF Chain, SocketsAge
  <1>3. TicketsAge' /\ ticket' \in [Ticket -> 0..TicketTTL]
    BY DEF Chain, Typed, TicketsAge
  <1> QED
    BY <1>1, <1>2, <1>3, SocketSteps

LEMMA OpenChain == ASSUME NEW s \in Socket PROVE Chain /\ Open(s) => Chain'
  <1> SUFFICES ASSUME Chain, Open(s) PROVE Chain'
    OBVIOUS
  <1> USE HorizonsAreSums
  <1>1. UNCHANGED <<row, age, cached, fill, ticket>> /\ socket[s].pc = "opening" /\ age \in Nat
    BY DEF Open, cacheVars, Chain, Typed
  <1>2. CASE socket' = [socket EXCEPT ![s] = NoSocket]
    BY <1>1, <1>2, ClosingChain
  <1>3. CASE socket' = [socket EXCEPT ![s] = [@ EXCEPT !.pc = "open", !.ticks = MaxSeconds]]
    <2>1. /\ socket' \in [Socket -> Sockets]
          /\ socket'[s].pc = "open" /\ socket'[s].ticks = MaxSeconds
          /\ \A r \in Socket \ {s} : socket'[r] = socket[r]
      <3> DEFINE up == [socket[s] EXCEPT !.pc = "open", !.ticks = MaxSeconds]
      <3>1. socket \in [Socket -> Sockets] /\ MaxSeconds \in 0..(Prompt + MaxSeconds)
        BY DEF Chain, Typed
      <3>2. up \in Sockets /\ up.pc = "open" /\ up.ticks = MaxSeconds
        BY <3>1 DEF Sockets
      <3>3. socket' = [socket EXCEPT ![s] = up]
        BY <1>3
      <3> HIDE DEF up
      <3> QED
        BY <3>1, <3>2, <3>3
    <2>2. socket[s].ticks \in 0..Prompt
      BY <1>1 DEF Chain, Typed, SocketsAge, Sockets
    <2>3. row = "suspended" => age + MaxSeconds <= Horizon
      BY <1>1, <2>2 DEF Chain, SocketsAge
    <2>4. SocketsAge'
      BY <1>1, <2>1, <2>3 DEF Chain, SocketsAge
    <2>5. TicketsAge' /\ ticket' \in [Ticket -> 0..TicketTTL]
      BY <1>1 DEF Chain, Typed, TicketsAge
    <2> QED
      BY <1>1, <2>1, <2>4, <2>5, SocketSteps
  <1> QED
    BY <1>2, <1>3 DEF Open

\* Time passes for the change and for everything in the chain alike.
LEMMA TickChain == Chain /\ Tick => Chain'
  <1> SUFFICES ASSUME Chain, Tick PROVE Chain'
    OBVIOUS
  <1> USE HorizonsAreSums
  <1>1. row' = row /\ age \in Nat /\ age' \in 0..(Horizon + 1) /\ age' <= age + 1
    BY DEF Tick, Chain, Typed
  <1>2. ASSUME NEW p \in Process
        PROVE  /\ cached'[p] \in Entries
               /\ Cached(p)' => cached'[p].row = cached[p].row /\ cached'[p].left = cached[p].left - 1
    BY NothingIsTyped DEF Tick, Chain, Typed, Entries, Cached
  <1>3. ASSUME NEW p \in Process
        PROVE  /\ fill'[p] \in Fills /\ fill[p].took \in -1..Prompt
               /\ fill'[p].row = fill[p].row
               /\ Filling(p)' => Filling(p) /\ fill'[p].took = fill[p].took + 1
    <2>1. fill[p] \in Fills /\ fill[p].took < Prompt
      BY DEF Tick, MayTick, Chain, Typed
    <2>2. fill'[p] = IF Filling(p) THEN [fill[p] EXCEPT !.took = @ + 1] ELSE fill[p]
      BY DEF Tick
    <2> QED
      BY <2>1, <2>2 DEF Fills, Filling
  <1>4. ASSUME NEW s \in Socket
        PROVE  /\ socket'[s] \in Sockets /\ socket[s].ticks \in 0..(Prompt + MaxSeconds)
               /\ socket'[s].pc = socket[s].pc
               /\ socket[s].pc = "opening" => socket'[s].ticks = socket[s].ticks + 1 /\ socket[s].ticks < Prompt
               /\ socket[s].pc = "open" => socket'[s].ticks = socket[s].ticks - 1
    <2>1. /\ socket[s] \in Sockets
          /\ socket[s].pc = "opening" => socket[s].ticks < Prompt
          /\ socket[s].pc = "open" => socket[s].ticks > 0
      BY DEF Tick, MayTick, Chain, Typed
    <2>2. CASE socket[s].pc = "opening"
      <3>1. socket'[s] = [socket[s] EXCEPT !.ticks = @ + 1]
        BY <2>2 DEF Tick
      <3> QED
        BY <2>1, <2>2, <3>1 DEF Sockets
    <2>3. CASE socket[s].pc = "open"
      <3>1. socket'[s] = [socket[s] EXCEPT !.ticks = @ - 1]
        BY <2>3 DEF Tick
      <3> QED
        BY <2>1, <2>3, <3>1 DEF Sockets
    <2>4. CASE socket[s].pc = "closed"
      <3>1. socket'[s] = socket[s]
        BY <2>4 DEF Tick
      <3> QED
        BY <2>1, <2>4, <3>1 DEF Sockets
    <2> QED
      BY <2>1, <2>2, <2>3, <2>4 DEF Sockets
  <1>5. ASSUME NEW t \in Ticket
        PROVE  ticket'[t] \in 0..TicketTTL /\ (ticket'[t] > 0 => ticket'[t] = ticket[t] - 1 /\ ticket[t] > 0)
    <2>1. ticket[t] \in 0..TicketTTL /\ ticket'[t] = Less(ticket[t])
      BY DEF Tick, Chain, Typed
    <2> QED
      BY <2>1 DEF Less
  <1>6. Typed'
    <2>1. /\ cached' = [p \in Process |-> cached'[p]] /\ fill' = [p \in Process |-> fill'[p]]
          /\ socket' = [s \in Socket |-> socket'[s]] /\ ticket' = [t \in Ticket |-> ticket'[t]]
      BY DEF Tick
    <2>2. cached' \in [Process -> Entries] /\ fill' \in [Process -> Fills]
      BY <1>2, <1>3, <2>1
    <2>3. socket' \in [Socket -> Sockets] /\ ticket' \in [Ticket -> 0..TicketTTL]
      BY <1>4, <1>5, <2>1
    <2> QED
      BY <1>1, <2>2, <2>3 DEF Chain, Typed
  <1>7. FillsAge'
    BY <1>1, <1>3 DEF Chain, FillsAge
  <1>8. EntriesAge'
    <2> SUFFICES ASSUME NEW p \in Process, Cached(p)', (cached[p].row # row)'
                 PROVE  age' + cached'[p].left <= CacheHorizon
      BY DEF EntriesAge
    <2>1. /\ cached[p].left \in 0..CacheTTL /\ cached'[p].left = cached[p].left - 1
          /\ cached'[p].left > 0 /\ cached[p].row # row
      BY <1>1, <1>2 DEF Cached, Chain, Typed, Entries
    <2>2. age + cached[p].left <= CacheHorizon
      BY <2>1 DEF Chain, EntriesAge, Cached
    <2> QED
      BY <1>1, <2>1, <2>2
  <1>9. TicketsAge'
    <2> SUFFICES ASSUME NEW t \in Ticket, row = "suspended", ticket'[t] > 0
                 PROVE  age' + ticket'[t] <= TicketHorizon
      BY <1>1 DEF TicketsAge
    <2>1. ticket[t] \in 0..TicketTTL /\ ticket'[t] = ticket[t] - 1 /\ ticket[t] > 0
      BY <1>5 DEF Chain, Typed
    <2> QED
      BY <1>1, <2>1 DEF Chain, TicketsAge
  <1>10. SocketsAge'
    <2> SUFFICES ASSUME NEW s \in Socket
                 PROVE  /\ socket'[s].pc = "opening" =>
                             /\ socket'[s].ticks <= Prompt
                             /\ row = "suspended" => age' <= TicketHorizon + socket'[s].ticks
                        /\ socket'[s].pc = "open" =>
                             /\ socket'[s].ticks <= MaxSeconds
                             /\ row = "suspended" => age' + socket'[s].ticks <= Horizon
      BY <1>1 DEF SocketsAge
    <2> QED
      BY <1>1, <1>4 DEF Chain, SocketsAge
  <1> QED
    BY <1>6, <1>7, <1>8, <1>9, <1>10 DEF Chain

-----------------------------------------------------------------------------
\* Every step of the specification keeps the chain.
LEMMA NextChain == Chain /\ [AccessNext]_accessVars => Chain'
  <1> SUFFICES ASSUME Chain, [AccessNext]_accessVars PROVE Chain'
    OBVIOUS
  <1>1. ASSUME NEW new \in Row, Change(new) PROVE Chain'
    BY <1>1, ChangeChain
  <1>2. ASSUME NEW p \in Process, Evict(p) \/ ReadRow(p) \/ Cache(p) PROVE Chain'
    BY <1>2, EvictChain, ReadRowChain, CacheChain
  <1>3. ASSUME NEW p \in Process, EvictionLost(p) PROVE Chain'
    BY <1>3 DEF EvictionLost, wsVars, Chain, Typed, FillsAge, EntriesAge, TicketsAge, SocketsAge,
                Filling, Cached
  <1>4. ASSUME NEW p \in Process, NEW t \in Ticket, Issue(p, t) PROVE Chain'
    BY <1>4, IssueChain
  <1>5. ASSUME NEW s \in Socket, NEW p \in Process, Authenticate(s, p) PROVE Chain'
    BY <1>5, AuthenticateChain
  <1>6. ASSUME NEW s \in Socket, Open(s) PROVE Chain'
    BY <1>6, OpenChain
  <1>7. ASSUME NEW s \in Socket, Refuse(s) \/ Close(s) \/ SubscribeFails(s) PROVE Chain'
    BY <1>7, ClosingChain DEF Refuse, Close, SubscribeFails, cacheVars
  <1>8. ASSUME Tick PROVE Chain'
    BY <1>8, TickChain
  <1>9. ASSUME UNCHANGED accessVars PROVE Chain'
    BY <1>9 DEF accessVars, cacheVars, wsVars, Chain, Typed, FillsAge, EntriesAge, TicketsAge,
                SocketsAge, Filling, Cached
  <1> QED
    BY <1>1, <1>2, <1>3, <1>4, <1>5, <1>6, <1>7, <1>8, <1>9 DEF AccessNext

LEMMA ChainHolds == AccessSpec => []Chain
  BY InitChain, NextChain, PTL DEF AccessSpec

-----------------------------------------------------------------------------
\* No process decides on a row that changed more than a sign-in and the cache's
\* time to live ago, whether or not the eviction reached it (auth.py, HIGH-01).
THEOREM StaleSignInsExpire == AccessSpec => []StaleIsBounded
  <1>1. Chain => StaleIsBounded
    BY HorizonsAreSums DEF Chain, Typed, EntriesAge, Entries, Cached, StaleIsBounded
  <1> QED
    BY <1>1, ChainHolds, PTL

\* A suspended user's last ticket and last socket end by the two horizons
\* (deployments.py, _ws_user and _keepalive).
THEOREM SuspensionTakesHold == AccessSpec => []SignedOutAtLast
  <1>1. Chain => SignedOutAtLast
    BY HorizonsAreSums DEF Chain, Typed, TicketsAge, SocketsAge, Sockets, SignedOutAtLast
  <1> QED
    BY <1>1, ChainHolds, PTL
-----------------------------------------------------------------------------
(* The cap on sockets.                                                     *)

Slots ==
    /\ socket \in [Socket -> Sockets]
    /\ taken \in [Process -> Nat]
    /\ CapHolds

\* The sockets in use are finitely many.
LEMMA InUseIsFinite ==
  ASSUME NEW p \in Process
  PROVE  IsFiniteSet(InUse(p)) /\ Cardinality(InUse(p)) \in Nat
  <1>1. InUse(p) \subseteq Socket /\ IsFiniteSet(Socket)
    BY AccessAssumption DEF InUse
  <1> QED
    BY <1>1, FS_Subset, FS_CardinalityType

\* Steps that open and close nothing.
LEMMA SlotsStay ==
  ASSUME Slots, UNCHANGED taken, socket' \in [Socket -> Sockets],
         \A s \in Socket : socket'[s].pc = "open" <=> socket[s].pc = "open",
         \A s \in Socket : socket'[s].pc = "open" => socket'[s].process = socket[s].process
  PROVE  Slots'
  <1>1. ASSUME NEW p \in Process PROVE InUse(p)' = InUse(p)
    BY DEF InUse
  <1> QED
    BY <1>1 DEF Slots, CapHolds

\* A socket in use that goes: one less, where it was.
LEMMA InUseWithout ==
  ASSUME Slots, NEW s \in Socket, socket[s].pc = "open", socket' = [socket EXCEPT ![s] = NoSocket],
         NEW p \in Process
  PROVE  /\ p = socket[s].process => Cardinality(InUse(p)') = Cardinality(InUse(p)) - 1
                                     /\ Cardinality(InUse(p)) >= 1
         /\ p # socket[s].process => InUse(p)' = InUse(p)
  <1>1. /\ socket'[s].pc = "closed"
        /\ \A r \in Socket \ {s} : socket'[r] = socket[r]
    BY NothingIsTyped DEF Slots
  <1>2. ASSUME p = socket[s].process
        PROVE  Cardinality(InUse(p)') = Cardinality(InUse(p)) - 1 /\ Cardinality(InUse(p)) >= 1
    <2>1. InUse(p)' = InUse(p) \ {s} /\ s \in InUse(p)
      BY <1>1, <1>2 DEF InUse
    <2>2. InUse(p) # {} /\ IsFiniteSet(InUse(p)) /\ Cardinality(InUse(p)) \in Nat
      BY <2>1, InUseIsFinite
    <2>3. Cardinality(InUse(p)) # 0
      BY <2>2, FS_EmptySet
    <2>4. Cardinality(InUse(p) \ {s}) = Cardinality(InUse(p)) - 1
      BY <2>1, <2>2, FS_RemoveElement
    <2> QED
      BY <2>1, <2>2, <2>3, <2>4
  <1>3. ASSUME p # socket[s].process PROVE InUse(p)' = InUse(p)
    BY <1>1, <1>3 DEF InUse
  <1> QED
    BY <1>2, <1>3

\* Closing gives one slot back for one socket.
LEMMA CloseSlots == ASSUME NEW s \in Socket PROVE Slots /\ Close(s) => Slots'
  <1> SUFFICES ASSUME Slots, Close(s) PROVE Slots'
    OBVIOUS
  <1>1. /\ socket[s].pc = "open" /\ socket' = [socket EXCEPT ![s] = NoSocket]
        /\ socket[s].process \in Process
        /\ taken' = [taken EXCEPT ![socket[s].process] = @ - 1]
    BY DEF Close, Slots, Sockets
  <1>2. socket' \in [Socket -> Sockets]
    BY <1>1, NothingIsTyped DEF Slots
  <1>3. ASSUME NEW p \in Process
        PROVE  /\ taken'[p] \in Nat
               /\ Cardinality(InUse(p)') <= taken'[p] /\ taken'[p] <= MaxPerUser
    <2>1. /\ Cardinality(InUse(p)) \in Nat /\ taken[p] \in Nat /\ MaxPerUser \in Nat
          /\ Cardinality(InUse(p)) <= taken[p] /\ taken[p] <= MaxPerUser
      BY InUseIsFinite, AccessAssumption DEF Slots, CapHolds
    <2>2. CASE p = socket[s].process
      <3>1. taken'[p] = taken[p] - 1
        BY <1>1, <2>2 DEF Slots
      <3>2. Cardinality(InUse(p)') = Cardinality(InUse(p)) - 1 /\ Cardinality(InUse(p)) >= 1
        BY <1>1, <2>2, InUseWithout
      <3> QED
        BY <2>1, <3>1, <3>2
    <2>3. CASE p # socket[s].process
      BY <1>1, <2>1, <2>3, InUseWithout DEF Slots
    <2> QED
      BY <2>2, <2>3
  <1>4. taken' \in [Process -> Nat]
    <2>1. taken' = [p \in Process |-> taken'[p]]
      BY <1>1 DEF Slots
    <2> QED
      BY <1>3, <2>1
  <1> QED
    BY <1>2, <1>3, <1>4 DEF Slots, CapHolds

\* A slot that is never given back leaves more taken than in use.
LEMMA SubscribeFailsSlots == ASSUME NEW s \in Socket PROVE Slots /\ SubscribeFails(s) => Slots'
  <1> SUFFICES ASSUME Slots, SubscribeFails(s) PROVE Slots'
    OBVIOUS
  <1>1. /\ socket[s].pc = "open" /\ socket' = [socket EXCEPT ![s] = NoSocket]
        /\ UNCHANGED taken
    BY DEF SubscribeFails
  <1>2. socket' \in [Socket -> Sockets]
    BY <1>1, NothingIsTyped DEF Slots
  <1>3. ASSUME NEW p \in Process PROVE Cardinality(InUse(p)') <= taken'[p]
    <2>1. /\ Cardinality(InUse(p)) \in Nat /\ taken[p] \in Nat
          /\ Cardinality(InUse(p)) <= taken[p]
      BY InUseIsFinite DEF Slots, CapHolds
    <2>2. CASE p = socket[s].process
      <3>1. Cardinality(InUse(p)') = Cardinality(InUse(p)) - 1
        BY <1>1, <2>2, InUseWithout
      <3> QED
        BY <1>1, <2>1, <3>1
    <2>3. CASE p # socket[s].process
      BY <1>1, <2>1, <2>3, InUseWithout
    <2> QED
      BY <2>2, <2>3
  <1> QED
    BY <1>1, <1>2, <1>3 DEF Slots, CapHolds

\* Opening looks at the slots and takes one in the same step.
LEMMA OpenSlots == ASSUME NEW s \in Socket PROVE Slots /\ Open(s) => Slots'
  <1> SUFFICES ASSUME Slots, Open(s) PROVE Slots'
    OBVIOUS
  <1> DEFINE p == socket[s].process
  <1>1. socket[s].pc = "opening" /\ p \in Process /\ socket[s] \in Sockets
    BY DEF Open, Slots, Sockets
  <1>2. CASE ~ taken[p] < MaxPerUser
    <2>1. socket' = [socket EXCEPT ![s] = NoSocket] /\ UNCHANGED taken
      BY <1>2 DEF Open
    <2>2. /\ socket' \in [Socket -> Sockets] /\ socket'[s].pc = "closed"
          /\ \A r \in Socket \ {s} : socket'[r] = socket[r]
      BY <2>1, NothingIsTyped DEF Slots
    <2> QED
      BY <1>1, <2>1, <2>2, SlotsStay
  <1>3. CASE taken[p] < MaxPerUser
    <2> DEFINE up == [socket[s] EXCEPT !.pc = "open", !.ticks = MaxSeconds]
    <2>1. up \in Sockets /\ up.pc = "open" /\ up.process = p
      <3>1. MaxSeconds \in 0..(Prompt + MaxSeconds)
        BY HorizonsAreSums
      <3> QED
        BY <1>1, <3>1 DEF Sockets
    <2>2. socket' = [socket EXCEPT ![s] = up] /\ taken' = [taken EXCEPT ![p] = @ + 1]
      BY <1>3 DEF Open
    <2> HIDE DEF up
    <2>3. /\ socket' \in [Socket -> Sockets] /\ socket'[s].pc = "open" /\ socket'[s].process = p
          /\ \A r \in Socket \ {s} : socket'[r] = socket[r]
      BY <2>1, <2>2 DEF Slots
    <2>4. ASSUME NEW q \in Process
          PROVE  /\ taken'[q] \in Nat
                 /\ Cardinality(InUse(q)') <= taken'[q] /\ taken'[q] <= MaxPerUser
      <3>1. /\ IsFiniteSet(InUse(q)) /\ Cardinality(InUse(q)) \in Nat
            /\ taken[q] \in Nat /\ MaxPerUser \in Nat
            /\ Cardinality(InUse(q)) <= taken[q] /\ taken[q] <= MaxPerUser
        BY InUseIsFinite, AccessAssumption DEF Slots, CapHolds
      <3>2. CASE q = p
        <4>1. InUse(q)' = InUse(q) \cup {s} /\ s \notin InUse(q)
          BY <1>1, <2>3, <3>2 DEF InUse
        <4>2. Cardinality(InUse(q) \cup {s}) = Cardinality(InUse(q)) + 1
          BY <3>1, <4>1, FS_AddElement
        <4>3. taken'[q] = taken[q] + 1
          BY <2>2, <3>2 DEF Slots
        <4> QED
          BY <1>3, <3>1, <3>2, <4>1, <4>2, <4>3
      <3>3. CASE q # p
        <4>1. InUse(q)' = InUse(q)
          BY <1>1, <2>3, <3>3 DEF InUse
        <4>2. taken'[q] = taken[q]
          BY <2>2, <3>3 DEF Slots
        <4> QED
          BY <3>1, <4>1, <4>2
      <3> QED
        BY <3>2, <3>3
    <2>5. taken' \in [Process -> Nat]
      <3>1. taken' = [q \in Process |-> taken'[q]]
        BY <2>2 DEF Slots
      <3> QED
        BY <2>4, <3>1
    <2> QED
      BY <2>3, <2>4, <2>5 DEF Slots, CapHolds
  <1> QED
    BY <1>2, <1>3

\* Time and messages that arrive open and close nothing.
LEMMA TickSlots == Chain /\ Chain' /\ Slots /\ Tick => Slots'
  <1> SUFFICES ASSUME Chain, Chain', Slots, Tick PROVE Slots'
    OBVIOUS
  <1>1. UNCHANGED taken /\ socket' \in [Socket -> Sockets]
    BY DEF Tick, Chain, Typed
  <1>2. ASSUME NEW s \in Socket
        PROVE  socket'[s].pc = socket[s].pc /\ socket'[s].process = socket[s].process
    <2>1. socket[s] \in Sockets
      BY DEF Slots
    <2>2. \/ socket'[s] = [socket[s] EXCEPT !.ticks = @ + 1]
          \/ socket'[s] = [socket[s] EXCEPT !.ticks = @ - 1]
          \/ socket'[s] = socket[s]
      BY DEF Tick
    <2> QED
      BY <2>1, <2>2 DEF Sockets
  <1> QED
    BY <1>1, <1>2, SlotsStay

LEMMA NextSlots == Chain /\ Chain' /\ Slots /\ [AccessNext]_accessVars => Slots'
  <1> SUFFICES ASSUME Chain, Chain', Slots, [AccessNext]_accessVars PROVE Slots'
    OBVIOUS
  <1>1. ASSUME UNCHANGED <<socket, taken>> PROVE Slots'
    BY <1>1, SlotsStay DEF Slots
  <1>2. ASSUME NEW new \in Row, Change(new) PROVE Slots'
    BY <1>1, <1>2 DEF Change, wsVars
  <1>3. ASSUME NEW p \in Process, Evict(p) \/ EvictionLost(p) \/ ReadRow(p) \/ Cache(p)
        PROVE  Slots'
    BY <1>1, <1>3 DEF Evict, EvictionLost, ReadRow, Cache, wsVars
  <1>4. ASSUME NEW p \in Process, NEW t \in Ticket, Issue(p, t) PROVE Slots'
    BY <1>1, <1>4 DEF Issue
  <1>5. ASSUME NEW s \in Socket, NEW p \in Process, Authenticate(s, p) PROVE Slots'
    <2>1. /\ socket' \in [Socket -> Sockets] /\ UNCHANGED taken
          /\ socket[s].pc = "closed" /\ socket'[s].pc = "opening"
          /\ \A r \in Socket \ {s} : socket'[r] = socket[r]
      BY <1>5 DEF Authenticate, Slots, Chain, Typed
    <2> QED
      BY <2>1, SlotsStay
  <1>6. ASSUME NEW s \in Socket, Refuse(s) PROVE Slots'
    <2>1. /\ socket' \in [Socket -> Sockets] /\ UNCHANGED taken
          /\ socket[s].pc = "opening" /\ socket'[s].pc = "closed"
          /\ \A r \in Socket \ {s} : socket'[r] = socket[r]
      BY <1>6, NothingIsTyped DEF Refuse, Slots, Chain, Typed
    <2> QED
      BY <2>1, SlotsStay
  <1>7. ASSUME NEW s \in Socket, Open(s) \/ Close(s) \/ SubscribeFails(s) PROVE Slots'
    BY <1>7, OpenSlots, CloseSlots, SubscribeFailsSlots
  <1>8. ASSUME Tick PROVE Slots'
    BY <1>8, TickSlots
  <1>9. ASSUME UNCHANGED accessVars PROVE Slots'
    BY <1>1, <1>9 DEF accessVars, wsVars
  <1> QED
    BY <1>2, <1>3, <1>4, <1>5, <1>6, <1>7, <1>8, <1>9 DEF AccessNext

LEMMA InitSlots == AccessInit => Slots
  <1> SUFFICES ASSUME AccessInit PROVE Slots
    OBVIOUS
  <1>1. \A p \in Process : InUse(p) = {}
    BY NothingIsTyped DEF AccessInit, InUse
  <1>2. Cardinality({}) = 0 /\ MaxPerUser \in Nat
    BY FS_EmptySet, AccessAssumption
  <1>3. \A p \in Process : taken[p] = 0
    BY DEF AccessInit
  <1>4. CapHolds
    BY <1>1, <1>2, <1>3 DEF CapHolds
  <1> QED
    BY <1>4, NothingIsTyped DEF AccessInit, Slots

\* A user never holds more sockets of a process than the cap, however many
\* connections pass the awaits before the check together (_ws_open_for).
THEOREM CapIsKept == AccessSpec => []CapHolds
  <1>1. Slots => CapHolds
    BY DEF Slots
  <1> QED
    BY <1>1, InitSlots, NextSlots, ChainHolds, PTL DEF AccessSpec

\* The evictions under way and the faults.
Rest == untold \subseteq Process /\ missed \subseteq Process /\ faults \in 0..MaxFaults

LEMMA RestHolds == AccessSpec => []Rest
  <1>1. AccessInit => Rest
    BY AccessAssumption DEF AccessInit, Rest
  <1>2. Rest /\ [AccessNext]_accessVars => Rest'
    <2> SUFFICES ASSUME Rest, [AccessNext]_accessVars PROVE Rest'
      OBVIOUS
    <2> USE AccessAssumption DEF Rest, cacheVars, wsVars
    <2>1. ASSUME NEW new \in Row, Change(new) PROVE Rest'
      BY <2>1 DEF Change
    <2>2. ASSUME NEW p \in Process, Evict(p) \/ EvictionLost(p) \/ ReadRow(p) \/ Cache(p) PROVE Rest'
      BY <2>2 DEF Evict, EvictionLost, ReadRow, Cache
    <2>3. ASSUME NEW s \in Socket, Refuse(s) \/ Open(s) \/ Close(s) \/ SubscribeFails(s) PROVE Rest'
      BY <2>3 DEF Refuse, Open, Close, SubscribeFails
    <2>4. ASSUME NEW p \in Process, NEW t \in Ticket, Issue(p, t) PROVE Rest'
      BY <2>4 DEF Issue
    <2>5. ASSUME NEW s \in Socket, NEW p \in Process, Authenticate(s, p) PROVE Rest'
      BY <2>5 DEF Authenticate
    <2>6. ASSUME Tick \/ UNCHANGED accessVars PROVE Rest'
      BY <2>6 DEF Tick, accessVars
    <2> QED
      BY <2>1, <2>2, <2>3, <2>4, <2>5, <2>6 DEF AccessNext
  <1> QED
    BY <1>1, <1>2, PTL DEF AccessSpec

\* Every counter stays within its range, the slots taken among them.
THEOREM AccessTypeCorrect == AccessSpec => []AccessTypeOK
  <1>1. Chain /\ Slots /\ Rest => AccessTypeOK
    BY DEF Chain, Typed, Slots, Rest, Entries, Fills, Sockets, AccessTypeOK
  <1>2. AccessSpec => []Slots
    BY InitSlots, NextSlots, ChainHolds, PTL DEF AccessSpec
  <1> QED
    BY <1>1, <1>2, ChainHolds, RestHolds, PTL

-----------------------------------------------------------------------------
(* What the eviction has reached.  EvictedMeansFresh says nothing of a     *)
(* sign-in that is still in flight; one that has read the old row knows    *)
(* that the eviction came meanwhile, if it came.                           *)

Reached(p) == p \notin untold \cup missed

ReachedFills ==
    \A p \in Process : Reached(p) /\ Filling(p) /\ fill[p].row # row => fill[p].evicted

Fresh == ReachedFills /\ EvictedMeansFresh

\* A process that has nothing new in flight or cached, and is no more reached than
\* before.
LEMMA FreshStays ==
  ASSUME Fresh, row' = row,
         \A p \in Process : Reached(p)' =>
             /\ Reached(p)
             /\ Filling(p)' => Filling(p) /\ fill'[p].row = fill[p].row
                               /\ fill'[p].evicted = fill[p].evicted
             /\ Cached(p)' => Cached(p) /\ cached'[p].row = cached[p].row
                              /\ cached'[p].raced = cached[p].raced
  PROVE  Fresh'
  <1>1. ReachedFills'
    BY DEF Fresh, ReachedFills
  <1>2. EvictedMeansFresh'
    BY DEF Fresh, EvictedMeansFresh, Reached
  <1> QED
    BY <1>1, <1>2 DEF Fresh

\* One process takes the step; the others stay as they are.
LEMMA FreshIfOwn ==
  ASSUME Fresh, row' = row, NEW p \in Process,
         \A q \in Process \ {p} :
             Reached(q)' => Reached(q) /\ fill'[q] = fill[q] /\ cached'[q] = cached[q],
         Reached(p)' /\ Filling(p)' /\ fill'[p].row # row => fill'[p].evicted,
         Reached(p)' /\ Cached(p)' /\ cached'[p].row # row => cached'[p].raced
  PROVE  Fresh'
  <1>1. ReachedFills'
    BY DEF Fresh, ReachedFills, Filling
  <1>2. EvictedMeansFresh'
    BY DEF Fresh, EvictedMeansFresh, Reached, Cached
  <1> QED
    BY <1>1, <1>2 DEF Fresh

LEMMA NextFresh == Chain /\ Fresh /\ [AccessNext]_accessVars => Fresh'
  <1> SUFFICES ASSUME Chain, Fresh, [AccessNext]_accessVars PROVE Fresh'
    OBVIOUS
  <1>a. /\ fill \in [Process -> Fills] /\ cached \in [Process -> Entries]
        /\ \A p \in Process : fill[p].took \in -1..Prompt
    BY DEF Chain, Typed, Fills
  <1>1. ASSUME UNCHANGED <<row, cached, fill, untold, missed>> PROVE Fresh'
    BY <1>1, FreshStays DEF Reached, Filling, Cached
  <1>2. ASSUME NEW new \in Row, Change(new) PROVE Fresh'
    BY <1>2 DEF Change, Fresh, ReachedFills, EvictedMeansFresh, Reached
  <1>3. ASSUME NEW p \in Process, Evict(p) PROVE Fresh'
    <2>1. /\ cached'[p].left = 0
          /\ \A q \in Process \ {p} : cached'[q] = cached[q]
      BY <1>a, <1>3, NothingIsTyped DEF Evict
    <2>2. /\ fill'[p].took = fill[p].took /\ fill'[p].evicted = Filling(p)
          /\ \A q \in Process \ {p} : fill'[q] = fill[q]
      BY <1>a, <1>3 DEF Evict, Fills
    <2>3. \A q \in Process \ {p} : Reached(q)' => Reached(q)
      BY <1>3 DEF Evict, Reached
    <2>4. Filling(p)' => fill'[p].evicted
      BY <2>2 DEF Filling
    <2>5. ~Cached(p)'
      BY <2>1 DEF Cached
    <2>6. row' = row
      BY <1>3 DEF Evict
    <2> QED
      BY <2>1, <2>2, <2>3, <2>4, <2>5, <2>6, FreshIfOwn
  <1>4. ASSUME NEW p \in Process, EvictionLost(p) PROVE Fresh'
    BY <1>4, FreshStays DEF EvictionLost, Reached, Filling, Cached
  <1>5. ASSUME NEW p \in Process, ReadRow(p) PROVE Fresh'
    <2>1. /\ fill'[p].row = row /\ \A q \in Process \ {p} : fill'[q] = fill[q]
          /\ UNCHANGED <<row, cached, untold, missed>>
      BY <1>a, <1>5 DEF ReadRow
    <2>2. Reached(p)' /\ Cached(p)' /\ cached'[p].row # row => cached'[p].raced
      BY <2>1 DEF Reached, Cached, Fresh, EvictedMeansFresh
    <2> QED
      BY <2>1, <2>2, FreshIfOwn DEF Reached
  <1>6. ASSUME NEW p \in Process, Cache(p) PROVE Fresh'
    <2>1. /\ UNCHANGED <<row, untold, missed>> /\ Filling(p)
          /\ cached'[p].row = fill[p].row /\ cached'[p].raced = fill[p].evicted
          /\ \A q \in Process \ {p} : cached'[q] = cached[q] /\ fill'[q] = fill[q]
          /\ fill'[p].took = -1
      BY <1>a, <1>6, NothingIsTyped DEF Cache
    <2>2. ~Filling(p)'
      BY <2>1 DEF Filling
    <2>3. Reached(p)' /\ cached'[p].row # row => cached'[p].raced
      BY <2>1 DEF Reached, Fresh, ReachedFills
    <2> QED
      BY <2>1, <2>2, <2>3, FreshIfOwn DEF Reached
  <1>7. ASSUME NEW p \in Process, NEW t \in Ticket, Issue(p, t) PROVE Fresh'
    BY <1>1, <1>7 DEF Issue, cacheVars
  <1>8. ASSUME NEW s \in Socket, NEW p \in Process, Authenticate(s, p) PROVE Fresh'
    BY <1>1, <1>8 DEF Authenticate, cacheVars
  <1>9. ASSUME NEW s \in Socket, Refuse(s) \/ Open(s) \/ Close(s) \/ SubscribeFails(s) PROVE Fresh'
    BY <1>1, <1>9 DEF Refuse, Open, Close, SubscribeFails, cacheVars
  <1>10. ASSUME Tick PROVE Fresh'
    <2>1. ASSUME NEW p \in Process
          PROVE  Filling(p)' => Filling(p) /\ fill'[p].row = fill[p].row
                                /\ fill'[p].evicted = fill[p].evicted
      <3>1. fill'[p] = IF Filling(p) THEN [fill[p] EXCEPT !.took = @ + 1] ELSE fill[p]
        BY <1>10 DEF Tick
      <3>2. fill[p] \in Fills
        BY <1>a
      <3> QED
        BY <3>1, <3>2 DEF Fills, Filling
    <2>2. ASSUME NEW p \in Process
          PROVE  Cached(p)' => Cached(p) /\ cached'[p].row = cached[p].row
                               /\ cached'[p].raced = cached[p].raced
      <3>1. cached'[p] = IF cached[p].left > 1 THEN [cached[p] EXCEPT !.left = @ - 1] ELSE NoEntry
        BY <1>10 DEF Tick
      <3>2. cached[p] \in Entries /\ cached[p].left \in 0..CacheTTL /\ CacheTTL \in Nat
        BY <1>a, HorizonsAreSums DEF Entries
      <3> QED
        BY <3>1, <3>2, NothingIsTyped DEF Entries, Cached
    <2>3. UNCHANGED <<row, untold, missed>>
      BY <1>10 DEF Tick
    <2> QED
      BY <2>1, <2>2, <2>3, FreshStays DEF Reached
  <1>11. ASSUME UNCHANGED accessVars PROVE Fresh'
    BY <1>1, <1>11 DEF accessVars, cacheVars
  <1> QED
    BY <1>2, <1>3, <1>4, <1>5, <1>6, <1>7, <1>8, <1>9, <1>10, <1>11 DEF AccessNext

LEMMA InitFresh == AccessInit => Fresh
  BY NothingIsTyped DEF AccessInit, Fresh, ReachedFills, EvictedMeansFresh, Filling, Cached

\* A process that has heard of the change decides on the old row only from a
\* sign-in that was in flight when it heard (evict_user_token_cache).
THEOREM EvictionWorks == AccessSpec => []EvictedMeansFresh
  <1>1. Fresh => EvictedMeansFresh
    BY DEF Fresh
  <1> QED
    BY <1>1, InitFresh, NextFresh, ChainHolds, PTL DEF AccessSpec
=============================================================================
