--------------------------------- MODULE Access ---------------------------------
(***************************************************************************)
(* How long a change of one user's account takes to reach everything that  *)
(* was decided on the old row: the sign-ins every API process caches       *)
(* (api/auth.py), the eviction messages an admin's change publishes        *)
(* (api/background.py, routers/operations.py, routers/admin.py), the       *)
(* one-time WebSocket tickets in Redis and the open sockets                *)
(* (routers/deployments.py).                                               *)
(*                                                                         *)
(* Time passes in ticks.  Everything with a life of its own counts the     *)
(* ticks it has left; a request in flight is assumed to be over within     *)
(* Prompt ticks.                                                           *)
(***************************************************************************)
EXTENDS Integers, FiniteSets

CONSTANTS
    Process,       \* API worker processes
    Socket,        \* WebSocket connections that may be in use at a time
    Ticket,        \* tickets that may be outstanding at a time
    CacheTTL,      \* life of a cached sign-in (60 s)
    TicketTTL,     \* life of a ticket (60 s)
    MaxSeconds,    \* life of a socket (WS_MAX_SECONDS)
    MaxPerUser,    \* sockets of a user in a process (WS_MAX_PER_USER)
    Prompt,        \* ticks a sign-in or the opening of a socket takes at most
    MaxFaults      \* bound: failures to subscribe after the slot was taken

ASSUME AccessAssumption ==
    /\ {CacheTTL, TicketTTL, MaxSeconds, MaxPerUser} \subseteq Nat \ {0}
    /\ Prompt \in Nat
    /\ Process # {}
    /\ IsFiniteSet(Socket)
    /\ MaxFaults \in Nat

VARIABLES
    row,           \* the user's row: user, admin or suspended
    age,           \* ticks since it last changed, up to Horizon
    cached,        \* per process: the cached sign-in
    fill,          \* per process: a sign-in that has read the row and will be cached
    untold,        \* processes the last eviction has not reached yet
    missed,        \* processes it will not reach: their listener was not connected
    ticket,        \* per ticket: ticks it has left, 0 if there is none
    socket,        \* per socket: its step, its process, ticks it has left or taken
    taken,         \* per process: _ws_open of the user
    faults

cacheVars  == <<cached, fill, untold, missed>>
wsVars     == <<ticket, socket, taken, faults>>
accessVars == <<row, age, cacheVars, wsVars>>

Row == {"user", "admin", "suspended"}

\* What a change may still be unknown to: a sign-in, a cached one, a ticket that
\* was got with it, a socket that is opened with that, and the open socket.
CacheHorizon  == Prompt + CacheTTL
TicketHorizon == CacheHorizon + TicketTTL
OpenHorizon   == TicketHorizon + Prompt
Horizon       == OpenHorizon + MaxSeconds

NoEntry  == [row |-> "user", left |-> 0, raced |-> FALSE]
NoFill   == [row |-> "user", took |-> -1, evicted |-> FALSE]
NoSocket == [pc |-> "closed", process |-> CHOOSE p \in Process : TRUE, ticks |-> 0]

Filling(p) == fill[p].took >= 0
Cached(p)  == cached[p].left > 0
InUse(p)   == {s \in Socket : socket[s].pc = "open" /\ socket[s].process = p}

AccessTypeOK ==
    /\ row \in Row
    /\ age \in 0..(Horizon + 1)
    /\ cached \in [Process -> [row : Row, left : 0..CacheTTL, raced : BOOLEAN]]
    /\ fill \in [Process -> [row : Row, took : -1..Prompt, evicted : BOOLEAN]]
    /\ untold \subseteq Process
    /\ missed \subseteq Process
    /\ ticket \in [Ticket -> 0..TicketTTL]
    /\ socket \in [Socket -> [pc : {"closed", "opening", "open"}, process : Process,
                              ticks : 0..(Prompt + MaxSeconds)]]
    /\ taken \in [Process -> Nat]
    /\ faults \in 0..MaxFaults

AccessInit ==
    /\ row = "user"
    /\ age = Horizon + 1
    /\ cached = [p \in Process |-> NoEntry]
    /\ fill = [p \in Process |-> NoFill]
    /\ untold = {}
    /\ missed = {}
    /\ ticket = [t \in Ticket |-> 0]
    /\ socket = [s \in Socket |-> NoSocket]
    /\ taken = [p \in Process |-> 0]
    /\ faults = 0

-----------------------------------------------------------------------------
(* The admin's change and its eviction.                                    *)

\* set_user_suspension and update_user_role: the UPDATE is committed; the cache
\* of the own process and, through Redis, those of the others come later.
\* Admins cannot be suspended; the role of a suspended user may change meanwhile.
Change(new) ==
    /\ new # row
    /\ ~ (row = "admin" /\ new = "suspended")
    /\ row' = new
    /\ age' = 0
    /\ untold' = Process
    /\ missed' = {}
    /\ UNCHANGED <<cached, fill, wsVars>>

\* evict_user_token_cache: what is cached goes; a sign-in in flight is not in
\* the cache yet.
EvictNothing(p) ==
    /\ p \in untold
    /\ untold' = untold \ {p}
    /\ UNCHANGED <<row, age, cached, fill, missed, wsVars>>
Evict(p) ==
    /\ p \in untold
    /\ untold' = untold \ {p}
    /\ cached' = [cached EXCEPT ![p] = NoEntry]
    /\ fill' = [fill EXCEPT ![p].evicted = Filling(p)]
    /\ UNCHANGED <<row, age, missed, wsVars>>

\* cache_eviction_listener lost its connection and sleeps, or the publication
\* failed: pub/sub keeps nothing for later.
EvictionLost(p) ==
    /\ p \in untold
    /\ untold' = untold \ {p}
    /\ missed' = missed \cup {p}
    /\ UNCHANGED <<row, age, cached, fill, wsVars>>

-----------------------------------------------------------------------------
(* Sign-in: get_current_user.                                              *)

\* The token is not cached and GitHub vouches for it: get_or_create_user.
ReadRow(p) ==
    /\ ~ Cached(p)
    /\ ~ Filling(p)
    /\ fill' = [fill EXCEPT ![p] = [row |-> row, took |-> 0, evicted |-> FALSE]]
    /\ UNCHANGED <<row, age, cached, untold, missed, wsVars>>

\* The thread's result is cached, whatever happened since it read the row.
Cache(p) ==
    /\ Filling(p)
    /\ cached' = [cached EXCEPT ![p] = [row |-> fill[p].row, left |-> CacheTTL,
                                        raced |-> fill[p].evicted]]
    /\ fill' = [fill EXCEPT ![p] = NoFill]
    /\ UNCHANGED <<row, age, untold, missed, wsVars>>

\* What a request of the user that process p serves from its cache may do.
Admits(p) == Cached(p) /\ cached[p].row # "suspended"

-----------------------------------------------------------------------------
(* WebSockets.                                                             *)

\* POST /ws-tickets.
Issue(p, t) ==
    /\ Admits(p)
    /\ ticket[t] = 0
    /\ ticket' = [ticket EXCEPT ![t] = TicketTTL]
    /\ UNCHANGED <<row, age, cacheVars, socket, taken, faults>>

\* _ws_user: the first message carries a ticket, which is spent (GETDEL), and
\* nobody looks at the row again; or an older client's token.
Authenticate(s, p) ==
    /\ socket[s].pc = "closed"
    /\ \/ \E t \in Ticket : ticket[t] > 0 /\ ticket' = [ticket EXCEPT ![t] = 0]
       \/ Admits(p) /\ UNCHANGED ticket
    /\ socket' = [socket EXCEPT ![s] = [pc |-> "opening", process |-> p, ticks |-> 0]]
    /\ UNCHANGED <<row, age, cacheVars, taken, faults>>

\* The project or the deployment is not there for this user.
Refuse(s) ==
    /\ socket[s].pc = "opening"
    /\ socket' = [socket EXCEPT ![s] = NoSocket]
    /\ UNCHANGED <<row, age, cacheVars, ticket, taken, faults>>

\* After the last await of _ws_open_for, in one go: the cap, and the slot.
\* The lifetime counts from here; the code starts its clock in _keepalive, after
\* the subscription and the first read of the row, a time that Prompt covers.
OpenPastTheCap(s) ==
    /\ socket[s].pc = "opening"
    /\ taken' = [taken EXCEPT ![socket[s].process] = @ + 1]
    /\ socket' = [socket EXCEPT ![s] = [@ EXCEPT !.pc = "open", !.ticks = MaxSeconds]]
    /\ UNCHANGED <<row, age, cacheVars, ticket, faults>>
Open(s) ==
    /\ socket[s].pc = "opening"
    /\ LET p == socket[s].process
       IN  IF taken[p] < MaxPerUser
           THEN /\ taken' = [taken EXCEPT ![p] = @ + 1]
                /\ socket' = [socket EXCEPT ![s] = [@ EXCEPT !.pc = "open", !.ticks = MaxSeconds]]
           ELSE /\ socket' = [socket EXCEPT ![s] = NoSocket]
                /\ UNCHANGED taken
    /\ UNCHANGED <<row, age, cacheVars, ticket, faults>>

\* The client leaves, the deployment reaches its end, or an error: the finally
\* of the endpoint gives the slot back.
CloseReturningTwice(s) ==
    /\ socket[s].pc = "open"
    /\ taken' = [taken EXCEPT ![socket[s].process] = @ - 2]
    /\ socket' = [socket EXCEPT ![s] = NoSocket]
    /\ UNCHANGED <<row, age, cacheVars, ticket, faults>>
Close(s) ==
    /\ socket[s].pc = "open"
    /\ taken' = [taken EXCEPT ![socket[s].process] = @ - 1]
    /\ socket' = [socket EXCEPT ![s] = NoSocket]
    /\ UNCHANGED <<row, age, cacheVars, ticket, faults>>

\* pubsub.subscribe raises before the try: the slot is never given back.
SubscribeFails(s) ==
    /\ socket[s].pc = "open"
    /\ faults < MaxFaults
    /\ faults' = faults + 1
    /\ socket' = [socket EXCEPT ![s] = NoSocket]
    /\ UNCHANGED <<row, age, cacheVars, ticket, taken>>

-----------------------------------------------------------------------------
(* Time.                                                                   *)

Less(n) == IF n > 0 THEN n - 1 ELSE 0

\* Sign-ins and openings in flight end before they take more than Prompt; a
\* socket whose time is up is closed first (_keepalive).
MayTickUnwatched ==
    /\ \A p \in Process : fill[p].took < Prompt
    /\ \A s \in Socket : socket[s].pc = "opening" => socket[s].ticks < Prompt
MayTick ==
    /\ \A p \in Process : fill[p].took < Prompt
    /\ \A s \in Socket : /\ socket[s].pc = "opening" => socket[s].ticks < Prompt
                         /\ socket[s].pc = "open" => socket[s].ticks > 0

TickKeepingSignIns ==
    /\ MayTick
    /\ age' = IF age <= Horizon THEN age + 1 ELSE age
    /\ fill' = [p \in Process |-> IF Filling(p) THEN [fill[p] EXCEPT !.took = @ + 1] ELSE fill[p]]
    /\ ticket' = [t \in Ticket |-> Less(ticket[t])]
    /\ socket' = [s \in Socket |->
                     CASE socket[s].pc = "opening" -> [socket[s] EXCEPT !.ticks = @ + 1]
                       [] socket[s].pc = "open"    -> [socket[s] EXCEPT !.ticks = @ - 1]
                       [] OTHER                    -> socket[s]]
    /\ UNCHANGED <<row, cached, untold, missed, taken, faults>>
Tick ==
    /\ MayTick
    /\ age' = IF age <= Horizon THEN age + 1 ELSE age
    /\ cached' = [p \in Process |-> IF cached[p].left > 1
                                    THEN [cached[p] EXCEPT !.left = @ - 1] ELSE NoEntry]
    /\ fill' = [p \in Process |-> IF Filling(p) THEN [fill[p] EXCEPT !.took = @ + 1] ELSE fill[p]]
    /\ ticket' = [t \in Ticket |-> Less(ticket[t])]
    /\ socket' = [s \in Socket |->
                     CASE socket[s].pc = "opening" -> [socket[s] EXCEPT !.ticks = @ + 1]
                       [] socket[s].pc = "open"    -> [socket[s] EXCEPT !.ticks = @ - 1]
                       [] OTHER                    -> socket[s]]
    /\ UNCHANGED <<row, untold, missed, taken, faults>>

-----------------------------------------------------------------------------
AccessNext ==
    \/ \E new \in Row : Change(new)
    \/ \E p \in Process : Evict(p) \/ EvictionLost(p) \/ ReadRow(p) \/ Cache(p)
    \/ \E p \in Process, t \in Ticket : Issue(p, t)
    \/ \E s \in Socket, p \in Process : Authenticate(s, p)
    \/ \E s \in Socket : Refuse(s) \/ Open(s) \/ Close(s) \/ SubscribeFails(s)
    \/ Tick

AccessSpec == AccessInit /\ [][AccessNext]_accessVars

-----------------------------------------------------------------------------
(* Properties.                                                             *)

\* Whatever happens to the eviction, a request is decided on an old row only
\* until the cache's 60 seconds, and one sign-in in flight, are over since the
\* change (auth.py, HIGH-01: "the window where revoked access remains valid").
StaleIsBounded ==
    \A p \in Process : Cached(p) /\ cached[p].row # row => age <= CacheHorizon

\* A process the eviction has reached decides on an old row only because a
\* sign-in that had read it was in flight just then and was cached afterwards
\* (operations.py: "signed out of the API within seconds").
EvictedMeansFresh ==
    \A p \in Process \ (untold \cup missed) :
        Cached(p) /\ cached[p].row # row => cached[p].raced

\* A suspended user is out at last: no ticket is spent later than TicketHorizon
\* after the suspension, and no socket stays open beyond Horizon, although
\* neither of them ever looks at the row again.
SignedOutAtLast ==
    row = "suspended" =>
        /\ age > TicketHorizon => \A t \in Ticket : ticket[t] = 0
        /\ age > Horizon => \A s \in Socket : socket[s].pc # "open"

\* No user holds more sockets in a process than the cap allows, although the
\* awaits before the check let any number of them come that far together
\* (_ws_open_for).
CapHolds ==
    \A p \in Process : Cardinality(InUse(p)) <= taken[p] /\ taken[p] <= MaxPerUser
=============================================================================
