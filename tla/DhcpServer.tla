------------------------------ MODULE DhcpServer ------------------------------
(***************************************************************************)
(* The in-process DHCP server of src/net_backend/native.rs over connection *)
(* handlers that replace each other.  Every AdvertisingStarted makes a new *)
(* handler on a new group with a net backend of its own: a lease table of  *)
(* its own, and a server thread that binds UDP port 67 and never ends.     *)
(* The drain thread of the handler waits for the lease of each source that *)
(* joins, and announces the source with the address it found.              *)
(*                                                                         *)
(* Handlers are numbered as they start; a handler's number also names its  *)
(* group, its backend and its server thread.  Addresses are offsets in the *)
(* pool.  The kernel refuses a second socket on the port, since a socket   *)
(* is bound before it is pinned to its interface (bind_to_iface).  The     *)
(* process is taken to hold CAP_NET_BIND_SERVICE, as installed.            *)
(***************************************************************************)
EXTENDS Naturals, Sequences

CONSTANTS Clients,      \* the hardware addresses that may ask
          PoolSize,     \* how many addresses the pool has, eleven in the code
          MaxHandlers,  \* bound: how many handlers start
          MaxJoins      \* bound: how many times a source joins

None == "none"

ASSUME DhcpAssumption ==
    /\ None \notin Clients
    /\ PoolSize \in Nat \ {0}
    /\ MaxHandlers \in Nat \ {0}
    /\ MaxJoins \in Nat

Handler == 1 .. MaxHandlers
Address == 0 .. PoolSize - 1
NoAddress == PoolSize
Fallback == 0             \* FALLBACK_PEER_IP is the first address of the pool

VARIABLES
    current,   \* the handler in use, whose group is up; 0 before the first
    server,    \* per handler: its server thread, answering its own group once pinned
               \* and any group if pinning failed
    leases,    \* per handler: its backend's lease table
    next,      \* per handler: its server's next address
    handed,    \* history, per handler: addresses taken from the pool in turn
    asked,     \* history, per handler: was an address given because it was asked for?
    joined,    \* the sources in the group
    address,   \* per source: the address it was given and uses
    waiting,   \* the sources that joined and were not announced, oldest first
    joins,     \* how many times a source joined
    announced, \* per source: the address the handler in use announced last
    guessed    \* per source: was that the fallback, after a wait in vain?

dvars == <<current, server, leases, next, handed, asked, joined, address,
           waiting, joins, announced, guessed>>

tables == <<leases, next, handed, asked>>
sources == <<joined, address, waiting, joins, announced, guessed>>

DInit ==
    /\ current = 0
    /\ server = [h \in Handler |-> "none"]
    /\ leases = [h \in Handler |-> [c \in Clients |-> NoAddress]]
    /\ next = [h \in Handler |-> 0]
    /\ handed = [h \in Handler |-> 0]
    /\ asked = [h \in Handler |-> FALSE]
    /\ joined = {}
    /\ address = [c \in Clients |-> NoAddress]
    /\ waiting = <<>>
    /\ joins = 0
    /\ announced = [c \in Clients |-> NoAddress]
    /\ guessed = [c \in Clients |-> FALSE]

-------------------------------------------------------------------------------
\* A new group is up and its handler runs setup_dhcp: the server thread is
\* spawned.  The group before it is gone, and its sources and waits with it.
SetupDhcp ==
    /\ current < MaxHandlers
    /\ current' = current + 1
    /\ server' = [server EXCEPT ![current + 1] = "binding"]
    /\ joined' = {}
    /\ address' = [c \in Clients |-> NoAddress]
    /\ waiting' = <<>>
    /\ announced' = [c \in Clients |-> NoAddress]
    /\ guessed' = [c \in Clients |-> FALSE]
    /\ UNCHANGED <<joins, tables>>

PortTaken == \E h \in Handler : server[h] \in {"pinned", "unpinned"}

Answers(h) == server[h] = "unpinned" \/ (server[h] = "pinned" /\ h = current)

\* bind_to_iface: without the port the thread logs and ends; with it, it serves
\* for as long as the process lives, whatever becomes of its interface.  A socket
\* that could not be pinned is used as it is.
ServerBinds(h) ==
    /\ server[h] = "binding"
    /\ \E s \in IF PortTaken THEN {"failed"} ELSE {"pinned", "unpinned"} :
           server' = [server EXCEPT ![h] = s]
    /\ UNCHANGED <<current, tables, sources>>

\* AP-STA-CONNECTED: the drain thread will wait for the source's lease.
Joins(c) ==
    /\ current > 0
    /\ c \notin joined
    /\ joins < MaxJoins
    /\ joins' = joins + 1
    /\ joined' = joined \cup {c}
    /\ waiting' = Append(waiting, c)
    /\ UNCHANGED <<current, server, tables, address, announced, guessed>>

Leaves(c) ==
    /\ c \in joined
    /\ joined' = joined \ {c}
    /\ address' = [address EXCEPT ![c] = NoAddress]
    /\ UNCHANGED <<current, server, tables, waiting, joins, announced, guessed>>

\* A client in the table gets its address again, whatever it asks for.
Reuse(h, c) ==
    /\ leases[h][c] # NoAddress
    /\ UNCHANGED tables

\* A new client gets the address it asks for, in use or not.
Grant(h, c, a) ==
    /\ leases' = [leases EXCEPT ![h][c] = a]
    /\ asked' = [asked EXCEPT ![h] = TRUE]
    /\ UNCHANGED <<next, handed>>

\* Mutation of Allocate: the pointer is not advanced.
AllocateInPlace(h, c) ==
    /\ leases' = [leases EXCEPT ![h][c] = next[h]]
    /\ handed' = [handed EXCEPT ![h] = handed[h] + 1]
    /\ UNCHANGED <<next, asked>>

\* Mutation of Allocate: the pointer runs past the end of the pool.
AllocatePastEnd(h, c) ==
    /\ leases' = [leases EXCEPT ![h][c] = next[h]]
    /\ next' = [next EXCEPT ![h] = next[h] + 1]
    /\ handed' = [handed EXCEPT ![h] = handed[h] + 1]
    /\ UNCHANGED asked

\* alloc_from_pool: the next one in turn, in use or not.
Allocate(h, c) ==
    /\ leases' = [leases EXCEPT ![h][c] = next[h]]
    /\ next' = [next EXCEPT ![h] = IF next[h] + 1 = PoolSize THEN 0
                                                            ELSE next[h] + 1]
    /\ handed' = [handed EXCEPT ![h] = handed[h] + 1]
    /\ UNCHANGED asked

\* Mutation of Assign: the table is not looked at.
AssignAnew(h, c) == Allocate(h, c) \/ \E a \in Address : Grant(h, c, a)

\* The address of the reply, from the table if it is there.
Assign(h, c) ==
    \/ Reuse(h, c)
    \/ /\ leases[h][c] = NoAddress
       /\ Allocate(h, c) \/ \E a \in Address : Grant(h, c, a)

\* DISCOVER: the table is written before the client has accepted anything.
Discover(c) ==
    /\ c \in joined
    /\ \E h \in Handler : Answers(h) /\ Assign(h, c)
    /\ UNCHANGED <<current, server, sources>>

\* REQUEST, with or without a DISCOVER before it, and its ACK arrives.
Request(c) ==
    /\ c \in joined
    /\ \E h \in Handler :
           /\ Answers(h)
           /\ Assign(h, c)
           /\ address' = [address EXCEPT ![c] = leases'[h][c]]
    /\ UNCHANGED <<current, server, joined, waiting, joins, announced, guessed>>

\* The drain thread announces the source it waits for.
Announce(a, guess) ==
    /\ waiting # <<>>
    /\ waiting' = Tail(waiting)
    /\ announced' = [announced EXCEPT ![Head(waiting)] = a]
    /\ guessed' = [guessed EXCEPT ![Head(waiting)] = guess]
    /\ UNCHANGED <<current, server, tables, joined, address, joins>>

\* wait_for_dhcp_lease finds the source in its own backend's table.
LeaseFound ==
    /\ waiting # <<>>
    /\ leases[current][Head(waiting)] # NoAddress
    /\ Announce(leases[current][Head(waiting)], FALSE)

\* Fifteen seconds pass and the fallback address is announced: there was no lease
\* when the table was last looked at, up to half a second before.
LeaseTimesOut == Announce(Fallback, TRUE)

DNext ==
    \/ SetupDhcp
    \/ \E h \in Handler : ServerBinds(h)
    \/ \E c \in Clients : Joins(c) \/ Leaves(c) \/ Discover(c) \/ Request(c)
    \/ LeaseFound \/ LeaseTimesOut

DSpec == DInit /\ [][DNext]_dvars

-------------------------------------------------------------------------------
(* Properties. *)

DTypeOK ==
    /\ current \in 0 .. MaxHandlers
    /\ server \in [Handler -> {"none", "binding", "pinned", "unpinned", "failed"}]
    /\ leases \in [Handler -> [Clients -> Address \cup {NoAddress}]]
    /\ next \in [Handler -> Address]
    /\ handed \in [Handler -> Nat]
    /\ asked \in [Handler -> BOOLEAN]
    /\ joined \subseteq Clients
    /\ address \in [Clients -> Address \cup {NoAddress}]
    /\ waiting \in Seq(Clients)
    /\ joins \in 0 .. MaxJoins
    /\ announced \in [Clients -> Address \cup {NoAddress}]
    /\ guessed \in [Clients -> BOOLEAN]

\* While a server gave addresses only in turn, and the pool was not used up, no
\* two clients share one.
DistinctInTurn ==
    \A h \in Handler :
        ~asked[h] /\ handed[h] <= PoolSize =>
            \A c, d \in Clients :
                c # d /\ leases[h][c] # NoAddress => leases[h][c] # leases[h][d]

\* The receiver is sent to the address the source really has: unless the wait was
\* in vain, the address announced is the one the source was or will be given, even
\* if it was announced on the DISCOVER, before the source accepted.
AnnouncedIsGiven ==
    \A c \in Clients :
        /\ announced[c] # NoAddress /\ ~guessed[c]
        /\ address[c] # NoAddress
        => announced[c] = address[c]

===============================================================================
