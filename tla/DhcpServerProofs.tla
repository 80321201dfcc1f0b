--------------------------- MODULE DhcpServerProofs ---------------------------
(***************************************************************************)
(* Theorems about DhcpServer, for any clients, pool size and number of     *)
(* handlers.                                                               *)
(***************************************************************************)
EXTENDS DhcpServer, TLAPS

\* A server that gave addresses only in turn, and not more than the pool holds,
\* has given the first ones and points at the next.
TurnOK(h) ==
    ~asked[h] /\ handed[h] <= PoolSize =>
        /\ \A c \in Clients : leases[h][c] # NoAddress => leases[h][c] < handed[h]
        /\ \A c, d \in Clients :
               c # d /\ leases[h][c] # NoAddress => leases[h][c] # leases[h][d]
        /\ handed[h] < PoolSize => next[h] = handed[h]

TurnInv == \A h \in Handler : TurnOK(h)

\* Nobody waits for a lease before a first group is up.
WaitInv == waiting # <<>> => current \in Handler

\* Each handler's table and pointer keep their types and stay in turn, whether the
\* address comes from the table, from the client or from the pool.
LEMMA AssignKeeps ==
    ASSUME DTypeOK, TurnInv, NEW h \in Handler, NEW c \in Clients, Assign(h, c)
    PROVE  /\ leases' \in [Handler -> [Clients -> Address \cup {NoAddress}]]
           /\ next' \in [Handler -> Address]
           /\ handed' \in [Handler -> Nat]
           /\ asked' \in [Handler -> BOOLEAN]
           /\ leases'[h][c] \in Address
           /\ TurnInv'
<1> USE DhcpAssumption
<1>1. CASE Reuse(h, c)
  <2>1. UNCHANGED tables /\ leases[h][c] # NoAddress
    BY <1>1 DEF Reuse
  <2>2. TurnInv'
    BY <2>1 DEF tables, TurnInv, TurnOK
  <2> QED
    BY <2>1, <2>2 DEF DTypeOK, tables
<1>2. CASE \E a \in Address : Grant(h, c, a)
  <2>1. PICK a \in Address : Grant(h, c, a)
    BY <1>2
  <2>2. asked'[h]
    BY <2>1 DEF Grant, DTypeOK
  <2>3. \A i \in Handler : i # h => leases'[i] = leases[i] /\ asked'[i] = asked[i]
    BY <2>1 DEF Grant, DTypeOK
  <2>4. next' = next /\ handed' = handed
    BY <2>1 DEF Grant
  <2>5. TurnInv'
    BY <2>2, <2>3, <2>4 DEF TurnInv, TurnOK
  <2>6. leases'[h][c] = a
    BY <2>1 DEF Grant, DTypeOK
  <2> QED
    BY <2>1, <2>5, <2>6 DEF Grant, DTypeOK
<1>3. CASE leases[h][c] = NoAddress /\ Allocate(h, c)
  <2>1. next[h] \in 0 .. PoolSize - 1 /\ handed[h] \in Nat /\ PoolSize \in Nat
    BY DEF DTypeOK, Address
  <2>2. /\ leases' = [leases EXCEPT ![h][c] = next[h]]
        /\ next' = [next EXCEPT ![h] = IF next[h] + 1 = PoolSize THEN 0
                                                                ELSE next[h] + 1]
        /\ handed' = [handed EXCEPT ![h] = handed[h] + 1]
        /\ asked' = asked
    BY <1>3 DEF Allocate
  <2>3. next' \in [Handler -> Address]
    BY <2>1, <2>2 DEF DTypeOK, Address
  <2>4. /\ leases'[h][c] = next[h]
        /\ \A d \in Clients : d # c => leases'[h][d] = leases[h][d]
        /\ handed'[h] = handed[h] + 1
        /\ next'[h] = IF next[h] + 1 = PoolSize THEN 0 ELSE next[h] + 1
    BY <2>2 DEF DTypeOK
  <2>5. TurnOK(h)'
    <3> SUFFICES ASSUME ~asked[h], handed[h] + 1 <= PoolSize
                 PROVE  /\ \A d \in Clients : leases'[h][d] # NoAddress =>
                               leases'[h][d] < handed[h] + 1
                        /\ \A d, e \in Clients :
                               d # e /\ leases'[h][d] # NoAddress =>
                                   leases'[h][d] # leases'[h][e]
                        /\ handed[h] + 1 < PoolSize => next'[h] = handed[h] + 1
      BY <2>2, <2>4 DEF TurnOK, NoAddress
    <3>1. TurnOK(h) /\ handed[h] < PoolSize /\ handed[h] <= PoolSize
      BY <2>1 DEF TurnInv
    <3>2. next[h] = handed[h]
      BY <3>1 DEF TurnOK
    <3>3. \A d \in Clients : leases[h][d] # NoAddress => leases[h][d] < handed[h]
      BY <3>1 DEF TurnOK
    <3>4. \A d, e \in Clients : d # e /\ leases[h][d] # NoAddress =>
              leases[h][d] # leases[h][e]
      BY <3>1 DEF TurnOK
    <3>5. \A d \in Clients : leases[h][d] \in Nat
      BY <2>1 DEF DTypeOK, Address, NoAddress
    <3> QED
      BY <2>1, <2>4, <3>2, <3>3, <3>4, <3>5 DEF NoAddress
  <2>6. \A i \in Handler : i # h => TurnOK(i)'
    <3>1. \A i \in Handler : i # h => /\ leases'[i] = leases[i]
                                      /\ next'[i] = next[i]
                                      /\ handed'[i] = handed[i]
                                      /\ asked'[i] = asked[i]
      BY <2>2 DEF DTypeOK
    <3> QED
      BY <3>1 DEF TurnInv, TurnOK
  <2>7. TurnInv'
    BY <2>5, <2>6 DEF TurnInv
  <2> QED
    BY <2>1, <2>2, <2>3, <2>4, <2>7 DEF DTypeOK, Address
<1> QED
  BY <1>1, <1>2, <1>3 DEF Assign

-------------------------------------------------------------------------------
\* Types and turns hold at the start.
LEMMA InitKeeps == DInit => DTypeOK /\ TurnInv /\ WaitInv
  BY DhcpAssumption DEF DInit, DTypeOK, TurnInv, TurnOK, WaitInv, Handler, Address, NoAddress

\* Every step keeps them: only the server's replies touch a table.
LEMMA StepKeeps ==
    DTypeOK /\ TurnInv /\ WaitInv /\ [DNext]_dvars => DTypeOK' /\ TurnInv' /\ WaitInv'
<1> SUFFICES ASSUME DTypeOK, TurnInv, WaitInv, [DNext]_dvars
             PROVE  DTypeOK' /\ TurnInv' /\ WaitInv'
  OBVIOUS
<1> USE DhcpAssumption
<1>0. UNCHANGED tables => TurnInv'
  BY DEF tables, TurnInv, TurnOK
<1>1. ASSUME SetupDhcp
      PROVE  DTypeOK' /\ TurnInv'
  BY <1>0, <1>1 DEF SetupDhcp, DTypeOK, tables, Handler
<1>2. ASSUME NEW h \in Handler, ServerBinds(h)
      PROVE  DTypeOK' /\ TurnInv'
  BY <1>0, <1>2 DEF ServerBinds, DTypeOK, tables, sources
<1>3. ASSUME NEW c \in Clients, Joins(c)
      PROVE  DTypeOK' /\ TurnInv'
  BY <1>0, <1>3 DEF Joins, DTypeOK, tables
<1>4. ASSUME NEW c \in Clients, Leaves(c)
      PROVE  DTypeOK' /\ TurnInv'
  BY <1>0, <1>4 DEF Leaves, DTypeOK, tables
<1>5. ASSUME NEW c \in Clients, Discover(c)
      PROVE  DTypeOK' /\ TurnInv'
  <2>1. PICK h \in Handler : Assign(h, c)
    BY <1>5 DEF Discover
  <2> QED
    BY <1>5, <2>1, AssignKeeps DEF Discover, DTypeOK, sources
<1>6. ASSUME NEW c \in Clients, Request(c)
      PROVE  DTypeOK' /\ TurnInv'
  <2>1. PICK h \in Handler : /\ Assign(h, c)
                             /\ address' = [address EXCEPT ![c] = leases'[h][c]]
    BY <1>6 DEF Request
  <2>2. leases'[h][c] \in Address
    BY <2>1, AssignKeeps
  <2>3. address' \in [Clients -> Address \cup {NoAddress}]
    BY <2>1, <2>2 DEF DTypeOK
  <2> QED
    BY <1>6, <2>1, <2>3, AssignKeeps DEF Request, DTypeOK
<1>7. ASSUME NEW a \in Address, NEW g \in BOOLEAN, Announce(a, g)
      PROVE  DTypeOK' /\ TurnInv'
  <2>1. Head(waiting) \in Clients /\ Tail(waiting) \in Seq(Clients)
    BY <1>7 DEF Announce, DTypeOK
  <2> QED
    BY <1>0, <1>7, <2>1 DEF Announce, DTypeOK, tables
<1>8. ASSUME LeaseFound
      PROVE  DTypeOK' /\ TurnInv'
  <2>1. Head(waiting) \in Clients /\ current \in Handler
    BY <1>8 DEF LeaseFound, DTypeOK, WaitInv
  <2>2. leases[current][Head(waiting)] \in Address
    BY <1>8, <2>1 DEF LeaseFound, DTypeOK
  <2> QED
    BY <1>7, <1>8, <2>2 DEF LeaseFound
<1>9. ASSUME LeaseTimesOut
      PROVE  DTypeOK' /\ TurnInv'
  <2>1. Fallback \in Address
    BY DEF Fallback, Address
  <2> QED
    BY <1>7, <1>9, <2>1 DEF LeaseTimesOut
<1>10. ASSUME UNCHANGED dvars
      PROVE  DTypeOK' /\ TurnInv'
  BY <1>0, <1>10 DEF dvars, DTypeOK, tables
<1>11. WaitInv'
  <2>1. CASE SetupDhcp
    BY <2>1 DEF SetupDhcp, WaitInv
  <2>2. ASSUME NEW c \in Clients, Joins(c)
        PROVE  WaitInv'
    BY <2>2 DEF Joins, WaitInv, DTypeOK, Handler
  <2>3. CASE \E h \in Handler : ServerBinds(h)
    BY <2>3 DEF ServerBinds, sources, WaitInv
  <2>4. CASE \E c \in Clients : Leaves(c) \/ Discover(c) \/ Request(c)
    BY <2>4 DEF Leaves, Discover, Request, sources, WaitInv
  <2>5. CASE LeaseFound \/ LeaseTimesOut
    BY <2>5 DEF LeaseFound, LeaseTimesOut, Announce, WaitInv
  <2>6. CASE UNCHANGED dvars
    BY <2>6 DEF dvars, WaitInv
  <2> QED
    BY <2>1, <2>2, <2>3, <2>4, <2>5, <2>6 DEF DNext
<1> QED
  BY <1>1, <1>2, <1>3, <1>4, <1>5, <1>6, <1>8, <1>9, <1>10, <1>11 DEF DNext

-------------------------------------------------------------------------------
\* The DHCP servers keep their types: no pointer leaves the pool (alloc_from_pool)
\* and every announced address is one of the pool, however the handlers follow each
\* other.
THEOREM DhcpTypeCorrect == DSpec => []DTypeOK
<1>1. DInit => DTypeOK /\ TurnInv /\ WaitInv
  BY InitKeeps
<1>2. DTypeOK /\ TurnInv /\ WaitInv /\ [DNext]_dvars => (DTypeOK /\ TurnInv /\ WaitInv)'
  BY StepKeeps
<1> QED
  BY <1>1, <1>2, PTL DEF DSpec

\* Addresses given in turn differ (handle_packet with alloc_from_pool): up to as many
\* as the pool holds, for any pool and any clients.
THEOREM TurnsAreDistinct == DSpec => []DistinctInTurn
<1>1. DInit => DTypeOK /\ TurnInv /\ WaitInv
  BY InitKeeps
<1>2. DTypeOK /\ TurnInv /\ WaitInv /\ [DNext]_dvars => (DTypeOK /\ TurnInv /\ WaitInv)'
  BY StepKeeps
<1>3. TurnInv => DistinctInTurn
  BY DEF TurnInv, TurnOK, DistinctInTurn
<1> QED
  BY <1>1, <1>2, <1>3, PTL DEF DSpec

-------------------------------------------------------------------------------
Bound(h) == server[h] \in {"pinned", "unpinned"}

\* Only the server that got the port writes a table, there is one, and what it
\* wrote stays: so an address in use and an address announced are the same entry.
GiveInv ==
    /\ \A h \in Handler : h > current => server[h] = "none"
    /\ \A h, i \in Handler : Bound(h) /\ Bound(i) => h = i
    /\ \A h \in Handler, c \in Clients : leases[h][c] # NoAddress => Bound(h)
    /\ \A c \in Clients : address[c] # NoAddress =>
           \E h \in Handler : leases[h][c] = address[c]
    /\ \A c \in Clients : announced[c] # NoAddress /\ ~guessed[c] =>
           current \in Handler /\ leases[current][c] = announced[c]

\* A reply never changes an entry of any table.
LEMMA AssignPreserves ==
    ASSUME DTypeOK, NEW h \in Handler, NEW c \in Clients, Assign(h, c)
    PROVE  /\ \A i \in Handler, d \in Clients :
                  leases[i][d] # NoAddress => leases'[i][d] = leases[i][d]
           /\ \A i \in Handler : i # h => leases'[i] = leases[i]
<1>1. CASE Reuse(h, c)
  BY <1>1 DEF Reuse, tables
<1>2. CASE leases[h][c] = NoAddress /\ \E a \in Address : Grant(h, c, a)
  BY <1>2 DEF Grant, DTypeOK
<1>3. CASE leases[h][c] = NoAddress /\ Allocate(h, c)
  BY <1>3 DEF Allocate, DTypeOK
<1> QED
  BY <1>1, <1>2, <1>3 DEF Assign

\* The table part of GiveInv survives a reply of a server that has the port.
LEMMA ReplyGives ==
    ASSUME DTypeOK, TurnInv, GiveInv, NEW h \in Handler, NEW c \in Clients,
           Answers(h), Assign(h, c), UNCHANGED <<server, current, announced, guessed>>,
           \/ UNCHANGED address
           \/ address' = [address EXCEPT ![c] = leases'[h][c]]
    PROVE  GiveInv'
<1>1. Bound(h)
  BY DEF Answers, Bound
<1>2. /\ \A i \in Handler, d \in Clients :
             leases[i][d] # NoAddress => leases'[i][d] = leases[i][d]
      /\ \A i \in Handler : i # h => leases'[i] = leases[i]
  BY AssignPreserves
<1>3. /\ \A i, j \in Handler : Bound(i)' /\ Bound(j)' => i = j
      /\ \A i \in Handler : i > current' => server'[i] = "none"
  BY DEF GiveInv, Bound
<1>4. \A i \in Handler, d \in Clients : leases'[i][d] # NoAddress => Bound(i)'
  BY <1>1, <1>2 DEF GiveInv, Bound
<1>5. ASSUME NEW d \in Clients, address'[d] # NoAddress
      PROVE  \E i \in Handler : leases'[i][d] = address'[d]
  <2>1. CASE address'[d] = address[d]
    <3>1. PICK i \in Handler : leases[i][d] = address[d]
      BY <1>5, <2>1 DEF GiveInv
    <3> QED
      BY <1>2, <1>5, <2>1, <3>1
  <2>2. CASE d = c /\ address'[d] = leases'[h][d]
    BY <2>2
  <2> QED
    BY <2>1, <2>2 DEF DTypeOK
<1>6. \A d \in Clients : announced'[d] # NoAddress /\ ~guessed'[d] =>
          current' \in Handler /\ leases'[current'][d] = announced'[d]
  BY <1>2 DEF GiveInv
<1> QED
  BY <1>3, <1>4, <1>5, <1>6 DEF GiveInv

\* Every step keeps GiveInv.
LEMMA StepGives ==
    DTypeOK /\ TurnInv /\ WaitInv /\ GiveInv /\ [DNext]_dvars => GiveInv'
<1> SUFFICES ASSUME DTypeOK, TurnInv, WaitInv, GiveInv, [DNext]_dvars
             PROVE  GiveInv'
  OBVIOUS
<1>1. ASSUME UNCHANGED <<server, current, leases, address, announced, guessed>>
      PROVE  GiveInv'
  BY <1>1 DEF GiveInv, Bound
<1>2. CASE SetupDhcp
  <2>1. current + 1 \in Handler /\ current \in Nat
    BY <1>2, DhcpAssumption DEF SetupDhcp, DTypeOK, Handler
  <2>2. \A h \in Handler : h # current + 1 => server'[h] = server[h]
    BY <1>2 DEF SetupDhcp, DTypeOK
  <2>3. server'[current + 1] = "binding" /\ server[current + 1] = "none"
    BY <1>2, <2>1 DEF SetupDhcp, DTypeOK, GiveInv
  <2>4. \A h \in Handler : Bound(h)' <=> Bound(h)
    BY <2>1, <2>2, <2>3 DEF Bound
  <2>5. leases' = leases /\ current' = current + 1
    BY <1>2 DEF SetupDhcp, tables
  <2>6. \A h \in Handler : h > current' => server'[h] = "none"
    BY <2>1, <2>2, <2>5 DEF GiveInv, Handler
  <2>7. \A c \in Clients : address'[c] = NoAddress /\ announced'[c] = NoAddress
    BY <1>2 DEF SetupDhcp
  <2> QED
    BY <2>4, <2>5, <2>6, <2>7 DEF GiveInv
<1>3. ASSUME NEW h \in Handler, ServerBinds(h)
      PROVE  GiveInv'
  <2>1. /\ server[h] = "binding"
        /\ \A i \in Handler : i # h => server'[i] = server[i]
        /\ server'[h] \in {"pinned", "unpinned", "failed"}
        /\ UNCHANGED <<current, leases, address, announced, guessed>>
    BY <1>3 DEF ServerBinds, DTypeOK, tables, sources
  <2>2. Bound(h)' => \A i \in Handler : ~Bound(i)
    BY <1>3 DEF ServerBinds, PortTaken, Bound, DTypeOK
  <2>3. \A i \in Handler : Bound(i) => Bound(i)'
    BY <2>1 DEF Bound
  <2>4. \A i \in Handler : i # h => (Bound(i)' <=> Bound(i))
    BY <2>1 DEF Bound
  <2>5. \A i, j \in Handler : Bound(i)' /\ Bound(j)' => i = j
    BY <2>2, <2>4 DEF GiveInv
  <2>6. \A i \in Handler : i > current' => server'[i] = "none"
    BY <2>1 DEF GiveInv
  <2> QED
    BY <2>1, <2>3, <2>5, <2>6 DEF GiveInv
<1>4. ASSUME NEW c \in Clients, Joins(c)
      PROVE  GiveInv'
  BY <1>1, <1>4 DEF Joins, tables
<1>5. ASSUME NEW c \in Clients, Leaves(c)
      PROVE  GiveInv'
  <2>1. /\ address' = [address EXCEPT ![c] = NoAddress]
        /\ UNCHANGED <<server, current, leases, announced, guessed>>
    BY <1>5 DEF Leaves, tables
  <2>2. \A d \in Clients : address'[d] # NoAddress => address'[d] = address[d]
    BY <2>1 DEF DTypeOK
  <2> QED
    BY <2>1, <2>2 DEF GiveInv, Bound
<1>6. ASSUME NEW c \in Clients, Discover(c)
      PROVE  GiveInv'
  <2>1. PICK h \in Handler : Answers(h) /\ Assign(h, c)
    BY <1>6 DEF Discover
  <2> QED
    BY <1>6, <2>1, ReplyGives DEF Discover, sources
<1>7. ASSUME NEW c \in Clients, Request(c)
      PROVE  GiveInv'
  <2>1. PICK h \in Handler : /\ Answers(h)
                             /\ Assign(h, c)
                             /\ address' = [address EXCEPT ![c] = leases'[h][c]]
    BY <1>7 DEF Request
  <2> QED
    BY <1>7, <2>1, ReplyGives DEF Request
<1>8. ASSUME NEW a \in Address, NEW g \in BOOLEAN, Announce(a, g),
             g \/ (current \in Handler /\ leases[current][Head(waiting)] = a)
      PROVE  GiveInv'
  <2>1. /\ UNCHANGED <<server, current, leases, address>>
        /\ announced' = [announced EXCEPT ![Head(waiting)] = a]
        /\ guessed' = [guessed EXCEPT ![Head(waiting)] = g]
    BY <1>8 DEF Announce, tables
  <2>2. \A d \in Clients : announced'[d] # NoAddress /\ ~guessed'[d] =>
            current' \in Handler /\ leases'[current'][d] = announced'[d]
    <3> SUFFICES ASSUME NEW d \in Clients, announced'[d] # NoAddress, ~guessed'[d]
                 PROVE  current \in Handler /\ leases[current][d] = announced'[d]
      BY <2>1
    <3>1. CASE d = Head(waiting)
      BY <1>8, <2>1, <3>1 DEF DTypeOK
    <3>2. CASE d # Head(waiting)
      BY <2>1, <3>2 DEF DTypeOK, GiveInv
    <3> QED
      BY <3>1, <3>2
  <2> QED
    BY <2>1, <2>2 DEF GiveInv, Bound
<1>9. CASE LeaseFound
  <2>1. Head(waiting) \in Clients /\ current \in Handler
    BY <1>9 DEF LeaseFound, DTypeOK, WaitInv
  <2>2. leases[current][Head(waiting)] \in Address
    BY <1>9, <2>1 DEF LeaseFound, DTypeOK
  <2> QED
    BY <1>8, <1>9, <2>1, <2>2 DEF LeaseFound
<1>10. CASE LeaseTimesOut
  <2>1. Fallback \in Address
    BY DhcpAssumption DEF Fallback, Address
  <2> QED
    BY <1>8, <1>10, <2>1 DEF LeaseTimesOut
<1>11. CASE UNCHANGED dvars
  BY <1>1, <1>11 DEF dvars
<1> QED
  BY <1>2, <1>3, <1>4, <1>5, <1>6, <1>7, <1>9, <1>10, <1>11 DEF DNext

\* The address announced on a lease is the one the source uses (wait_for_dhcp_lease
\* against handle_packet), although the lease is recorded on the DISCOVER and although
\* a server of an earlier group may be the one that answers.
THEOREM AnnouncedAddressIsGiven == DSpec => []AnnouncedIsGiven
<1>1. DInit => DTypeOK /\ TurnInv /\ WaitInv /\ GiveInv
  <2>1. DInit => GiveInv
    BY DEF DInit, GiveInv, Bound, Handler
  <2> QED
    BY <2>1, InitKeeps
<1>2. DTypeOK /\ TurnInv /\ WaitInv /\ GiveInv /\ [DNext]_dvars =>
          (DTypeOK /\ TurnInv /\ WaitInv /\ GiveInv)'
  BY StepKeeps, StepGives
<1>3. DTypeOK /\ GiveInv => AnnouncedIsGiven
  <2> SUFFICES ASSUME DTypeOK, GiveInv, NEW c \in Clients,
                      announced[c] # NoAddress, ~guessed[c], address[c] # NoAddress
               PROVE  announced[c] = address[c]
    BY DEF AnnouncedIsGiven
  <2>1. current \in Handler /\ leases[current][c] = announced[c]
    BY DEF GiveInv
  <2>2. PICK h \in Handler : leases[h][c] = address[c]
    BY DEF GiveInv
  <2>3. Bound(current) /\ Bound(h)
    BY <2>1, <2>2 DEF GiveInv
  <2>4. h = current
    BY <2>1, <2>3 DEF GiveInv
  <2> QED
    BY <2>1, <2>2, <2>4
<1> QED
  BY <1>1, <1>2, <1>3, PTL DEF DSpec

===============================================================================
