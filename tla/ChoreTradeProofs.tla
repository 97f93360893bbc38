--------------------------- MODULE ChoreTradeProofs ---------------------------
(***************************************************************************)
(* What is true of ChoreTrade in every reachable state: the rows and       *)
(* reservations a transaction holds, and that what it has found on them    *)
(* stays so until it ends, whatever the others do.  From this follow the   *)
(* safety properties of ChoreTrade and that its transactions implement the *)
(* atomic operations of TradeBoard, for every household, set of chores and *)
(* number of connections.                                                  *)
(***************************************************************************)
EXTENDS ChoreTrade, NaturalSets

-----------------------------------------------------------------------------
(* What a transaction knows, and holds, at each of its statements. *)

ProposePCs  == {"propose: lock", "propose: check", "propose: insert", "propose: commit"}
AcceptPCs   == {"accept: swap", "accept: visit", "accept: count"}
ResolvedPCs == AcceptPCs \cup {"decline: commit"}
OverduePCs  == {"overdue: visit", "overdue: commit"}
VisitPCs    == {"propose: lock", "accept: visit", "overdue: visit"}

Pair(r) == {r.offered, r.requested}

\* What each statement has been given.
Assigned(r) ==
  /\ r.pc \in ProposePCs =>
       /\ r.trade \in Trades /\ r.proposer \in Members /\ r.responder \in Members \ {r.proposer}
       /\ r.offered \in Chores /\ r.requested \in Chores \ {r.offered}
  /\ r.pc \in ResolvedPCs \cup {"accept: resolve", "decline: resolve"} => r.trade \in Trades
  /\ r.pc \in VisitPCs => r.row \in r.todo
  /\ r.pc \notin AcceptPCs \cup OverduePCs => r.hits = {}

\* Propose holds its chores' rows, taken in id order, and from its check on what
\* it has found holds for as long.
Proposing(r) ==
  /\ r.pc = "propose: lock" =>
       /\ r.todo \subseteq Pair(r) /\ r.locks = {ChoreRow(c) : c \in Pair(r) \ r.todo}
       /\ \A c \in r.todo : r.row <= c
       /\ \A c \in Pair(r) \ r.todo, d \in r.todo : c < d
  /\ r.pc \in {"propose: check", "propose: insert"} => r.locks = {ChoreRow(c) : c \in Pair(r)}
  /\ r.pc = "propose: commit" =>
       r.locks = {ChoreRow(c) : c \in Pair(r)} \cup {ReservationKey(c) : c \in Pair(r)}
  /\ r.pc \in {"propose: insert", "propose: commit"} =>
       /\ Tradeable(r.offered) /\ chore[r.offered].assignee = r.proposer
       /\ Tradeable(r.requested) /\ chore[r.requested].assignee = r.responder
       /\ ~LiveOn(Pair(r))

\* Accept and Decline hold the live trade they resolve; the rows Accept has hit
\* are held and still match.
Resolving(r) ==
  /\ r.pc \in ResolvedPCs => Live(r.trade) /\ TradeRow(r.trade) \in r.locks
  /\ r.pc \in AcceptPCs => \A c \in r.hits : ChoreRow(c) \in r.locks /\ Swappable(r.trade, c)

\* So are the rows the scheduler's UPDATEs have hit.
Sweeping(r) ==
  /\ r.pc \in OverduePCs => \A c \in r.hits : ChoreRow(c) \in r.locks /\ PastDue(c, r.at)
  /\ r.pc = "expire: commit" => \A t \in r.swept : Lapsed(t, r.at) /\ TradeRow(t) \in r.locks

\* A reservation is held by who is about to insert it, or holds its trade.
Reserving(r) ==
  \A c \in Chores : ReservationKey(c) \in r.locks =>
    \/ r.pc = "propose: commit" /\ c \in Pair(r)
    \/ \E t \in Trades : reservation[c] = t /\ TradeRow(t) \in r.locks

SessionOK(r) ==
  /\ r \in TxState /\ r.at <= now
  /\ Assigned(r) /\ Proposing(r) /\ Resolving(r) /\ Sweeping(r) /\ Reserving(r)

\* A lock has one holder.
LockMutex == \A s, u \in Sessions : s # u => tx[s].locks \cap tx[u].locks = {}

\* The id of a trade that is being proposed is nobody else's.
FreshIds ==
  \A s \in Sessions : tx[s].pc \in ProposePCs =>
    /\ trade[tx[s].trade].status = "absent"
    /\ \A u \in Sessions \ {s} : tx[u].trade # tx[s].trade

IInv == /\ TypeOK /\ ReservationsMatchLive /\ LockMutex /\ FreshIds
        /\ \A s \in Sessions : SessionOK(tx[s])

-----------------------------------------------------------------------------
(* Resources and records. *)

LEMMA Distinct ==
  /\ \A x, y : ChoreRow(x) = ChoreRow(y) => x = y
  /\ \A x, y : TradeRow(x) = TradeRow(y) => x = y
  /\ \A x, y : ReservationKey(x) = ReservationKey(y) => x = y
  /\ \A x, y : ChoreRow(x) # TradeRow(y) /\ ChoreRow(x) # ReservationKey(y)
               /\ TradeRow(x) # ReservationKey(y)
BY DEF ChoreRow, TradeRow, ReservationKey

LEMMA Lockable ==
  /\ \A c \in Chores : ChoreRow(c) \in Resources /\ ReservationKey(c) \in Resources
  /\ \A t \in Trades : TradeRow(t) \in Resources
BY DEF Resources

LEMMA NoneIsNothing == None \notin Members /\ None \notin Trades /\ None \notin Chores
BY SetsAssumption

\* A transaction that is not open knows and holds nothing.
LEMMA IdleIsFine ==
  ASSUME now \in Nat
  PROVE  SessionOK(IdleTx)
<1>1. IdleTx \in TxState
  BY DEF IdleTx, TxState, PCs
<1>2. 0 <= now
  OBVIOUS
<1>3. IdleTx.at = 0 /\ IdleTx.pc = "idle" /\ IdleTx.locks = {} /\ IdleTx.hits = {}
  BY DEF IdleTx
<1>4. Assigned(IdleTx)
  BY <1>3 DEF Assigned, ProposePCs, AcceptPCs, ResolvedPCs, OverduePCs, VisitPCs
<1>5. Proposing(IdleTx) /\ Resolving(IdleTx) /\ Sweeping(IdleTx) /\ Reserving(IdleTx)
  BY <1>3 DEF Proposing, Resolving, Sweeping, Reserving, AcceptPCs, ResolvedPCs, OverduePCs
<1> QED BY <1>1, <1>2, <1>3, <1>4, <1>5 DEF SessionOK

LEMMA IdleFields ==
  /\ IdleTx \in TxState /\ IdleTx.pc = "idle" /\ IdleTx.at = 0 /\ IdleTx.locks = {}
  /\ IdleTx.trade = None /\ IdleTx.hits = {} /\ IdleTx.todo = {} /\ IdleTx.swept = {}
BY DEF IdleTx, TxState, PCs

\* The rows of a table, apart from the transactions.
RowsTyped ==
  /\ now \in Nat
  /\ chore \in [Chores -> ChoreRecord]
  /\ trade \in [Trades -> TradeRecord]
  /\ reservation \in [Chores -> Trades \cup {None}]
  /\ \A t \in Trades : trade[t].status # "absent" =>
       /\ trade[t].proposer \in Members /\ trade[t].responder \in Members \ {trade[t].proposer}
       /\ trade[t].offered \in Chores /\ trade[t].requested \in Chores \ {trade[t].offered}
       /\ \A c \in Sides(t) : trade[t].expires <= DueDay[c] + 1

LEMMA TypeParts ==
  TypeOK <=> RowsTyped /\ tx \in [Sessions -> TxState] /\ faults \in 0..MaxFaults
BY DEF TypeOK, RowsTyped

-----------------------------------------------------------------------------
(* Steps of one session that change no table. *)

\* What a transaction knows does not change with the tables unchanged.
LEMMA StillFine ==
  ASSUME NEW u \in Sessions, NEW r, tx'[u] = r, UNCHANGED <<now, tables>>, SessionOK(r)
  PROVE  SessionOK(tx[u])'
<1>1. now' = now /\ chore' = chore /\ trade' = trade /\ reservation' = reservation
  BY DEF tables
<1>2. (tx[u] \in TxState /\ tx[u].at <= now)'
  BY <1>1 DEF SessionOK
<1>3. Assigned(tx[u])'
  BY DEF SessionOK, Assigned
<1>4. \A c : Tradeable(c)' = Tradeable(c)
  BY <1>1 DEF Tradeable
<1>5. \A t : Live(t)' = Live(t) /\ Sides(t)' = Sides(t)
  BY <1>1 DEF Live, Sides
<1>6. Proposing(tx[u])'
  BY <1>1, <1>4, <1>5 DEF SessionOK, Proposing, LiveOn, Pair
<1>7. \A t, c : Swappable(t, c)' = Swappable(t, c)
  BY <1>1, <1>4 DEF Swappable, HeldByParty
<1>8. Resolving(tx[u])'
  BY <1>5, <1>7 DEF SessionOK, Resolving
<1>9. \A c, day : PastDue(c, day)' = PastDue(c, day) /\ Lapsed(c, day)' = Lapsed(c, day)
  BY <1>1, <1>5 DEF PastDue, Lapsed
<1>10. Sweeping(tx[u])'
  BY <1>9 DEF SessionOK, Sweeping
<1>11. Reserving(tx[u])'
  BY <1>1 DEF SessionOK, Reserving, Pair
<1> QED BY <1>2, <1>3, <1>6, <1>8, <1>10, <1>11 DEF SessionOK

\* What keeps the invariant when session s goes on to the record r.
LEMMA SessionMoves ==
  ASSUME IInv, NEW s \in Sessions, NEW r,
         tx' = [tx EXCEPT ![s] = r], UNCHANGED <<now, tables>>, faults' \in 0..MaxFaults,
         SessionOK(r),
         \A u \in Sessions \ {s} : r.locks \cap tx[u].locks = {},
         r.pc \in ProposePCs => trade[r.trade].status = "absent",
         \A u \in Sessions \ {s} : r.pc \in ProposePCs \/ tx[u].pc \in ProposePCs
                                   => tx[u].trade # r.trade
  PROVE  IInv'
<1>1. tx \in [Sessions -> TxState] /\ r \in TxState
  BY DEF IInv, TypeOK, SessionOK
<1>2. \A u \in Sessions : tx'[u] = IF u = s THEN r ELSE tx[u]
  BY <1>1
<1>3. now' = now /\ chore' = chore /\ trade' = trade /\ reservation' = reservation
  BY DEF tables
<1>4. TypeOK'
  <2>1. tx' \in [Sessions -> TxState]
    BY <1>1
  <2>2. TypeOK
    BY DEF IInv
  <2> QED BY <1>3, <2>1, <2>2 DEF TypeOK, Sides
<1>5. ReservationsMatchLive'
  BY <1>3 DEF IInv, ReservationsMatchLive, Live, Sides
<1>6. LockMutex'
  BY <1>2 DEF IInv, LockMutex
<1>7. FreshIds'
  BY <1>2, <1>3 DEF IInv, FreshIds
<1>8. ASSUME NEW u \in Sessions PROVE SessionOK(tx[u])'
  <2>1. CASE u = s
    BY <1>2, <2>1, StillFine
  <2>2. CASE u # s
    <3>1. SessionOK(tx[u]) /\ tx'[u] = tx[u]
      BY <1>2, <2>2 DEF IInv
    <3> QED BY <3>1, StillFine
  <2> QED BY <2>1, <2>2
<1> QED BY <1>4, <1>5, <1>6, <1>7, <1>8 DEF IInv
\* A statement goes on: the transaction may have added what it wanted to its
\* locks, and has the trade it had, or none.
LEMMA Proceeds ==
  ASSUME IInv, NEW s \in Sessions, NEW r,
         tx' = [tx EXCEPT ![s] = r], UNCHANGED <<now, tables>>, faults' \in 0..MaxFaults,
         SessionOK(r),
         \/ r.locks \subseteq tx[s].locks
         \/ Blockers(s) = {} /\ r.locks \subseteq tx[s].locks \cup Wants(s),
         r.trade \in {tx[s].trade, None},
         r.pc \in ProposePCs => tx[s].pc \in ProposePCs /\ r.trade = tx[s].trade
  PROVE  IInv'
<1>1. \A u \in Sessions \ {s} : r.locks \cap tx[u].locks = {}
  <2>1. \A u \in Sessions \ {s} : tx[s].locks \cap tx[u].locks = {}
    BY DEF IInv, LockMutex
  <2>2. Blockers(s) = {} => \A u \in Sessions \ {s} : Wants(s) \cap tx[u].locks = {}
    BY DEF Blockers
  <2> QED BY <2>1, <2>2
<1>2. r.pc \in ProposePCs => trade[r.trade].status = "absent"
  BY DEF IInv, FreshIds
<1>3. \A u \in Sessions \ {s} : tx[u].pc \in ProposePCs => tx[u].trade \in Trades
  BY DEF IInv, SessionOK, Assigned
<1>4. \A u \in Sessions \ {s} : r.pc \in ProposePCs \/ tx[u].pc \in ProposePCs
                              => tx[u].trade # r.trade
  BY <1>3, NoneIsNothing DEF IInv, FreshIds
<1> QED BY <1>1, <1>2, <1>4, SessionMoves

LEMMA FaultsStay == ASSUME IInv, UNCHANGED faults PROVE faults' \in 0..MaxFaults
BY DEF IInv, TypeOK

\* What is known of a session.
LEMMA Known ==
  ASSUME IInv, NEW s \in Sessions
  PROVE  /\ SessionOK(tx[s]) /\ tx[s] \in TxState /\ tx[s].at <= now
         /\ Assigned(tx[s]) /\ Proposing(tx[s]) /\ Resolving(tx[s])
         /\ Sweeping(tx[s]) /\ Reserving(tx[s])
BY DEF IInv, SessionOK

LEMMA GoesIdle ==
  ASSUME IInv, NEW s \in Sessions, faults' \in 0..MaxFaults,
         tx' = [tx EXCEPT ![s] = IdleTx], UNCHANGED <<now, tables>>
  PROVE  IInv'
<1>1. IdleTx.locks = {} /\ IdleTx.trade = None /\ IdleTx.pc = "idle"
  BY DEF IdleTx
<1>2. IdleTx.pc \notin ProposePCs
  BY <1>1 DEF ProposePCs
<1>3. SessionOK(IdleTx)
  BY IdleIsFine DEF IInv, TypeOK
<1> QED BY <1>1, <1>2, <1>3, Proceeds

\* The next step of a scheduler's cycle, after one that failed or committed.
LEMMA NextInCycleIsFine ==
  ASSUME IInv, NEW s \in Sessions
  PROVE  SessionOK(NextInCycle(s))
<1> DEFINE r == NextInCycle(s)
<1>1. tx[s].at \in Nat /\ tx[s].at <= now
  BY Known DEF TxState
<1>2. "expire: sweep" \in PCs
  BY DEF PCs
<1>3. r \in TxState
  BY <1>1, <1>2, IdleFields, ZenonT(60) DEF NextInCycle, TxState
<1>4. r.at = tx[s].at /\ r.pc = "expire: sweep" /\ r.locks = {} /\ r.hits = {}
  BY IdleFields DEF NextInCycle, TxState
<1>5. r.at <= now
  BY <1>1, <1>4
<1> HIDE DEF r
<1>6. Assigned(r)
  BY <1>4 DEF Assigned, ProposePCs, AcceptPCs, ResolvedPCs, OverduePCs, VisitPCs
<1>7. Proposing(r) /\ Resolving(r) /\ Sweeping(r) /\ Reserving(r)
  BY <1>4 DEF Proposing, Resolving, Sweeping, Reserving, AcceptPCs, ResolvedPCs, OverduePCs
<1>8. SessionOK(r)
  BY <1>3, <1>5, <1>6, <1>7 DEF SessionOK
<1> QED BY <1>8 DEF r

LEMMA GoesOnInCycle ==
  ASSUME IInv, NEW s \in Sessions, faults' \in 0..MaxFaults,
         tx' = [tx EXCEPT ![s] = NextInCycle(s)], UNCHANGED <<now, tables>>
  PROVE  IInv'
<1>1. /\ NextInCycle(s).locks = {} /\ NextInCycle(s).trade = None
      /\ NextInCycle(s).pc = "expire: sweep"
  BY DEF NextInCycle, IdleTx
<1>2. NextInCycle(s).pc \notin ProposePCs
  BY <1>1 DEF ProposePCs
<1> QED BY <1>1, <1>2, NextInCycleIsFine, Proceeds

-----------------------------------------------------------------------------
(* Failures and beginnings. *)

LEMMA FailsKeeps ==
  ASSUME IInv, NEW s \in Sessions, faults' \in 0..MaxFaults, Fails(s)
  PROVE  IInv'
BY GoesIdle, GoesOnInCycle DEF Fails

LEMMA FaultKeeps ==
  ASSUME IInv, NEW s \in Sessions, Fault(s)
  PROVE  IInv'
<1>1. faults \in 0..MaxFaults
  BY DEF IInv, TypeOK
<1>2. faults' \in 0..MaxFaults
  BY <1>1, FailAssumption DEF Fault
<1> QED BY <1>2, FailsKeeps, GoesIdle DEF Fault

LEMMA VictimKeeps ==
  ASSUME IInv, NEW s \in Sessions, DeadlockVictim(s)
  PROVE  IInv'
BY FailsKeeps, FaultsStay DEF DeadlockVictim

\* A transaction begins: it holds nothing, and its trade, if it has one, is
\* either in the table or nobody else's.
LEMMA Begins ==
  ASSUME IInv, NEW s \in Sessions, NEW r,
         tx' = [tx EXCEPT ![s] = r], UNCHANGED <<now, tables, faults>>,
         SessionOK(r), r.locks = {},
         r.pc \in ProposePCs =>
           trade[r.trade].status = "absent" /\ \A u \in Sessions : tx[u].trade # r.trade,
         r.pc \notin ProposePCs => r.trade = None \/ trade[r.trade].status # "absent"
  PROVE  IInv'
<1>1. \A u \in Sessions \ {s} : tx[u].pc \in ProposePCs =>
        tx[u].trade \in Trades /\ trade[tx[u].trade].status = "absent"
  BY DEF IInv, SessionOK, Assigned, FreshIds
<1>2. \A u \in Sessions \ {s} : r.pc \in ProposePCs \/ tx[u].pc \in ProposePCs
                              => tx[u].trade # r.trade
  BY <1>1, NoneIsNothing
<1> QED BY <1>2, FaultsStay, SessionMoves

LEMMA ProposeBeginKeeps ==
  ASSUME IInv, NEW s \in Sessions, ProposeBegin(s)
  PROVE  IInv'
<1> DEFINE r(t, m, n, a, b, c) ==
      [IdleTx EXCEPT !.pc = "propose: lock", !.trade = t,
                     !.proposer = m, !.responder = n, !.offered = a, !.requested = b,
                     !.row = c, !.todo = {a, b}]
<1>1. PICK t \in Trades, m \in Members, n \in Members, a \in Chores, b \in Chores :
        /\ m # n /\ a # b
        /\ trade[t].status = "absent" /\ \A u \in Sessions : tx[u].trade # t
        /\ \E c \in LowestRow({a, b}) : Run(s, r(t, m, n, a, b, c))
        /\ UNCHANGED <<now, tables, faults>>
  BY ZenonT(60) DEF ProposeBegin
<1>2. PICK c \in {a, b} : (\A d \in {a, b} : c <= d) /\ Run(s, r(t, m, n, a, b, c))
  BY <1>1 DEF LowestRow
<1> DEFINE q == r(t, m, n, a, b, c)
<1>3. tx' = [tx EXCEPT ![s] = q]
  BY <1>2 DEF Run
<1>4. now \in Nat /\ 0 <= now
  BY DEF IInv, TypeOK
<1>5. "propose: lock" \in PCs
  BY DEF PCs
<1>6. q \in TxState
  BY <1>5, IdleFields, ZenonT(60) DEF TxState
<1>7. /\ q.at = 0 /\ q.pc = "propose: lock" /\ q.locks = {} /\ q.hits = {} /\ q.todo = {a, b}
      /\ q.row = c /\ q.trade = t /\ q.proposer = m /\ q.responder = n
      /\ q.offered = a /\ q.requested = b
  BY IdleFields DEF TxState
<1> HIDE DEF q
<1>8. Assigned(q)
  BY <1>1, <1>7 DEF Assigned, ProposePCs, AcceptPCs, ResolvedPCs, OverduePCs, VisitPCs
<1>9. Pair(q) \ q.todo = {}
  BY <1>7 DEF Pair
<1>10. Proposing(q)
  BY <1>2, <1>7, <1>9 DEF Proposing, Pair
<1>11. Resolving(q) /\ Sweeping(q) /\ Reserving(q)
  BY <1>7 DEF Resolving, Sweeping, Reserving, AcceptPCs, ResolvedPCs, OverduePCs
<1>12. SessionOK(q)
  BY <1>4, <1>6, <1>7, <1>8, <1>10, <1>11 DEF SessionOK
<1>13. q.pc \in ProposePCs
  BY <1>7 DEF ProposePCs
<1> QED BY <1>1, <1>3, <1>7, <1>12, <1>13, Begins

\* A record that only says where its transaction is.
LEMMA FreshRecord ==
  ASSUME now \in Nat, NEW r \in TxState, r.at <= now,
         r.pc \in {"accept: resolve", "decline: resolve", "overdue: begin"},
         r.pc \in {"accept: resolve", "decline: resolve"} => r.trade \in Trades,
         r.locks = {}, r.hits = {}
  PROVE  SessionOK(r) /\ r.pc \notin ProposePCs
<1>1. Assigned(r) /\ r.pc \notin ProposePCs
  BY DEF Assigned, ProposePCs, AcceptPCs, ResolvedPCs, OverduePCs, VisitPCs
<1>2. Proposing(r) /\ Resolving(r) /\ Sweeping(r) /\ Reserving(r)
  BY DEF Proposing, Resolving, Sweeping, Reserving, AcceptPCs, ResolvedPCs, OverduePCs
<1> QED BY <1>1, <1>2 DEF SessionOK

LEMMA AcceptBeginKeeps ==
  ASSUME IInv, NEW s \in Sessions, AcceptBegin(s)
  PROVE  IInv'
<1>1. PICK t \in Trades, m \in Members :
        /\ trade[t].status # "absent"
        /\ Run(s, [IdleTx EXCEPT !.pc = "accept: resolve", !.trade = t,
                                 !.responder = m, !.at = now])
        /\ UNCHANGED <<now, tables, faults>>
  BY DEF AcceptBegin
<1> DEFINE r == [IdleTx EXCEPT !.pc = "accept: resolve", !.trade = t, !.responder = m, !.at = now]
<1>2. now \in Nat /\ now <= now /\ "accept: resolve" \in PCs
  BY DEF IInv, TypeOK, PCs
<1>3. r \in TxState
  BY <1>2, IdleFields, ZenonT(60) DEF TxState
<1>4. r.at = now /\ r.pc = "accept: resolve" /\ r.locks = {} /\ r.hits = {} /\ r.trade = t
  BY IdleFields DEF TxState
<1>5. tx' = [tx EXCEPT ![s] = r]
  BY <1>1 DEF Run
<1> HIDE DEF r
<1>6. SessionOK(r) /\ r.pc \notin ProposePCs
  BY <1>2, <1>3, <1>4, FreshRecord
<1> QED BY <1>1, <1>4, <1>5, <1>6, Begins

LEMMA DeclineBeginKeeps ==
  ASSUME IInv, NEW s \in Sessions, DeclineBegin(s)
  PROVE  IInv'
<1>1. PICK t \in Trades, m \in Members :
        /\ trade[t].status # "absent"
        /\ Run(s, [IdleTx EXCEPT !.pc = "decline: resolve", !.trade = t, !.responder = m])
        /\ UNCHANGED <<now, tables, faults>>
  BY DEF DeclineBegin
<1> DEFINE r == [IdleTx EXCEPT !.pc = "decline: resolve", !.trade = t, !.responder = m]
<1>2. now \in Nat /\ 0 <= now /\ "decline: resolve" \in PCs
  BY DEF IInv, TypeOK, PCs
<1>3. r \in TxState
  BY <1>2, IdleFields, ZenonT(60) DEF TxState
<1>4. r.at = 0 /\ r.pc = "decline: resolve" /\ r.locks = {} /\ r.hits = {} /\ r.trade = t
  BY IdleFields DEF TxState
<1>5. tx' = [tx EXCEPT ![s] = r]
  BY <1>1 DEF Run
<1> HIDE DEF r
<1>6. SessionOK(r) /\ r.pc \notin ProposePCs
  BY <1>2, <1>3, <1>4, FreshRecord
<1> QED BY <1>1, <1>4, <1>5, <1>6, Begins

LEMMA CycleBeginKeeps ==
  ASSUME IInv, NEW s \in Sessions, CycleBegin(s)
  PROVE  IInv'
<1> DEFINE r == [IdleTx EXCEPT !.pc = "overdue: begin", !.at = now]
<1>1. now \in Nat /\ now <= now /\ "overdue: begin" \in PCs
  BY DEF IInv, TypeOK, PCs
<1>2. r \in TxState
  BY <1>1, IdleFields, ZenonT(60) DEF TxState
<1>3. r.at = now /\ r.pc = "overdue: begin" /\ r.locks = {} /\ r.hits = {} /\ r.trade = None
  BY IdleFields DEF TxState
<1>4. tx' = [tx EXCEPT ![s] = r] /\ UNCHANGED <<now, tables, faults>>
  BY DEF CycleBegin, Run
<1> HIDE DEF r
<1>5. SessionOK(r) /\ r.pc \notin ProposePCs
  BY <1>1, <1>2, <1>3, FreshRecord
<1> QED BY <1>3, <1>4, <1>5, Begins
-----------------------------------------------------------------------------
(* Propose, up to its commit. *)

LEMMA WantsRow ==
  ASSUME IInv, NEW s \in Sessions, tx[s].pc \in VisitPCs
  PROVE  /\ tx[s].row \in tx[s].todo /\ tx[s].row \in Chores
         /\ tx[s].todo \subseteq Chores /\ Rest(s) \subseteq Chores
         /\ Wants(s) = {ChoreRow(tx[s].row)} /\ Wants(s) \subseteq Resources
<1>1. tx[s].row \in tx[s].todo
  BY Known DEF Assigned
<1>2. tx[s].todo \subseteq Chores
  BY Known DEF TxState
<1>3. Wants(s) = {ChoreRow(tx[s].row)}
  BY DEF Wants, VisitPCs
<1> QED BY <1>1, <1>2, <1>3, Lockable DEF Rest

\* The record after a visit: to the statement after, or to the next row.
GoesTo(r, p, L)      == [[r EXCEPT !.pc = p, !.row = None, !.todo = {}] EXCEPT !.locks = @ \cup L]
GoesOver(r, c, T, L) == [[r EXCEPT !.row = c, !.todo = T] EXCEPT !.locks = @ \cup L]

LEMMA GoesToFields ==
  ASSUME NEW r \in TxState, NEW p \in PCs, NEW L \in SUBSET Resources, NEW q,
         q = GoesTo(r, p, L)
  PROVE  /\ q \in TxState
         /\ q.pc = p /\ q.row = None /\ q.todo = {} /\ q.locks = r.locks \cup L
         /\ q.trade = r.trade /\ q.proposer = r.proposer /\ q.responder = r.responder
         /\ q.offered = r.offered /\ q.requested = r.requested
         /\ q.at = r.at /\ q.hits = r.hits /\ q.swept = r.swept
<1> DEFINE a == [r EXCEPT !.pc = p, !.row = None, !.todo = {}]
<1>1. /\ a \in TxState
      /\ a.pc = p /\ a.row = None /\ a.todo = {} /\ a.locks = r.locks
      /\ a.trade = r.trade /\ a.proposer = r.proposer /\ a.responder = r.responder
      /\ a.offered = r.offered /\ a.requested = r.requested
      /\ a.at = r.at /\ a.hits = r.hits /\ a.swept = r.swept
  BY ZenonT(60) DEF TxState
<1>2. q = [a EXCEPT !.locks = @ \cup L]
  BY DEF GoesTo
<1> HIDE DEF a
<1> QED BY <1>1, <1>2 DEF TxState

LEMMA GoesOverFields ==
  ASSUME NEW r \in TxState, NEW c \in Chores, NEW T \in SUBSET Chores,
         NEW L \in SUBSET Resources, NEW q, q = GoesOver(r, c, T, L)
  PROVE  /\ q \in TxState
         /\ q.pc = r.pc /\ q.row = c /\ q.todo = T /\ q.locks = r.locks \cup L
         /\ q.trade = r.trade /\ q.proposer = r.proposer /\ q.responder = r.responder
         /\ q.offered = r.offered /\ q.requested = r.requested
         /\ q.at = r.at /\ q.hits = r.hits /\ q.swept = r.swept
<1> DEFINE a == [r EXCEPT !.row = c, !.todo = T]
<1>1. /\ a \in TxState
      /\ a.pc = r.pc /\ a.row = c /\ a.todo = T /\ a.locks = r.locks
      /\ a.trade = r.trade /\ a.proposer = r.proposer /\ a.responder = r.responder
      /\ a.offered = r.offered /\ a.requested = r.requested
      /\ a.at = r.at /\ a.hits = r.hits /\ a.swept = r.swept
  BY ZenonT(60) DEF TxState
<1>2. q = [a EXCEPT !.locks = @ \cup L]
  BY DEF GoesOver
<1> HIDE DEF a
<1> QED BY <1>1, <1>2 DEF TxState

\* A visit: the row is locked, the record is r at what comes next.
LEMMA Visited ==
  ASSUME IInv, NEW s \in Sessions, tx[s].pc \in VisitPCs,
         NEW r \in TxState, NEW next \in SUBSET Rest(s), NEW after \in PCs,
         Visit(s, r, next, after)
  PROVE  \E q \in TxState :
           /\ tx' = [tx EXCEPT ![s] = q] /\ Blockers(s) = {}
           /\ q.locks = r.locks \cup {ChoreRow(tx[s].row)}
           /\ q.todo = Rest(s)
           /\ \/ Rest(s) = {} /\ q.pc = after
              \/ q.row \in next /\ q.pc = r.pc
           /\ q.trade = r.trade /\ q.proposer = r.proposer /\ q.responder = r.responder
           /\ q.offered = r.offered /\ q.requested = r.requested
           /\ q.at = r.at /\ q.hits = r.hits /\ q.swept = r.swept
<1>1. Wants(s) \subseteq Resources /\ Rest(s) \subseteq Chores /\ Wants(s) = {ChoreRow(tx[s].row)}
  BY WantsRow
<1>2. CASE Rest(s) = {} /\ Acquire(s, [r EXCEPT !.pc = after, !.row = None, !.todo = {}])
  <2> DEFINE q == [[r EXCEPT !.pc = after, !.row = None, !.todo = {}] EXCEPT !.locks = @ \cup Wants(s)]
  <2>1. tx' = [tx EXCEPT ![s] = q] /\ Blockers(s) = {}
    BY <1>2 DEF Acquire, Run
  <2>2. /\ q \in TxState
        /\ q.pc = after /\ q.todo = {} /\ q.locks = r.locks \cup Wants(s)
        /\ q.trade = r.trade /\ q.proposer = r.proposer /\ q.responder = r.responder
        /\ q.offered = r.offered /\ q.requested = r.requested
        /\ q.at = r.at /\ q.hits = r.hits /\ q.swept = r.swept
    <3>1. q = GoesTo(r, after, Wants(s)) /\ Wants(s) \in SUBSET Resources
      BY <1>1 DEF GoesTo
    <3> HIDE DEF q
    <3> QED BY ONLY r \in TxState, after \in PCs, <3>1, GoesToFields
  <2> HIDE DEF q
  <2> QED BY <1>1, <1>2, <2>1, <2>2
<1>3. CASE \E c \in next : Acquire(s, [r EXCEPT !.row = c, !.todo = Rest(s)])
  <2>1. PICK c \in next : Acquire(s, [r EXCEPT !.row = c, !.todo = Rest(s)])
    BY <1>3
  <2> DEFINE q == [[r EXCEPT !.row = c, !.todo = Rest(s)] EXCEPT !.locks = @ \cup Wants(s)]
  <2>2. tx' = [tx EXCEPT ![s] = q] /\ Blockers(s) = {}
    BY <2>1 DEF Acquire, Run
  <2>3. c \in Chores /\ r.pc \in PCs
    BY <1>1 DEF TxState
  <2>4. /\ q \in TxState
        /\ q.pc = r.pc /\ q.row = c /\ q.todo = Rest(s) /\ q.locks = r.locks \cup Wants(s)
        /\ q.trade = r.trade /\ q.proposer = r.proposer /\ q.responder = r.responder
        /\ q.offered = r.offered /\ q.requested = r.requested
        /\ q.at = r.at /\ q.hits = r.hits /\ q.swept = r.swept
    <3>1. q = GoesOver(r, c, Rest(s), Wants(s)) /\ Wants(s) \in SUBSET Resources
      BY <1>1 DEF GoesOver
    <3>2. Rest(s) \in SUBSET Chores
      BY <1>1
    <3> HIDE DEF q
    <3> QED BY ONLY r \in TxState, <2>3, <3>1, <3>2, GoesOverFields
  <2> HIDE DEF q
  <2> QED BY <1>1, <2>2, <2>4
<1> QED BY <1>2, <1>3 DEF Visit

\* One more of the two rows is locked, the lower ones first.
LEMMA ProposeLockKeeps ==
  ASSUME IInv, NEW s \in Sessions, ProposeLock(s)
  PROVE  IInv'
<1> DEFINE r == tx[s]  row == tx[s].row
<1>1. r.pc = "propose: lock" /\ r.pc \in VisitPCs /\ r.pc \in ProposePCs /\ r \in TxState
  BY Known DEF ProposeLock, VisitPCs, ProposePCs
<1>2. LowestRow(Rest(s)) \in SUBSET Rest(s) /\ "propose: check" \in PCs
  BY DEF LowestRow, PCs
<1>3. PICK q \in TxState :
           /\ tx' = [tx EXCEPT ![s] = q] /\ Blockers(s) = {}
           /\ q.locks = r.locks \cup {ChoreRow(row)}
           /\ q.todo = Rest(s)
           /\ \/ Rest(s) = {} /\ q.pc = "propose: check"
              \/ q.row \in LowestRow(Rest(s)) /\ q.pc = r.pc
           /\ q.trade = r.trade /\ q.proposer = r.proposer /\ q.responder = r.responder
           /\ q.offered = r.offered /\ q.requested = r.requested
           /\ q.at = r.at /\ q.hits = r.hits /\ q.swept = r.swept
  BY <1>1, <1>2, Visited DEF ProposeLock
<1>4. row \in r.todo /\ r.todo \subseteq Chores /\ Rest(s) = r.todo \ {row} /\ Wants(s) = {ChoreRow(row)}
  BY <1>1, WantsRow DEF Rest
<1>5. /\ r.todo \subseteq Pair(r) /\ r.locks = {ChoreRow(c) : c \in Pair(r) \ r.todo}
      /\ \A c \in r.todo : row <= c
      /\ \A c \in Pair(r) \ r.todo, d \in r.todo : c < d
  BY <1>1, Known DEF Proposing
<1>6. Pair(q) = Pair(r) /\ Pair(q) \subseteq Chores
  BY <1>1, <1>3, Known, ZenonT(60) DEF Pair, Assigned
<1>7. q.locks = {ChoreRow(c) : c \in Pair(q) \ q.todo}
  <2>1. Pair(q) \ q.todo = (Pair(r) \ r.todo) \cup {row}
    BY <1>3, <1>4, <1>5, <1>6, ZenonT(60)
  <2>2. q.locks = {ChoreRow(c) : c \in Pair(r) \ r.todo} \cup {ChoreRow(row)}
    BY <1>3, <1>5
  <2> QED BY ONLY <2>1, <2>2
<1>8. \A c \in Pair(q) \ q.todo, d \in q.todo : c < d
  <2> SUFFICES ASSUME NEW c \in Pair(q) \ q.todo, NEW d \in q.todo PROVE c < d
    OBVIOUS
  <2>1. d \in r.todo /\ d # row /\ row <= d
    BY <1>3, <1>4, <1>5
  <2>2. c \in Nat /\ d \in Nat /\ row \in Nat
    BY <1>4, <1>6, <2>1, SetsAssumption
  <2>3. CASE c = row
    BY <2>1, <2>2, <2>3
  <2>4. CASE c # row
    BY <1>3, <1>4, <1>5, <1>6, <2>1, <2>4
  <2> QED BY <2>3, <2>4
<1>9. q.pc = "propose: lock" \/ q.pc = "propose: check"
  BY <1>1, <1>3
<1>10. q.pc = "propose: lock" => q.row \in q.todo /\ \A c \in q.todo : q.row <= c
  BY <1>3 DEF LowestRow
<1>11. q.pc = "propose: check" => q.todo = {}
  BY <1>1, <1>3
<1>12. Proposing(q)
  <2>1. q.pc = "propose: check" => Pair(q) \ q.todo = Pair(q)
    BY <1>11
  <2> QED BY <1>3, <1>4, <1>5, <1>6, <1>7, <1>8, <1>9, <1>10, <2>1 DEF Proposing
<1>13. q.hits = {} /\ r.hits = {}
  BY <1>1, <1>3, Known DEF Assigned, AcceptPCs, OverduePCs
<1>14. Assigned(q)
  BY <1>1, <1>3, <1>9, <1>10, <1>13, Known
     DEF Assigned, ProposePCs, AcceptPCs, ResolvedPCs, OverduePCs, VisitPCs
<1>15. Resolving(q) /\ Sweeping(q)
  BY <1>9 DEF Resolving, Sweeping, AcceptPCs, ResolvedPCs, OverduePCs
<1>16. Reserving(q)
  BY <1>7, Distinct DEF Reserving
<1>17. SessionOK(q)
  BY <1>3, <1>12, <1>14, <1>15, <1>16, Known DEF SessionOK
<1>18. q.pc \in ProposePCs
  BY <1>9 DEF ProposePCs
<1>19. UNCHANGED <<now, tables, faults>>
  BY DEF ProposeLock
<1> HIDE DEF r, row
<1> QED BY <1>1, <1>3, <1>4, <1>17, <1>18, <1>19, FaultsStay, Proceeds DEF r
LEMMA ProposeCheckKeeps ==
  ASSUME IInv, NEW s \in Sessions, ProposeCheck(s)
  PROVE  IInv'
<1> DEFINE r == tx[s]  q == [tx[s] EXCEPT !.pc = "propose: insert"]
<1>1. r.pc = "propose: check" /\ r \in TxState /\ UNCHANGED <<now, tables, faults>>
  BY Known DEF ProposeCheck
<1>2. CASE ~Valid(r)
  BY <1>1, <1>2, GoesIdle, FaultsStay DEF ProposeCheck, Run
<1>3. CASE Valid(r)
  <2>1. tx' = [tx EXCEPT ![s] = q]
    BY <1>3 DEF ProposeCheck, Run
  <2>2. "propose: insert" \in PCs
    BY DEF PCs
  <2>3. /\ q \in TxState /\ q.pc = "propose: insert"
        /\ q.trade = r.trade /\ q.proposer = r.proposer /\ q.responder = r.responder
        /\ q.offered = r.offered /\ q.requested = r.requested
        /\ q.at = r.at /\ q.hits = r.hits /\ q.locks = r.locks
    BY <1>1, <2>2 DEF TxState
  <2>4. /\ Tradeable(r.offered) /\ chore[r.offered].assignee = r.proposer
        /\ Tradeable(r.requested) /\ chore[r.requested].assignee = r.responder
        /\ ~LiveOn(Pair(r))
    BY <1>3 DEF Valid, LiveProposal, Pair
  <2> HIDE DEF q
  <2>5. Pair(q) = Pair(r)
    BY <2>3 DEF Pair
  <2>6. r.locks = {ChoreRow(c) : c \in Pair(r)} /\ r.hits = {}
    BY <1>1, Known DEF Proposing, Assigned, AcceptPCs, OverduePCs
  <2>7. Proposing(q)
    BY <2>3, <2>4, <2>5, <2>6 DEF Proposing
  <2>8. Assigned(q)
    BY <1>1, <2>3, <2>6, Known
       DEF Assigned, ProposePCs, AcceptPCs, ResolvedPCs, OverduePCs, VisitPCs
  <2>9. Resolving(q) /\ Sweeping(q)
    BY <2>3 DEF Resolving, Sweeping, AcceptPCs, ResolvedPCs, OverduePCs
  <2>10. Reserving(q)
    <3>1. \A c : ReservationKey(c) \notin {ChoreRow(d) : d \in Pair(r)}
      BY Distinct
    <3> QED BY ONLY <2>3, <2>6, <3>1 DEF Reserving
  <2>11. SessionOK(q)
    BY <2>3, <2>7, <2>8, <2>9, <2>10, Known DEF SessionOK
  <2>12. q.pc \in ProposePCs /\ r.pc \in ProposePCs
    BY <1>1, <2>3 DEF ProposePCs
  <2> QED BY <1>1, <2>1, <2>3, <2>11, <2>12, FaultsStay, Proceeds
<1> QED BY <1>2, <1>3

\* An acquiring step with no row to visit.
GoesAt(r, p, L) == [[r EXCEPT !.pc = p] EXCEPT !.locks = @ \cup L]

LEMMA AcquireFields ==
  ASSUME NEW r \in TxState, NEW p \in PCs, NEW L \in SUBSET Resources, NEW q,
         q = GoesAt(r, p, L)
  PROVE  /\ q \in TxState /\ q.pc = p /\ q.locks = r.locks \cup L
         /\ q.trade = r.trade /\ q.proposer = r.proposer /\ q.responder = r.responder
         /\ q.offered = r.offered /\ q.requested = r.requested
         /\ q.at = r.at /\ q.hits = r.hits
<1> DEFINE a == [r EXCEPT !.pc = p]
<1>1. /\ a \in TxState /\ a.pc = p /\ a.locks = r.locks
      /\ a.trade = r.trade /\ a.proposer = r.proposer /\ a.responder = r.responder
      /\ a.offered = r.offered /\ a.requested = r.requested
      /\ a.at = r.at /\ a.hits = r.hits
  BY DEF TxState
<1>2. q = [a EXCEPT !.locks = @ \cup L]
  BY DEF GoesAt
<1> HIDE DEF a
<1> QED BY <1>1, <1>2 DEF TxState

LEMMA Acquires ==
  ASSUME IInv, NEW s \in Sessions, NEW p \in PCs, Wants(s) \subseteq Resources,
         Acquire(s, [tx[s] EXCEPT !.pc = p])
  PROVE  \E q \in TxState :
           /\ tx' = [tx EXCEPT ![s] = q] /\ Blockers(s) = {}
           /\ q.pc = p /\ q.locks = tx[s].locks \cup Wants(s)
           /\ q.trade = tx[s].trade
           /\ q.proposer = tx[s].proposer /\ q.responder = tx[s].responder
           /\ q.offered = tx[s].offered /\ q.requested = tx[s].requested
           /\ q.at = tx[s].at /\ q.hits = tx[s].hits
<1> DEFINE q == [[tx[s] EXCEPT !.pc = p] EXCEPT !.locks = @ \cup Wants(s)]
<1>1. tx' = [tx EXCEPT ![s] = q] /\ Blockers(s) = {}
  BY DEF Acquire, Run
<1>2. tx[s] \in TxState /\ Wants(s) \in SUBSET Resources
  BY Known
<1>3. q = GoesAt(tx[s], p, Wants(s))
  BY DEF GoesAt
<1> HIDE DEF q
<1>4. /\ q \in TxState /\ q.pc = p /\ q.locks = tx[s].locks \cup Wants(s)
      /\ q.trade = tx[s].trade
      /\ q.proposer = tx[s].proposer /\ q.responder = tx[s].responder
      /\ q.offered = tx[s].offered /\ q.requested = tx[s].requested
      /\ q.at = tx[s].at /\ q.hits = tx[s].hits
  BY ONLY p \in PCs, <1>2, <1>3, AcquireFields
<1> QED BY <1>1, <1>4

LEMMA ProposeInsertKeeps ==
  ASSUME IInv, NEW s \in Sessions, ProposeInsert(s)
  PROVE  IInv'
<1> DEFINE r == tx[s]
<1>1. r.pc = "propose: insert" /\ r \in TxState /\ UNCHANGED <<now, tables, faults>>
  BY Known DEF ProposeInsert
<1>2. /\ r.trade \in Trades /\ r.proposer \in Members /\ r.responder \in Members \ {r.proposer}
      /\ r.offered \in Chores /\ r.requested \in Chores \ {r.offered} /\ r.hits = {}
  BY <1>1, Known DEF Assigned, ProposePCs, AcceptPCs, OverduePCs
<1>3. Wants(s) = {ReservationKey(c) : c \in Pair(r)} /\ Wants(s) \subseteq Resources
  BY <1>1, <1>2, Lockable DEF Wants, Pair
<1>4. "propose: commit" \in PCs
  BY DEF PCs
<1>5. PICK q \in TxState :
           /\ tx' = [tx EXCEPT ![s] = q] /\ Blockers(s) = {}
           /\ q.pc = "propose: commit" /\ q.locks = r.locks \cup Wants(s)
           /\ q.trade = r.trade
           /\ q.proposer = r.proposer /\ q.responder = r.responder
           /\ q.offered = r.offered /\ q.requested = r.requested
           /\ q.at = r.at /\ q.hits = r.hits
  BY <1>3, <1>4, Acquires, ZenonT(60) DEF ProposeInsert
<1>6. Pair(q) = Pair(r)
  BY <1>5 DEF Pair
<1>7. /\ r.locks = {ChoreRow(c) : c \in Pair(r)}
      /\ Tradeable(r.offered) /\ chore[r.offered].assignee = r.proposer
      /\ Tradeable(r.requested) /\ chore[r.requested].assignee = r.responder
      /\ ~LiveOn(Pair(r))
  BY <1>1, Known DEF Proposing
<1>8. Proposing(q)
  BY <1>3, <1>5, <1>6, <1>7 DEF Proposing
<1>9. Assigned(q)
  BY <1>2, <1>5 DEF Assigned, ProposePCs, AcceptPCs, ResolvedPCs, OverduePCs, VisitPCs
<1>10. Resolving(q) /\ Sweeping(q)
  BY <1>5 DEF Resolving, Sweeping, AcceptPCs, ResolvedPCs, OverduePCs
<1>11. Reserving(q)
  BY <1>3, <1>5, <1>6, <1>7, Distinct, ZenonT(60) DEF Reserving
<1>12. SessionOK(q)
  BY <1>5, <1>8, <1>9, <1>10, <1>11, Known DEF SessionOK
<1>13. q.pc \in ProposePCs /\ r.pc \in ProposePCs
  BY <1>1, <1>5 DEF ProposePCs
<1> QED BY <1>1, <1>5, <1>12, <1>13, FaultsStay, Proceeds
-----------------------------------------------------------------------------
(* Accept and Decline, up to their commits. *)

LEMMA WantsTrade ==
  ASSUME IInv, NEW s \in Sessions, tx[s].pc \in {"accept: resolve", "decline: resolve"},
         Live(tx[s].trade)
  PROVE  /\ tx[s].trade \in Trades /\ Wants(s) \subseteq Resources
         /\ Wants(s) = {TradeRow(tx[s].trade)} \cup {ReservationKey(c) : c \in Freed({tx[s].trade})}
<1>1. tx[s].trade \in Trades
  BY Known DEF Assigned
<1>2. Wants(s) = {TradeRow(tx[s].trade)} \cup {ReservationKey(c) : c \in Freed({tx[s].trade})}
  BY DEF Wants
<1> QED BY <1>1, <1>2, Lockable DEF Freed

LEMMA ResolveAcquires ==
  ASSUME IInv, NEW s \in Sessions, tx[s].pc \in {"accept: resolve", "decline: resolve"},
         NEW p \in {"accept: swap", "decline: commit"}, Live(tx[s].trade),
         Acquire(s, [tx[s] EXCEPT !.pc = p]), UNCHANGED <<now, tables, faults>>
  PROVE  IInv'
<1> DEFINE r == tx[s]
<1>1. p \in PCs
  BY DEF PCs
<1>2. /\ r.trade \in Trades /\ Wants(s) \subseteq Resources
      /\ Wants(s) = {TradeRow(r.trade)} \cup {ReservationKey(c) : c \in Freed({r.trade})}
  BY WantsTrade
<1>3. PICK q \in TxState :
           /\ tx' = [tx EXCEPT ![s] = q] /\ Blockers(s) = {}
           /\ q.pc = p /\ q.locks = r.locks \cup Wants(s)
           /\ q.trade = r.trade
           /\ q.proposer = r.proposer /\ q.responder = r.responder
           /\ q.offered = r.offered /\ q.requested = r.requested
           /\ q.at = r.at /\ q.hits = r.hits
  BY <1>1, <1>2, Acquires
<1>4. r.hits = {} /\ r.pc # "propose: commit"
  BY Known DEF Assigned, AcceptPCs, OverduePCs
<1>5. Assigned(q)
  BY <1>2, <1>3, <1>4 DEF Assigned, ProposePCs, AcceptPCs, ResolvedPCs, OverduePCs, VisitPCs
<1>6. Proposing(q) /\ Sweeping(q)
  BY <1>3 DEF Proposing, Sweeping, OverduePCs
<1>7. Resolving(q)
  BY <1>2, <1>3, <1>4 DEF Resolving
<1>8. Reserving(q)
  <2> SUFFICES ASSUME NEW c \in Chores, ReservationKey(c) \in q.locks
               PROVE  \E t \in Trades : reservation[c] = t /\ TradeRow(t) \in q.locks
    BY DEF Reserving
  <2>1. CASE ReservationKey(c) \in r.locks
    BY <1>3, <1>4, <2>1, Known DEF Reserving
  <2>2. CASE ReservationKey(c) \in Wants(s)
    <3> DEFINE keys == {ReservationKey(d) : d \in Freed({r.trade})}
    <3>a. Wants(s) = {TradeRow(r.trade)} \cup keys /\ ReservationKey(c) # TradeRow(r.trade)
      BY <1>2, Distinct
    <3>b. ReservationKey(c) \in keys
      BY ONLY <2>2, <3>a
    <3>1. PICK d \in Freed({r.trade}) : ReservationKey(c) = ReservationKey(d)
      BY ONLY <3>b
    <3>2. c \in Freed({r.trade})
      BY <3>1, Distinct
    <3>3. reservation[c] = r.trade /\ TradeRow(r.trade) \in q.locks
      BY <1>2, <1>3, <3>2 DEF Freed
    <3> QED BY <1>2, <3>3
  <2> QED BY <1>3, <2>1, <2>2
<1>9. SessionOK(q)
  BY <1>3, <1>5, <1>6, <1>7, <1>8, Known DEF SessionOK
<1>10. q.pc \notin ProposePCs
  BY <1>3 DEF ProposePCs
<1> QED BY <1>3, <1>9, <1>10, FaultsStay, Proceeds

LEMMA AcceptResolveKeeps ==
  ASSUME IInv, NEW s \in Sessions, AcceptResolve(s)
  PROVE  IInv'
<1>1. CASE Acceptable(tx[s]) /\ Acquire(s, [tx[s] EXCEPT !.pc = "accept: swap"])
  BY <1>1, ResolveAcquires DEF AcceptResolve, Acceptable
<1>2. CASE Run(s, IdleTx)
  BY <1>2, GoesIdle, FaultsStay DEF AcceptResolve, Run
<1> QED BY <1>1, <1>2 DEF AcceptResolve

LEMMA DeclineResolveKeeps ==
  ASSUME IInv, NEW s \in Sessions, DeclineResolve(s)
  PROVE  IInv'
<1>1. CASE Declinable(tx[s]) /\ Acquire(s, [tx[s] EXCEPT !.pc = "decline: commit"])
  BY <1>1, ResolveAcquires DEF DeclineResolve, Declinable
<1>2. CASE Run(s, IdleTx)
  BY <1>2, GoesIdle, FaultsStay DEF DeclineResolve, Run
<1> QED BY <1>1, <1>2 DEF DeclineResolve

\* A transaction that goes on with the same locks, at another statement, and
\* with other rows to visit.
LEMMA Advances ==
  ASSUME IInv, NEW s \in Sessions, NEW q \in TxState,
         tx' = [tx EXCEPT ![s] = q], UNCHANGED <<now, tables, faults>>,
         q.locks = tx[s].locks, q.trade = tx[s].trade, q.at = tx[s].at, q.hits = tx[s].hits,
         \/ tx[s].pc = "accept: swap" /\ q.pc = "accept: count"
         \/ tx[s].pc = "accept: swap" /\ q.pc = "accept: visit" /\ q.row \in q.todo
         \/ tx[s].pc = "overdue: begin" /\ q.pc = "expire: sweep"
         \/ tx[s].pc = "overdue: begin" /\ q.pc = "overdue: visit" /\ q.row \in q.todo
  PROVE  IInv'
<1> DEFINE r == tx[s]
<1>1. r.pc \in AcceptPCs => r.trade \in Trades
  BY Known DEF Assigned, ResolvedPCs
<1>2. r.pc \notin AcceptPCs => r.hits = {}
  BY Known DEF Assigned, AcceptPCs, OverduePCs
<1>3. Assigned(q)
  BY <1>1, <1>2 DEF Assigned, ProposePCs, AcceptPCs, ResolvedPCs, OverduePCs, VisitPCs
<1>4. Proposing(q)
  BY DEF Proposing
<1>5. Resolving(q)
  BY Known DEF Resolving, AcceptPCs, ResolvedPCs
<1>6. Sweeping(q)
  BY <1>2 DEF Sweeping, AcceptPCs, OverduePCs
<1>7. Reserving(q)
  BY Known DEF Reserving
<1>8. SessionOK(q)
  BY <1>3, <1>4, <1>5, <1>6, <1>7, Known DEF SessionOK
<1>9. q.pc \notin ProposePCs
  BY DEF ProposePCs
<1> QED BY <1>8, <1>9, FaultsStay, Proceeds


LEMMA AcceptSwapKeeps ==
  ASSUME IInv, NEW s \in Sessions, AcceptSwap(s)
  PROVE  IInv'
<1> DEFINE r == tx[s]  seen == {c \in Sides(r.trade) : Swappable(r.trade, c)}
<1>1. r.pc = "accept: swap" /\ r \in TxState /\ UNCHANGED <<now, tables, faults>>
  BY Known DEF AcceptSwap
<1>2. r.trade \in Trades /\ Live(r.trade)
  BY <1>1, Known DEF Assigned, Resolving, AcceptPCs, ResolvedPCs
<1>3. seen \subseteq Chores
  BY <1>2 DEF IInv, TypeOK, Live, Sides
<1>4. "accept: visit" \in PCs /\ "accept: count" \in PCs
  BY DEF PCs
<1> HIDE DEF seen
<1>5. CASE Run(s, [r EXCEPT !.pc = "accept: count"])
  <2> DEFINE q == [r EXCEPT !.pc = "accept: count"]
  <2>1. tx' = [tx EXCEPT ![s] = q]
    BY <1>5 DEF Run
  <2>2. /\ q \in TxState /\ q.pc = "accept: count" /\ q.locks = r.locks
        /\ q.trade = r.trade /\ q.at = r.at /\ q.hits = r.hits
    BY <1>1, <1>4 DEF TxState
  <2> HIDE DEF q
  <2> QED BY <1>1, <2>1, <2>2, Advances
<1>6. CASE \E c \in seen : Run(s, [r EXCEPT !.pc = "accept: visit", !.row = c, !.todo = seen])
  <2>1. PICK c \in seen : Run(s, [r EXCEPT !.pc = "accept: visit", !.row = c, !.todo = seen])
    BY <1>6
  <2> DEFINE q == [r EXCEPT !.pc = "accept: visit", !.row = c, !.todo = seen]
  <2>2. tx' = [tx EXCEPT ![s] = q]
    BY <2>1 DEF Run
  <2>3. c \in Chores /\ seen \in SUBSET Chores
    BY <1>3
  <2>4. /\ q \in TxState /\ q.pc = "accept: visit" /\ q.locks = r.locks
        /\ q.trade = r.trade /\ q.at = r.at /\ q.hits = r.hits /\ q.row = c /\ q.todo = seen
    BY <1>1, <1>4, <2>3, ZenonT(60) DEF TxState
  <2> HIDE DEF q
  <2> QED BY <1>1, <2>2, <2>4, Advances
<1> QED BY <1>5, <1>6, ZenonT(60) DEF AcceptSwap, seen

LEMMA OverdueBeginKeeps ==
  ASSUME IInv, NEW s \in Sessions, OverdueBegin(s)
  PROVE  IInv'
<1> DEFINE r == tx[s]  seen == {c \in Chores : PastDue(c, r.at)}
<1>1. r.pc = "overdue: begin" /\ r \in TxState /\ UNCHANGED <<now, tables, faults>>
  BY Known DEF OverdueBegin
<1>2. seen \subseteq Chores
  OBVIOUS
<1>3. "overdue: visit" \in PCs /\ "expire: sweep" \in PCs
  BY DEF PCs
<1> HIDE DEF seen
<1>4. CASE Run(s, [r EXCEPT !.pc = "expire: sweep"])
  <2> DEFINE q == [r EXCEPT !.pc = "expire: sweep"]
  <2>1. tx' = [tx EXCEPT ![s] = q]
    BY <1>4 DEF Run
  <2>2. /\ q \in TxState /\ q.pc = "expire: sweep" /\ q.locks = r.locks
        /\ q.trade = r.trade /\ q.at = r.at /\ q.hits = r.hits
    BY <1>1, <1>3 DEF TxState
  <2> HIDE DEF q
  <2> QED BY <1>1, <2>1, <2>2, Advances
<1>5. CASE \E c \in seen : Run(s, [r EXCEPT !.pc = "overdue: visit", !.row = c, !.todo = seen])
  <2>1. PICK c \in seen : Run(s, [r EXCEPT !.pc = "overdue: visit", !.row = c, !.todo = seen])
    BY <1>5
  <2> DEFINE q == [r EXCEPT !.pc = "overdue: visit", !.row = c, !.todo = seen]
  <2>2. tx' = [tx EXCEPT ![s] = q]
    BY <2>1 DEF Run
  <2>3. c \in Chores /\ seen \in SUBSET Chores
    BY <1>2
  <2>4. /\ q \in TxState /\ q.pc = "overdue: visit" /\ q.locks = r.locks
        /\ q.trade = r.trade /\ q.at = r.at /\ q.hits = r.hits /\ q.row = c /\ q.todo = seen
    BY <1>1, <1>3, <2>3 DEF TxState
  <2> HIDE DEF q
  <2> QED BY <1>1, <2>2, <2>4, Advances
<1> QED BY <1>4, <1>5, ZenonT(60) DEF OverdueBegin, seen
WithHits(r, H) == [r EXCEPT !.hits = @ \cup H]

LEMMA HitsFields ==
  ASSUME NEW r \in TxState, NEW H \in SUBSET Chores, NEW q, q = WithHits(r, H)
  PROVE  /\ q \in TxState /\ q.hits = r.hits \cup H /\ q.pc = r.pc /\ q.locks = r.locks
         /\ q.trade = r.trade /\ q.at = r.at
BY DEF TxState, WithHits

LEMMA AcceptVisitKeeps ==
  ASSUME IInv, NEW s \in Sessions, AcceptVisit(s)
  PROVE  IInv'
<1> DEFINE r == tx[s]
           hit == {c \in {r.row} : Swappable(r.trade, c)}
           h == [r EXCEPT !.hits = @ \cup hit]
<1>1. r.pc = "accept: visit" /\ r.pc \in VisitPCs /\ r \in TxState /\ UNCHANGED <<now, tables, faults>>
  BY Known DEF AcceptVisit, VisitPCs
<1>2. r.row \in r.todo /\ r.row \in Chores /\ Wants(s) = {ChoreRow(r.row)}
  BY <1>1, WantsRow
<1>3. h \in TxState /\ h.hits = r.hits \cup hit /\ h.pc = r.pc /\ h.locks = r.locks
      /\ h.trade = r.trade /\ h.at = r.at
  <2>1. hit \in SUBSET Chores /\ h = WithHits(r, hit)
    BY <1>2 DEF WithHits
  <2>2. r \in TxState
    BY <1>1
  <2> HIDE DEF h, hit, r
  <2> QED BY ONLY <2>1, <2>2, HitsFields
<1>4. Visit(s, h, Rest(s), "accept: count")
  BY DEF AcceptVisit
<1>5. "accept: count" \in PCs /\ Rest(s) \in SUBSET Rest(s)
  BY DEF PCs
<1> HIDE DEF h
<1>6. PICK q \in TxState :
           /\ tx' = [tx EXCEPT ![s] = q] /\ Blockers(s) = {}
           /\ q.locks = h.locks \cup {ChoreRow(tx[s].row)}
           /\ q.todo = Rest(s)
           /\ \/ Rest(s) = {} /\ q.pc = "accept: count"
              \/ q.row \in Rest(s) /\ q.pc = h.pc
           /\ q.trade = h.trade /\ q.proposer = h.proposer /\ q.responder = h.responder
           /\ q.offered = h.offered /\ q.requested = h.requested
           /\ q.at = h.at /\ q.hits = h.hits /\ q.swept = h.swept
  BY <1>1, <1>3, <1>4, <1>5, Visited
<1>7. /\ q.pc = "accept: count" \/ (q.pc = "accept: visit" /\ q.row \in q.todo)
      /\ q.locks = r.locks \cup {ChoreRow(r.row)} /\ q.hits = r.hits \cup hit
      /\ q.trade = r.trade /\ q.at = r.at
  <2> HIDE DEF hit
  <2>1. h.pc = "accept: visit" /\ h.locks = r.locks /\ h.hits = r.hits \cup hit /\ h.trade = r.trade /\ h.at = r.at
    BY <1>1, <1>3
  <2>2. /\ q.pc = "accept: count" \/ (q.row \in q.todo /\ q.pc = h.pc)
        /\ q.locks = h.locks \cup {ChoreRow(r.row)} /\ q.hits = h.hits
        /\ q.trade = h.trade /\ q.at = h.at
    BY <1>6
  <2> QED BY ONLY <2>1, <2>2
<1>8. r.trade \in Trades /\ Live(r.trade) /\ TradeRow(r.trade) \in r.locks
      /\ \A c \in r.hits : ChoreRow(c) \in r.locks /\ Swappable(r.trade, c)
  BY <1>1, Known DEF Assigned, Resolving, AcceptPCs, ResolvedPCs
<1>9. Assigned(q)
  BY <1>7, <1>8 DEF Assigned, ProposePCs, AcceptPCs, ResolvedPCs, OverduePCs, VisitPCs
<1>10. Proposing(q) /\ Sweeping(q)
  BY <1>7 DEF Proposing, Sweeping, OverduePCs
<1>11. \A c \in q.hits : ChoreRow(c) \in q.locks /\ Swappable(r.trade, c)
  BY <1>7, <1>8
<1>12. Resolving(q)
  BY <1>7, <1>8, <1>11 DEF Resolving
<1>13. Reserving(q)
  <2>1. \A c : ReservationKey(c) \in q.locks => ReservationKey(c) \in r.locks
    BY <1>7, Distinct
  <2> QED BY <1>1, <1>7, <2>1, Known DEF Reserving
<1>14. SessionOK(q)
  BY <1>7, <1>9, <1>10, <1>12, <1>13, Known DEF SessionOK
<1>15. q.pc \notin ProposePCs
  BY <1>7 DEF ProposePCs
<1> QED BY <1>1, <1>2, <1>6, <1>7, <1>14, <1>15, FaultsStay, Proceeds

-----------------------------------------------------------------------------
(* The cycle of a scheduler, up to its commits. *)

LEMMA OverdueVisitKeeps ==
  ASSUME IInv, NEW s \in Sessions, OverdueVisit(s)
  PROVE  IInv'
<1> DEFINE r == tx[s]
           hit == {c \in {r.row} : PastDue(c, r.at)}
           h == [r EXCEPT !.hits = @ \cup hit]
<1>1. r.pc = "overdue: visit" /\ r.pc \in VisitPCs /\ r \in TxState /\ UNCHANGED <<now, tables, faults>>
  BY Known DEF OverdueVisit, VisitPCs
<1>2. r.row \in r.todo /\ r.row \in Chores /\ Wants(s) = {ChoreRow(r.row)}
  BY <1>1, WantsRow
<1>3. h \in TxState /\ h.hits = r.hits \cup hit /\ h.pc = r.pc /\ h.locks = r.locks
      /\ h.trade = r.trade /\ h.at = r.at
  <2>1. hit \in SUBSET Chores /\ h = WithHits(r, hit)
    BY <1>2 DEF WithHits
  <2>2. r \in TxState
    BY <1>1
  <2> HIDE DEF h, hit, r
  <2> QED BY ONLY <2>1, <2>2, HitsFields
<1>4. Visit(s, h, Rest(s), "overdue: commit")
  BY DEF OverdueVisit
<1>5. "overdue: commit" \in PCs /\ Rest(s) \in SUBSET Rest(s)
  BY DEF PCs
<1> HIDE DEF h
<1>6. PICK q \in TxState :
           /\ tx' = [tx EXCEPT ![s] = q] /\ Blockers(s) = {}
           /\ q.locks = h.locks \cup {ChoreRow(tx[s].row)}
           /\ q.todo = Rest(s)
           /\ \/ Rest(s) = {} /\ q.pc = "overdue: commit"
              \/ q.row \in Rest(s) /\ q.pc = h.pc
           /\ q.trade = h.trade /\ q.proposer = h.proposer /\ q.responder = h.responder
           /\ q.offered = h.offered /\ q.requested = h.requested
           /\ q.at = h.at /\ q.hits = h.hits /\ q.swept = h.swept
  BY <1>1, <1>3, <1>4, <1>5, Visited
<1>7. /\ q.pc = "overdue: commit" \/ (q.pc = "overdue: visit" /\ q.row \in q.todo)
      /\ q.locks = r.locks \cup {ChoreRow(r.row)} /\ q.hits = r.hits \cup hit
      /\ q.trade = r.trade /\ q.at = r.at
  <2> HIDE DEF hit
  <2>1. h.pc = "overdue: visit" /\ h.locks = r.locks /\ h.hits = r.hits \cup hit /\ h.trade = r.trade /\ h.at = r.at
    BY <1>1, <1>3
  <2>2. /\ q.pc = "overdue: commit" \/ (q.row \in q.todo /\ q.pc = h.pc)
        /\ q.locks = h.locks \cup {ChoreRow(r.row)} /\ q.hits = h.hits
        /\ q.trade = h.trade /\ q.at = h.at
    BY <1>6
  <2> QED BY ONLY <2>1, <2>2
<1>8. \A c \in r.hits : ChoreRow(c) \in r.locks /\ PastDue(c, r.at)
  BY <1>1, Known DEF Sweeping, OverduePCs
<1>9. Assigned(q)
  BY <1>7 DEF Assigned, ProposePCs, AcceptPCs, ResolvedPCs, OverduePCs, VisitPCs
<1>10. Proposing(q) /\ Resolving(q)
  BY <1>7 DEF Proposing, Resolving, AcceptPCs, ResolvedPCs
<1>11. \A c \in q.hits : ChoreRow(c) \in q.locks /\ PastDue(c, q.at)
  BY <1>7, <1>8
<1>12. Sweeping(q)
  BY <1>7, <1>11 DEF Sweeping
<1>13. Reserving(q)
  <2>1. \A c : ReservationKey(c) \in q.locks => ReservationKey(c) \in r.locks
    BY <1>7, Distinct
  <2> QED BY <1>1, <1>7, <2>1, Known DEF Reserving
<1>14. SessionOK(q)
  BY <1>7, <1>9, <1>10, <1>12, <1>13, Known DEF SessionOK
<1>15. q.pc \notin ProposePCs
  BY <1>7 DEF ProposePCs
<1> QED BY <1>1, <1>2, <1>6, <1>7, <1>14, <1>15, FaultsStay, Proceeds

\* Who holds a reservation also holds the row that justifies it.
LEMMA KeyHolder ==
  ASSUME IInv, NEW u \in Sessions, NEW c \in Chores, ReservationKey(c) \in tx[u].locks
  PROVE  \/ /\ c \in Pair(tx[u]) /\ ChoreRow(c) \in tx[u].locks
            /\ ~LiveOn(Pair(tx[u])) /\ tx[u].pc = "propose: commit"
         \/ \E t \in Trades : reservation[c] = t /\ TradeRow(t) \in tx[u].locks
BY Known, ZenonT(60) DEF Reserving, Proposing

LEMMA ExpireSweepKeeps ==
  ASSUME IInv, NEW s \in Sessions, ExpireSweep(s)
  PROVE  IInv'
<1> DEFINE r == tx[s]
           T == {t \in Trades : Sweepable(t, r.at) /\ Free(TradeRow(t))}
           L == {TradeRow(t) : t \in T} \cup {ReservationKey(c) : c \in Freed(T)}
           q == [r EXCEPT !.pc = "expire: commit", !.swept = T, !.locks = L]
<1>1. r.pc = "expire: sweep" /\ r \in TxState /\ UNCHANGED <<now, tables, faults>>
  BY Known DEF ExpireSweep
<1>2. tx' = [tx EXCEPT ![s] = q]
  BY DEF ExpireSweep, Run
<1>3. T \in SUBSET Trades /\ \A t \in T : Lapsed(t, r.at) /\ Free(TradeRow(t))
  BY DEF Sweepable
<1>4. Freed(T) \in SUBSET Chores /\ \A c \in Freed(T) : reservation[c] \in T
  BY DEF Freed
<1> HIDE DEF T
<1>5. L \in SUBSET Resources
  BY <1>3, <1>4, Lockable
<1>6. /\ \A x : x \in L => \/ \E t \in T : x = TradeRow(t)
                           \/ \E c \in Freed(T) : x = ReservationKey(c)
      /\ \A t \in T : TradeRow(t) \in L
  OBVIOUS
<1> HIDE DEF L
<1>7. "expire: commit" \in PCs
  BY DEF PCs
<1>8. /\ q \in TxState /\ q.pc = "expire: commit" /\ q.swept = T /\ q.locks = L
      /\ q.at = r.at /\ q.hits = r.hits /\ q.trade = r.trade
  BY <1>1, <1>3, <1>5, <1>7, ZenonT(60) DEF TxState
<1> HIDE DEF q
<1>9. q.hits = {}
  BY <1>1, <1>8, Known DEF Assigned, AcceptPCs, OverduePCs
<1>10. Assigned(q)
  BY <1>8, <1>9 DEF Assigned, ProposePCs, AcceptPCs, ResolvedPCs, OverduePCs, VisitPCs
<1>11. Proposing(q) /\ Resolving(q)
  BY <1>8 DEF Proposing, Resolving, AcceptPCs, ResolvedPCs
<1>12. Sweeping(q)
  BY <1>3, <1>6, <1>8 DEF Sweeping, OverduePCs
<1>13. Reserving(q)
  <2> SUFFICES ASSUME NEW c \in Chores, ReservationKey(c) \in L
               PROVE  \E t \in Trades : reservation[c] = t /\ TradeRow(t) \in L
    BY <1>8 DEF Reserving
  <2>1. PICK d \in Freed(T) : ReservationKey(c) = ReservationKey(d)
    BY <1>6, Distinct
  <2>2. c \in Freed(T)
    BY <2>1, Distinct
  <2> QED BY <1>3, <1>4, <1>6, <2>2
<1>14. SessionOK(q)
  BY <1>8, <1>10, <1>11, <1>12, <1>13, Known DEF SessionOK
<1>15. \A u \in Sessions \ {s} : L \cap tx[u].locks = {}
  <2> SUFFICES ASSUME NEW u \in Sessions \ {s}, NEW x \in L, x \in tx[u].locks PROVE FALSE
    OBVIOUS
  <2>1. ASSUME NEW t \in T, x = TradeRow(t) PROVE FALSE
    BY <1>3, <2>1 DEF Free
  <2>2. ASSUME NEW c \in Freed(T), x = ReservationKey(c) PROVE FALSE
    <3>1. c \in Chores /\ reservation[c] \in T /\ ReservationKey(c) \in tx[u].locks
      BY <1>4, <2>2
    <3>2. PICK t \in T : reservation[c] = t
      BY <3>1
    <3>3. Live(t) /\ c \in Sides(t) /\ TradeRow(t) \notin tx[u].locks /\ t \in Trades
      BY <1>3, <3>1, <3>2 DEF Lapsed, Free, IInv, ReservationsMatchLive
    <3>4. c \notin Pair(tx[u]) \/ LiveOn(Pair(tx[u]))
      BY <3>3 DEF LiveOn
    <3> QED BY <3>1, <3>2, <3>3, <3>4, KeyHolder
  <2> QED BY <1>6, <2>1, <2>2
<1>16. q.pc \notin ProposePCs
  BY <1>8 DEF ProposePCs
<1>17. \A u \in Sessions \ {s} : tx[u].pc \in ProposePCs => tx[u].trade # q.trade
  BY <1>8, ZenonT(60) DEF IInv, FreshIds
<1> QED BY <1>1, <1>2, <1>8, <1>14, <1>15, <1>16, <1>17, FaultsStay, SessionMoves

LEMMA AcceptRefusedKeeps ==
  ASSUME IInv, NEW s \in Sessions, AcceptRefused(s)
  PROVE  IInv'
BY GoesIdle, FaultsStay DEF AcceptRefused, Rollback, Run
-----------------------------------------------------------------------------
(* Steps that change the tables. *)

\* Nothing that session u relies on changes: not the rows it has locked, not
\* the id it proposes, and no trade of a chore it has locked comes to life.
Stands(u) ==
  /\ tx'[u] = tx[u]
  /\ \A c \in Chores : ChoreRow(c) \in tx[u].locks => chore'[c] = chore[c]
  /\ \A t \in Trades : Live(t) /\ TradeRow(t) \in tx[u].locks =>
       trade'[t] = trade[t] /\ \A c \in Chores : reservation[c] = t => reservation'[c] = t
  /\ tx[u].pc \in ProposePCs => trade'[tx[u].trade] = trade[tx[u].trade]
  /\ \A t \in Trades : trade'[t] # trade[t] /\ trade'[t].status = "proposed" =>
       ChoreRow(trade'[t].offered) \notin tx[u].locks /\ ChoreRow(trade'[t].requested) \notin tx[u].locks

LEMMA StandsIsFine ==
  ASSUME IInv, NEW u \in Sessions, Stands(u), now' \in Nat, now <= now'
  PROVE  SessionOK(tx[u])'
<1> DEFINE r == tx[u]
<1>1. tx'[u] = r /\ r \in TxState
  BY Known DEF Stands
<1>2. r.at <= now'
  <2>1. r.at \in Nat /\ r.at <= now /\ now \in Nat
    BY Known DEF TxState, IInv, TypeOK
  <2> QED BY <2>1
<1>3. Assigned(tx[u])'
  BY <1>1, Known DEF Assigned
<1>4. \A c \in Chores : ChoreRow(c) \in r.locks => chore'[c] = chore[c]
  BY DEF Stands
<1>5. \A t \in Trades : Live(t) /\ TradeRow(t) \in r.locks =>
        trade'[t] = trade[t] /\ \A c \in Chores : reservation[c] = t => reservation'[c] = t
  BY DEF Stands
<1>6. Proposing(tx[u])'
  <2>1. CASE r.pc \notin {"propose: insert", "propose: commit"}
    BY <1>1, <2>1, Known DEF Proposing, Pair
  <2>2. CASE r.pc \in {"propose: insert", "propose: commit"}
    <3>1. /\ Tradeable(r.offered) /\ chore[r.offered].assignee = r.proposer
          /\ Tradeable(r.requested) /\ chore[r.requested].assignee = r.responder
          /\ ~LiveOn(Pair(r))
      BY <2>2, Known DEF Proposing
    <3>2. Pair(r) \subseteq Chores /\ r.offered \in Pair(r) /\ r.requested \in Pair(r)
      BY <2>2, Known DEF Assigned, Pair, ProposePCs
    <3>3. \A c \in Pair(r) : ChoreRow(c) \in r.locks
      BY <2>2, Known, ZenonT(60) DEF Proposing
    <3>4. \A c \in Pair(r) : chore'[c] = chore[c]
      BY <1>4, <3>2, <3>3
    <3>5. /\ Tradeable(r.offered)' /\ chore'[r.offered].assignee = r.proposer
          /\ Tradeable(r.requested)' /\ chore'[r.requested].assignee = r.responder
      BY <1>1, <3>1, <3>2, <3>4 DEF Tradeable
    <3>6. ASSUME NEW t \in Trades, trade'[t].status = "proposed",
                 {trade'[t].offered, trade'[t].requested} \cap Pair(r) # {}
          PROVE  FALSE
      <4>1. CASE trade'[t] = trade[t]
        BY <3>1, <3>6, <4>1 DEF LiveOn, Live, Sides
      <4>2. CASE trade'[t] # trade[t]
        BY <3>3, <3>6, <4>2 DEF Stands
      <4> QED BY <4>1, <4>2
    <3>7. ~LiveOn(Pair(tx[u]))'
      BY <1>1, <3>6 DEF LiveOn, Live, Sides, Pair
    <3>8. /\ Pair(tx[u])' = Pair(r)
          /\ r.pc = "propose: insert" => r.locks = {ChoreRow(c) : c \in Pair(r)}
          /\ r.pc = "propose: commit" =>
               r.locks = {ChoreRow(c) : c \in Pair(r)} \cup {ReservationKey(c) : c \in Pair(r)}
      BY <1>1, Known DEF Proposing, Pair
    <3> QED BY <1>1, <2>2, <3>5, <3>7, <3>8 DEF Proposing, Tradeable
  <2> QED BY <2>1, <2>2
<1>7. Resolving(tx[u])'
  <2>1. CASE r.pc \notin ResolvedPCs
    BY <1>1, <2>1 DEF Resolving, ResolvedPCs
  <2>2. CASE r.pc \in ResolvedPCs
    <3>1. r.trade \in Trades /\ Live(r.trade) /\ TradeRow(r.trade) \in r.locks
      BY <2>2, Known DEF Assigned, Resolving
    <3>2. trade'[r.trade] = trade[r.trade]
      BY <1>5, <3>1
    <3>3. r.pc \in AcceptPCs => \A c \in r.hits :
            c \in Chores /\ ChoreRow(c) \in r.locks /\ Swappable(r.trade, c)
      BY <1>1, Known DEF Resolving, TxState
    <3>4. r.pc \in AcceptPCs => \A c \in r.hits :
            ChoreRow(c) \in r.locks /\ Swappable(tx[u].trade, c)'
      BY <1>1, <1>4, <3>2, <3>3 DEF Swappable, Tradeable, HeldByParty
    <3>5. Live(tx[u].trade)' /\ tx'[u].trade = r.trade
      BY <1>1, <3>1, <3>2 DEF Live
    <3> QED BY <1>1, <3>1, <3>4, <3>5 DEF Resolving, Swappable, Tradeable, HeldByParty
  <2> QED BY <2>1, <2>2
<1>8. Sweeping(tx[u])'
  <2>1. r.pc \in OverduePCs => \A c \in r.hits :
          c \in Chores /\ ChoreRow(c) \in r.locks /\ PastDue(c, r.at)
    BY <1>1, Known DEF Sweeping, TxState
  <2>2. r.pc \in OverduePCs => \A c \in r.hits : ChoreRow(c) \in r.locks /\ PastDue(c, tx[u].at)'
    BY <1>1, <1>4, <2>1 DEF PastDue
  <2>3. r.pc = "expire: commit" => \A t \in r.swept :
          t \in Trades /\ Live(t) /\ trade[t].expires <= r.at /\ TradeRow(t) \in r.locks
    BY <1>1, Known DEF Sweeping, TxState, Lapsed
  <2>4. r.pc = "expire: commit" => \A t \in r.swept : Lapsed(t, tx[u].at)' /\ TradeRow(t) \in r.locks
    BY <1>1, <1>5, <2>3 DEF Lapsed, Live
  <2> QED BY <1>1, <2>2, <2>4 DEF Sweeping, PastDue, Lapsed, Live
<1>9. Reserving(tx[u])'
  <2> SUFFICES ASSUME NEW c \in Chores, ReservationKey(c) \in r.locks
               PROVE  \/ r.pc = "propose: commit" /\ c \in Pair(r)
                      \/ \E t \in Trades : reservation'[c] = t /\ TradeRow(t) \in r.locks
    BY <1>1 DEF Reserving, Pair
  <2>1. CASE \E t \in Trades : reservation[c] = t /\ TradeRow(t) \in r.locks
    <3>1. PICK t \in Trades : reservation[c] = t /\ TradeRow(t) \in r.locks
      BY <2>1
    <3>2. Live(t)
      BY <3>1 DEF IInv, ReservationsMatchLive
    <3> QED BY <1>5, <3>1, <3>2
  <2> QED BY <2>1, Known DEF Reserving
<1> QED BY <1>1, <1>2, <1>3, <1>6, <1>7, <1>8, <1>9 DEF SessionOK

\* A transaction that is not open, or about to sweep, relies on nothing.
LEMMA RestIsFine ==
  ASSUME NEW u \in Sessions, tx'[u] \in TxState, tx'[u].at <= now',
         tx'[u].pc \in {"idle", "expire: sweep"}, tx'[u].locks = {}, tx'[u].hits = {}
  PROVE  SessionOK(tx[u])'
<1>1. Assigned(tx[u])'
  BY DEF Assigned, ProposePCs, AcceptPCs, ResolvedPCs, OverduePCs, VisitPCs
<1>2. Proposing(tx[u])' /\ Resolving(tx[u])' /\ Sweeping(tx[u])' /\ Reserving(tx[u])'
  BY DEF Proposing, Resolving, Sweeping, Reserving, AcceptPCs, ResolvedPCs, OverduePCs
<1> QED BY <1>1, <1>2 DEF SessionOK

\* A session has ended, or ended this step of its cycle.
Ends(u) == tx'[u] = IdleTx \/ tx'[u] = NextInCycle(u)

LEMMA EndsFields ==
  ASSUME IInv, NEW u \in Sessions, Ends(u), now' \in Nat, now <= now'
  PROVE  /\ tx'[u] \in TxState /\ tx'[u].at <= now' /\ tx'[u].trade = None
         /\ tx'[u].pc \in {"idle", "expire: sweep"} /\ tx'[u].locks = {} /\ tx'[u].hits = {}
<1>1. tx[u].at \in Nat /\ tx[u].at <= now /\ now \in Nat
  BY Known DEF TxState, IInv, TypeOK
<1>a. "expire: sweep" \in PCs
  BY DEF PCs
<1>2. tx[u].at <= now' /\ 0 <= now'
  <2> SUFFICES ASSUME NEW d \in Nat, d <= now PROVE d <= now' /\ 0 <= now'
    BY <1>1
  <2> QED BY <1>1
<1>3. CASE tx'[u] = IdleTx
  BY <1>2, <1>3, IdleFields
<1>4. CASE tx'[u] = NextInCycle(u)
  BY <1>1, <1>a, <1>2, <1>4, IdleFields, ZenonT(60) DEF NextInCycle, TxState
<1> QED BY <1>3, <1>4 DEF Ends

LEMMA TablesMove ==
  ASSUME IInv, RowsTyped', ReservationsMatchLive', now <= now', faults' = faults,
         tx' \in [Sessions -> TxState],
         \A u \in Sessions : Stands(u) \/ Ends(u)
  PROVE  IInv'
<1>1. now' \in Nat
  BY DEF RowsTyped
<1>2. TypeOK'
  BY DEF IInv, TypeOK, RowsTyped
<1>3. \A u \in Sessions : SessionOK(tx[u])'
  BY <1>1, StandsIsFine, RestIsFine, EndsFields
<1>4. \A u \in Sessions : tx'[u] = tx[u] \/ tx'[u].locks = {}
  BY <1>1, EndsFields DEF Stands
<1>5. LockMutex'
  BY <1>4 DEF IInv, LockMutex
<1>6. FreshIds'
  <2> SUFFICES ASSUME NEW u \in Sessions, tx'[u].pc \in ProposePCs
               PROVE  /\ trade'[tx'[u].trade].status = "absent"
                      /\ \A w \in Sessions \ {u} : tx'[w].trade # tx'[u].trade
    BY DEF FreshIds
  <2>1. Stands(u)
    BY <1>1, EndsFields DEF ProposePCs
  <2>2. tx'[u] = tx[u] /\ trade'[tx[u].trade] = trade[tx[u].trade]
    BY <2>1 DEF Stands
  <2>3. tx[u].trade \in Trades
    BY <2>2, Known DEF Assigned
  <2>4. \A w \in Sessions : tx'[w] = tx[w] \/ tx'[w].trade = None
    BY <1>1, EndsFields DEF Stands
  <2> QED BY <2>2, <2>3, <2>4, NoneIsNothing DEF IInv, FreshIds
<1> QED BY <1>2, <1>3, <1>5, <1>6 DEF IInv
\* Live trades T are resolved, and lose their reservations.
LEMMA ResolveKeepsMatch ==
  ASSUME IInv, NEW T \in SUBSET Trades, NEW outcome \in Outcomes,
         \A t \in T : Live(t), Resolve(T, outcome)
  PROVE  /\ \A t \in Trades : trade'[t].status = (IF t \in T THEN outcome ELSE trade[t].status)
         /\ \A t \in Trades \ T : trade'[t] = trade[t]
         /\ \A c \in Chores : reservation'[c] = IF reservation[c] \in T THEN None ELSE reservation[c]
         /\ trade' \in [Trades -> TradeRecord]
         /\ reservation' \in [Chores -> Trades \cup {None}]
         /\ \A t \in Trades :
              /\ trade'[t].proposer = trade[t].proposer /\ trade'[t].responder = trade[t].responder
              /\ trade'[t].offered = trade[t].offered /\ trade'[t].requested = trade[t].requested
              /\ trade'[t].expires = trade[t].expires
         /\ ReservationsMatchLive'
<1>1. trade \in [Trades -> TradeRecord] /\ reservation \in [Chores -> Trades \cup {None}]
  BY DEF IInv, TypeOK
<1>2. \A t \in Trades : trade'[t] = IF t \in T THEN [trade[t] EXCEPT !.status = outcome] ELSE trade[t]
  BY DEF Resolve
<1>3. \A r \in TradeRecord :
        /\ [r EXCEPT !.status = outcome] \in TradeRecord
        /\ [r EXCEPT !.status = outcome].status = outcome
        /\ [r EXCEPT !.status = outcome].proposer = r.proposer
        /\ [r EXCEPT !.status = outcome].responder = r.responder
        /\ [r EXCEPT !.status = outcome].offered = r.offered
        /\ [r EXCEPT !.status = outcome].requested = r.requested
        /\ [r EXCEPT !.status = outcome].expires = r.expires
  BY DEF TradeRecord
<1>4. \A t \in Trades :
        /\ trade'[t].status = (IF t \in T THEN outcome ELSE trade[t].status)
        /\ trade'[t].proposer = trade[t].proposer /\ trade'[t].responder = trade[t].responder
        /\ trade'[t].offered = trade[t].offered /\ trade'[t].requested = trade[t].requested
        /\ trade'[t].expires = trade[t].expires
  <2> SUFFICES ASSUME NEW t \in Trades
      PROVE  /\ trade'[t].status = (IF t \in T THEN outcome ELSE trade[t].status)
             /\ trade'[t].proposer = trade[t].proposer /\ trade'[t].responder = trade[t].responder
             /\ trade'[t].offered = trade[t].offered /\ trade'[t].requested = trade[t].requested
             /\ trade'[t].expires = trade[t].expires
    OBVIOUS
  <2>1. trade[t] \in TradeRecord
    BY <1>1
  <2>2. CASE t \in T
    BY <1>2, <1>3, <2>1, <2>2, ZenonT(60)
  <2>3. CASE t \notin T
    BY <1>2, <2>3
  <2> QED BY <2>2, <2>3
<1>5. trade' = [t \in Trades |-> trade'[t]] /\ \A t \in Trades : trade'[t] \in TradeRecord
  BY <1>1, <1>2, <1>3 DEF Resolve
<1>6. \A c \in Chores : reservation'[c] = IF reservation[c] \in T THEN None ELSE reservation[c]
  BY DEF Resolve, Freed
<1>7. reservation' = [c \in Chores |-> reservation'[c]]
      /\ \A c \in Chores : reservation'[c] \in Trades \cup {None}
  BY <1>1, <1>6 DEF Resolve
<1>8. ReservationsMatchLive'
  <2> SUFFICES ASSUME NEW c \in Chores, NEW t \in Trades
               PROVE  reservation'[c] = t <=>
                        trade'[t].status = "proposed" /\ c \in {trade'[t].offered, trade'[t].requested}
    BY DEF ReservationsMatchLive, Live, Sides
  <2>1. reservation[c] = t <=> trade[t].status = "proposed" /\ c \in {trade[t].offered, trade[t].requested}
    BY DEF IInv, ReservationsMatchLive, Live, Sides
  <2>2. outcome # "proposed"
    BY DEF Outcomes
  <2>3. CASE t \in T
    BY <1>4, <1>6, <2>2, <2>3, NoneIsNothing
  <2>4. CASE t \notin T
    BY <1>4, <1>6, <2>1, <2>4, NoneIsNothing
  <2> QED BY <2>3, <2>4
<1> QED BY <1>2, <1>4, <1>5, <1>6, <1>7, <1>8

LEMMA ResolveTyped ==
  ASSUME IInv, NEW T \in SUBSET Trades, NEW outcome \in Outcomes,
         \A t \in T : Live(t), Resolve(T, outcome),
         now' = now, chore' \in [Chores -> ChoreRecord]
  PROVE  RowsTyped'
<1>1. /\ \A t \in Trades : trade'[t].status = (IF t \in T THEN outcome ELSE trade[t].status)
      /\ trade' \in [Trades -> TradeRecord]
      /\ reservation' \in [Chores -> Trades \cup {None}]
      /\ \A t \in Trades :
           /\ trade'[t].proposer = trade[t].proposer /\ trade'[t].responder = trade[t].responder
           /\ trade'[t].offered = trade[t].offered /\ trade'[t].requested = trade[t].requested
           /\ trade'[t].expires = trade[t].expires
  BY ResolveKeepsMatch, ZenonT(60)
<1>2. \A t \in Trades : trade'[t].status # "absent" => trade[t].status # "absent"
  BY <1>1 DEF Live
<1>3. \A t \in Trades : trade[t].status # "absent" =>
       /\ trade[t].proposer \in Members /\ trade[t].responder \in Members \ {trade[t].proposer}
       /\ trade[t].offered \in Chores /\ trade[t].requested \in Chores \ {trade[t].offered}
       /\ \A c \in {trade[t].offered, trade[t].requested} : trade[t].expires <= DueDay[c] + 1
  BY DEF IInv, TypeOK, Sides
<1>4. \A t \in Trades : trade'[t].status # "absent" =>
       /\ trade'[t].proposer \in Members /\ trade'[t].responder \in Members \ {trade'[t].proposer}
       /\ trade'[t].offered \in Chores /\ trade'[t].requested \in Chores \ {trade'[t].offered}
       /\ \A c \in {trade'[t].offered, trade'[t].requested} : trade'[t].expires <= DueDay[c] + 1
  BY <1>1, <1>2, <1>3
<1>5. now' \in Nat
  BY DEF IInv, TypeOK
<1> QED BY <1>1, <1>4, <1>5 DEF RowsTyped, Sides

\* Sessions that hold none of the resolved trades are not disturbed.
LEMMA ResolveStands ==
  ASSUME IInv, NEW T \in SUBSET Trades, NEW outcome \in Outcomes,
         \A t \in T : Live(t), Resolve(T, outcome),
         NEW u \in Sessions, tx'[u] = tx[u], \A t \in T : TradeRow(t) \notin tx[u].locks,
         \A c \in Chores : ChoreRow(c) \in tx[u].locks => chore'[c] = chore[c]
  PROVE  Stands(u)
<1>1. /\ \A t \in Trades : trade'[t].status = (IF t \in T THEN outcome ELSE trade[t].status)
      /\ \A t \in Trades \ T : trade'[t] = trade[t]
      /\ \A c \in Chores : reservation'[c] = IF reservation[c] \in T THEN None ELSE reservation[c]
  BY ResolveKeepsMatch, ZenonT(60)
<1>2. \A t \in Trades : Live(t) /\ TradeRow(t) \in tx[u].locks =>
        trade'[t] = trade[t] /\ \A c \in Chores : reservation[c] = t => reservation'[c] = t
  BY <1>1
<1>3. tx[u].pc \in ProposePCs => tx[u].trade \in Trades \ T
  BY Known DEF Assigned, IInv, FreshIds, Live
<1>4. tx[u].pc \in ProposePCs => trade'[tx[u].trade] = trade[tx[u].trade]
  BY <1>1, <1>3
<1>5. outcome # "proposed"
  BY DEF Outcomes
<1>6. \A t \in Trades : ~(trade'[t] # trade[t] /\ trade'[t].status = "proposed")
  BY <1>1, <1>5
<1> QED BY <1>2, <1>4, <1>6 DEF Stands

LEMMA OneMoves ==
  ASSUME IInv, NEW s \in Sessions, NEW r, tx' = [tx EXCEPT ![s] = r]
  PROVE  \A u \in Sessions : tx'[u] = IF u = s THEN r ELSE tx[u]
BY DEF IInv, TypeOK

\* The end of a session, and what it wrote is applied.
LEMMA EndKeeps ==
  ASSUME IInv, NEW s \in Sessions, Run(s, IdleTx) \/ Run(s, NextInCycle(s)),
         now' = now, faults' = faults, RowsTyped', ReservationsMatchLive',
         \A u \in Sessions \ {s} : tx'[u] = tx[u] => Stands(u)
  PROVE  IInv'
<1>1. now \in Nat /\ now <= now'
  BY DEF IInv, TypeOK
<1>2. Ends(s) /\ \A u \in Sessions \ {s} : tx'[u] = tx[u]
  BY OneMoves DEF Run, Ends
<1>3. tx' \in [Sessions -> TxState]
  <2>1. tx'[s] \in TxState
    BY <1>1, <1>2, EndsFields
  <2>2. tx' = [tx EXCEPT ![s] = tx'[s]] /\ tx \in [Sessions -> TxState]
    BY DEF Run, IInv, TypeOK
  <2> QED BY <2>1, <2>2
<1> QED BY <1>1, <1>2, <1>3, TablesMove

LEMMA DeclineCommitKeeps ==
  ASSUME IInv, NEW s \in Sessions, DeclineCommit(s)
  PROVE  IInv'
<1> DEFINE t == tx[s].trade
<1>1. t \in Trades /\ Live(t) /\ TradeRow(t) \in tx[s].locks
  BY Known DEF DeclineCommit, Assigned, Resolving, ResolvedPCs
<1>2. /\ Resolve({t}, "declined") /\ Run(s, IdleTx)
      /\ now' = now /\ chore' = chore /\ faults' = faults
  BY DEF DeclineCommit
<1>3. "declined" \in Outcomes /\ {t} \in SUBSET Trades /\ \A x \in {t} : Live(x)
  BY <1>1 DEF Outcomes
<1>4. chore' \in [Chores -> ChoreRecord]
  BY <1>2 DEF IInv, TypeOK
<1>5. RowsTyped' /\ ReservationsMatchLive'
  BY <1>2, <1>3, <1>4, ResolveTyped, ResolveKeepsMatch, ZenonT(60)
<1>6. \A u \in Sessions \ {s} : \A x \in {t} : TradeRow(x) \notin tx[u].locks
  BY <1>1 DEF IInv, LockMutex
<1>7. \A u \in Sessions \ {s} : tx'[u] = tx[u] => Stands(u)
  BY <1>2, <1>3, <1>6, ResolveStands
<1> QED BY <1>2, <1>5, <1>7, EndKeeps

LEMMA ExpireCommitKeeps ==
  ASSUME IInv, NEW s \in Sessions, ExpireCommit(s)
  PROVE  IInv'
<1> DEFINE T == tx[s].swept
<1>1. T \in SUBSET Trades /\ \A t \in T : Live(t) /\ TradeRow(t) \in tx[s].locks
  BY Known DEF ExpireCommit, Sweeping, TxState, Lapsed
<1>2. /\ Resolve(T, "expired") /\ Run(s, IdleTx)
      /\ now' = now /\ chore' = chore /\ faults' = faults
  BY DEF ExpireCommit
<1>3. "expired" \in Outcomes
  BY DEF Outcomes
<1>4. chore' \in [Chores -> ChoreRecord]
  BY <1>2 DEF IInv, TypeOK
<1>5. RowsTyped' /\ ReservationsMatchLive'
  BY <1>1, <1>2, <1>3, <1>4, ResolveTyped, ResolveKeepsMatch
<1>6. \A u \in Sessions \ {s} : \A x \in T : TradeRow(x) \notin tx[u].locks
  BY <1>1 DEF IInv, LockMutex
<1>7. \A u \in Sessions \ {s} : tx'[u] = tx[u] => Stands(u)
  BY <1>1, <1>2, <1>3, <1>6, ResolveStands
<1> QED BY <1>2, <1>5, <1>7, EndKeeps

\* What an UPDATE of chore c alone leaves as it was.
LEMMA ChoreStands ==
  ASSUME IInv, NEW u \in Sessions, tx'[u] = tx[u], trade' = trade, reservation' = reservation,
         \A c \in Chores : ChoreRow(c) \in tx[u].locks => chore'[c] = chore[c]
  PROVE  Stands(u)
BY DEF Stands

LEMMA TradesAsTheyWere ==
  ASSUME IInv, now' \in Nat, chore' \in [Chores -> ChoreRecord],
         trade' = trade, reservation' = reservation
  PROVE  RowsTyped' /\ ReservationsMatchLive'
<1>1. RowsTyped'
  BY TypeParts DEF IInv, TypeOK, RowsTyped, Sides
<1>2. ReservationsMatchLive'
  BY DEF IInv, ReservationsMatchLive, Live, Sides
<1> QED BY <1>1, <1>2

LEMMA OverdueCommitKeeps ==
  ASSUME IInv, NEW s \in Sessions, OverdueCommit(s)
  PROVE  IInv'
<1> DEFINE S == tx[s].hits
<1>1. S \subseteq Chores /\ \A c \in S : ChoreRow(c) \in tx[s].locks
  BY Known DEF OverdueCommit, Sweeping, TxState, OverduePCs
<1>2. /\ MarkOverdue(S) /\ Run(s, NextInCycle(s))
      /\ now' = now /\ trade' = trade /\ reservation' = reservation /\ faults' = faults
  BY DEF OverdueCommit
<1>3. chore \in [Chores -> ChoreRecord] /\ now' \in Nat
  BY <1>2 DEF IInv, TypeOK
<1>4. \A c \in Chores : chore'[c] = IF c \in S THEN [chore[c] EXCEPT !.status = "overdue"] ELSE chore[c]
  BY <1>2 DEF MarkOverdue
<1>5. \A r \in ChoreRecord : [r EXCEPT !.status = "overdue"] \in ChoreRecord
  BY DEF ChoreRecord
<1>6. chore' \in [Chores -> ChoreRecord]
  <2>1. \A c \in Chores : chore'[c] \in ChoreRecord
    BY <1>3, <1>4, <1>5
  <2>2. chore' = [c \in Chores |-> chore'[c]]
    BY <1>2 DEF MarkOverdue
  <2> QED BY <2>1, <2>2
<1>7. RowsTyped' /\ ReservationsMatchLive'
  BY <1>2, <1>3, <1>6, TradesAsTheyWere
<1>8. ASSUME NEW u \in Sessions \ {s}, tx'[u] = tx[u] PROVE Stands(u)
  <2>1. \A c \in S : ChoreRow(c) \notin tx[u].locks
    BY <1>1 DEF IInv, LockMutex
  <2>2. \A c \in Chores : ChoreRow(c) \in tx[u].locks => chore'[c] = chore[c]
    BY <1>4, <2>1
  <2> QED BY <1>2, <1>8, <2>2, ChoreStands
<1> QED BY <1>2, <1>7, <1>8, EndKeeps
\* Single statements, which wait for the rows they touch.
LEMMA StatementKeeps ==
  ASSUME IInv, UNCHANGED <<tx, faults>>, now <= now', RowsTyped', ReservationsMatchLive',
         \A u \in Sessions : Stands(u)
  PROVE  IInv'
<1>1. tx' \in [Sessions -> TxState]
  BY DEF IInv, TypeOK
<1> QED BY <1>1, TablesMove

LEMMA CancelKeeps ==
  ASSUME IInv, NEW t \in Trades, Cancel(t)
  PROVE  IInv'
<1>1. /\ Live(t) /\ Free(TradeRow(t)) /\ Resolve({t}, "cancelled")
      /\ now' = now /\ chore' = chore /\ tx' = tx /\ faults' = faults
  BY DEF Cancel
<1>2. "cancelled" \in Outcomes /\ {t} \in SUBSET Trades /\ \A x \in {t} : Live(x)
  BY <1>1 DEF Outcomes
<1>3. chore' \in [Chores -> ChoreRecord] /\ now <= now'
  BY <1>1 DEF IInv, TypeOK
<1>4. RowsTyped' /\ ReservationsMatchLive'
  BY <1>1, <1>2, <1>3, ResolveTyped, ResolveKeepsMatch
<1>5. \A u \in Sessions : \A x \in {t} : TradeRow(x) \notin tx[u].locks
  BY <1>1 DEF Free
<1>6. \A u \in Sessions : Stands(u)
  BY <1>1, <1>2, <1>5, ResolveStands
<1> QED BY <1>1, <1>3, <1>4, <1>6, StatementKeeps

LEMMA ChoreWorkKeeps ==
  ASSUME IInv, ChoreWork
  PROVE  IInv'
<1>1. PICK c \in Chores : Free(ChoreRow(c)) /\ (ClaimChore(c) \/ CloseChore(c)) /\ UNCHANGED <<tx, faults>>
  BY DEF ChoreWork
<1>2. now' = now /\ trade' = trade /\ reservation' = reservation
  BY <1>1 DEF ClaimChore, CloseChore
<1>3. chore \in [Chores -> ChoreRecord] /\ now \in Nat /\ now <= now' /\ now' \in Nat
  BY <1>2 DEF IInv, TypeOK
<1>4. /\ chore' \in [Chores -> ChoreRecord]
      /\ \A d \in Chores \ {c} : chore'[d] = chore[d]
  <2>1. CASE ClaimChore(c)
    <3>1. chore' = [chore EXCEPT ![c] = [chore[c] EXCEPT !.claimed = TRUE]]
      BY <1>3, <2>1 DEF ClaimChore
    <3>2. [chore[c] EXCEPT !.claimed = TRUE] \in ChoreRecord
      BY <1>3 DEF ChoreRecord
    <3> QED BY <1>3, <3>1, <3>2
  <2>2. CASE CloseChore(c)
    <3>1. PICK how \in {"done", "skipped"} :
            chore' = [chore EXCEPT ![c].status = how, ![c].claimed = FALSE]
      BY <2>2 DEF CloseChore
    <3>2. chore' = [chore EXCEPT ![c] = [chore[c] EXCEPT !.status = how, !.claimed = FALSE]]
      BY <1>3, <3>1
    <3>3. [chore[c] EXCEPT !.status = how, !.claimed = FALSE] \in ChoreRecord
      BY <1>3 DEF ChoreRecord
    <3> QED BY <1>3, <3>2, <3>3
  <2> QED BY <1>1, <2>1, <2>2
<1>5. RowsTyped' /\ ReservationsMatchLive'
  BY <1>2, <1>3, <1>4, TradesAsTheyWere
<1>6. \A u \in Sessions : tx'[u] = tx[u] /\ ChoreRow(c) \notin tx[u].locks
  BY <1>1 DEF Free
<1>7. \A u \in Sessions : \A d \in Chores : ChoreRow(d) \in tx[u].locks => chore'[d] = chore[d]
  BY <1>4, <1>6
<1>8. \A u \in Sessions : Stands(u)
  BY <1>2, <1>6, <1>7, ChoreStands
<1> QED BY <1>1, <1>3, <1>5, <1>8, StatementKeeps

LEMMA DayKeeps ==
  ASSUME IInv, DayPasses, UNCHANGED <<tx, faults>>
  PROVE  IInv'
<1>1. now' = now + 1 /\ chore' = chore /\ trade' = trade /\ reservation' = reservation
  BY DEF DayPasses, tables
<1>2. now \in Nat /\ chore' \in [Chores -> ChoreRecord]
  BY <1>1 DEF IInv, TypeOK
<1>3. now' \in Nat /\ now <= now'
  BY <1>1, <1>2
<1>4. RowsTyped' /\ ReservationsMatchLive'
  BY <1>1, <1>2, <1>3, TradesAsTheyWere
<1>5. \A u \in Sessions : Stands(u)
  BY <1>1, ChoreStands
<1> QED BY <1>3, <1>4, <1>5, StatementKeeps

\* What Accept applies: both chores change hands, and it holds them.
LEMMA AcceptHolds ==
  ASSUME IInv, NEW s \in Sessions, AcceptCommit(s)
  PROVE  /\ tx[s].trade \in Trades /\ Live(tx[s].trade) /\ TradeRow(tx[s].trade) \in tx[s].locks
         /\ \A c \in Sides(tx[s].trade) :
              c \in Chores /\ ChoreRow(c) \in tx[s].locks /\ Swappable(tx[s].trade, c)
<1>1. tx[s].pc = "accept: count" /\ tx[s].hits = Sides(tx[s].trade)
  BY DEF AcceptCommit
<1>2. tx[s].trade \in Trades /\ Live(tx[s].trade) /\ TradeRow(tx[s].trade) \in tx[s].locks
      /\ \A c \in tx[s].hits : ChoreRow(c) \in tx[s].locks /\ Swappable(tx[s].trade, c)
  BY <1>1, Known DEF Assigned, Resolving, AcceptPCs, ResolvedPCs
<1>3. tx[s].hits \subseteq Chores
  BY Known DEF TxState
<1> QED BY <1>1, <1>2, <1>3

\* A chore given to another member.
HandedTo(r, m) == [r EXCEPT !.assignee = m]

LEMMA HandedToTyped ==
  ASSUME NEW r \in ChoreRecord, NEW m \in Members
  PROVE  HandedTo(r, m) \in ChoreRecord
BY DEF HandedTo, ChoreRecord

LEMMA AcceptCommitKeeps ==
  ASSUME IInv, NEW s \in Sessions, AcceptCommit(s)
  PROVE  IInv'
<1> DEFINE t == tx[s].trade
<1>1. /\ t \in Trades /\ Live(t) /\ TradeRow(t) \in tx[s].locks
      /\ \A c \in Sides(t) : c \in Chores /\ ChoreRow(c) \in tx[s].locks
  BY AcceptHolds
<1>2. /\ Swap(t) /\ Resolve({t}, "accepted") /\ Run(s, IdleTx)
      /\ now' = now /\ faults' = faults
  BY DEF AcceptCommit
<1>3. "accepted" \in Outcomes /\ {t} \in SUBSET Trades /\ \A x \in {t} : Live(x)
  BY <1>1 DEF Outcomes
<1>4. /\ trade[t].proposer \in Members /\ trade[t].responder \in Members
      /\ trade[t].offered \in Chores /\ trade[t].requested \in Chores
      /\ trade[t].offered # trade[t].requested
  BY <1>1 DEF IInv, TypeOK, Live
<1>5. chore \in [Chores -> ChoreRecord]
  BY DEF IInv, TypeOK
<1>6. /\ chore' \in [Chores -> ChoreRecord]
      /\ \A c \in Chores \ Sides(t) : chore'[c] = chore[c]
  <2> DEFINE a == trade[t].offered  b == trade[t].requested
             m == trade[t].responder  n == trade[t].proposer
             x == HandedTo(chore[a], m)
             y == HandedTo(chore[b], n)
             f == [chore EXCEPT ![a] = x]
  <2>1. a \in Chores /\ b \in Chores /\ a # b /\ m \in Members /\ n \in Members
    BY ONLY <1>4, Zenon
  <2>2. chore' = [chore EXCEPT ![a] = x, ![b] = HandedTo(f[b], n)]
    BY <1>2, ZenonT(60) DEF Swap, HandedTo
  <2> HIDE DEF a, b, m, n
  <2>3. x \in ChoreRecord /\ y \in ChoreRecord
    <3>1. chore[a] \in ChoreRecord /\ chore[b] \in ChoreRecord
      BY ONLY <1>5, <2>1
    <3> QED
      BY ONLY <2>1, <3>1, HandedToTyped
  <2> HIDE DEF x
  <2>4. f \in [Chores -> ChoreRecord] /\ (\A c \in Chores \ {a} : f[c] = chore[c]) /\ f[b] = chore[b]
    BY ONLY <1>5, <2>1, <2>3
  <2>5. chore' = [f EXCEPT ![b] = y]
    BY ONLY <2>2, <2>4
  <2> HIDE DEF f, y
  <2>6. chore' \in [Chores -> ChoreRecord] /\ \A c \in Chores \ {b} : chore'[c] = f[c]
    BY ONLY <2>1, <2>3, <2>4, <2>5
  <2> QED BY ONLY <2>4, <2>6 DEF Sides, a, b, Zenon
<1>7. RowsTyped' /\ ReservationsMatchLive'
  BY <1>2, <1>3, <1>6, ResolveTyped, ResolveKeepsMatch, ZenonT(60)
<1>8. ASSUME NEW u \in Sessions \ {s}, tx'[u] = tx[u] PROVE Stands(u)
  <2>1. /\ \A x \in {t} : TradeRow(x) \notin tx[u].locks
        /\ \A c \in Sides(t) : ChoreRow(c) \notin tx[u].locks
    BY <1>1 DEF IInv, LockMutex
  <2>2. \A c \in Chores : ChoreRow(c) \in tx[u].locks => chore'[c] = chore[c]
    BY <1>6, <2>1
  <2> QED BY <1>2, <1>3, <1>8, <2>1, <2>2, ResolveStands
<1> QED BY <1>2, <1>7, <1>8, EndKeeps

LEMMA ProposeHolds ==
  ASSUME IInv, NEW s \in Sessions, ProposeCommit(s)
  PROVE  /\ tx[s].trade \in Trades /\ trade[tx[s].trade].status = "absent"
         /\ tx[s].proposer \in Members /\ tx[s].responder \in Members
         /\ tx[s].proposer # tx[s].responder
         /\ tx[s].offered \in Chores /\ tx[s].requested \in Chores
         /\ tx[s].offered # tx[s].requested
         /\ Tradeable(tx[s].offered) /\ chore[tx[s].offered].assignee = tx[s].proposer
         /\ Tradeable(tx[s].requested) /\ chore[tx[s].requested].assignee = tx[s].responder
         /\ ~LiveOn({tx[s].offered, tx[s].requested})
         /\ \A c \in {tx[s].offered, tx[s].requested} :
              ChoreRow(c) \in tx[s].locks /\ ReservationKey(c) \in tx[s].locks
         /\ \A u \in Sessions \ {s} : tx[u].trade # tx[s].trade
<1>1. tx[s].pc = "propose: commit" /\ tx[s].pc \in ProposePCs
  BY DEF ProposeCommit, ProposePCs
<1>2. /\ tx[s].trade \in Trades
      /\ tx[s].proposer \in Members /\ tx[s].responder \in Members
      /\ tx[s].proposer # tx[s].responder
      /\ tx[s].offered \in Chores /\ tx[s].requested \in Chores
      /\ tx[s].offered # tx[s].requested
  BY <1>1, Known DEF Assigned
<1>3. trade[tx[s].trade].status = "absent" /\ \A u \in Sessions \ {s} : tx[u].trade # tx[s].trade
  BY <1>1 DEF IInv, FreshIds
<1>4. /\ Tradeable(tx[s].offered) /\ chore[tx[s].offered].assignee = tx[s].proposer
      /\ Tradeable(tx[s].requested) /\ chore[tx[s].requested].assignee = tx[s].responder
      /\ ~LiveOn({tx[s].offered, tx[s].requested})
      /\ tx[s].locks = {ChoreRow(c) : c \in {tx[s].offered, tx[s].requested}}
                         \cup {ReservationKey(c) : c \in {tx[s].offered, tx[s].requested}}
  BY <1>1, Known DEF Proposing, Pair
<1> QED BY <1>2, <1>3, <1>4

LEMMA ProposeCommitKeeps ==
  ASSUME IInv, NEW s \in Sessions, ProposeCommit(s)
  PROVE  IInv'
<1> DEFINE t == tx[s].trade  a == tx[s].offered  b == tx[s].requested
           row == [status |-> "proposed", proposer |-> tx[s].proposer, responder |-> tx[s].responder,
                   offered |-> a, requested |-> b, expires |-> TradeExpiry(a, b)]
<1>1. /\ t \in Trades /\ trade[t].status = "absent"
      /\ tx[s].proposer \in Members /\ tx[s].responder \in Members
      /\ tx[s].proposer # tx[s].responder
      /\ a \in Chores /\ b \in Chores /\ a # b /\ ~LiveOn({a, b})
      /\ \A c \in {a, b} : ChoreRow(c) \in tx[s].locks /\ ReservationKey(c) \in tx[s].locks
      /\ \A u \in Sessions \ {s} : tx[u].trade # t
  BY ProposeHolds
<1>2. /\ Run(s, IdleTx) /\ now' = now /\ chore' = chore /\ faults' = faults
      /\ trade' = [trade EXCEPT ![t] = row]
      /\ reservation' = [c \in Chores |-> IF c \in {a, b} THEN t ELSE reservation[c]]
  BY DEF ProposeCommit, Insert
<1>3. /\ trade \in [Trades -> TradeRecord] /\ reservation \in [Chores -> Trades \cup {None}]
      /\ now \in Nat /\ chore \in [Chores -> ChoreRecord]
  BY DEF IInv, TypeOK
<1>4. DueDay[a] \in Nat /\ DueDay[b] \in Nat
  BY <1>1, DueAssumption
<1>5. TradeExpiry(a, b) \in Nat /\ \A c \in {a, b} : TradeExpiry(a, b) <= DueDay[c] + 1
  BY <1>4 DEF TradeExpiry
<1>6. row \in TradeRecord
  BY <1>1, <1>5 DEF TradeRecord
<1>7. /\ row.status = "proposed" /\ row.proposer = tx[s].proposer /\ row.responder = tx[s].responder
      /\ row.offered = a /\ row.requested = b /\ row.expires = TradeExpiry(a, b)
  OBVIOUS
<1> HIDE DEF row
<1>8. /\ trade' \in [Trades -> TradeRecord] /\ trade'[t] = row
      /\ \A x \in Trades \ {t} : trade'[x] = trade[x]
  BY <1>1, <1>2, <1>3, <1>6
<1>9. reservation' \in [Chores -> Trades \cup {None}]
  BY <1>1, <1>2, <1>3
<1>10. \A x \in Trades : trade'[x].status # "absent" =>
       /\ trade'[x].proposer \in Members /\ trade'[x].responder \in Members \ {trade'[x].proposer}
       /\ trade'[x].offered \in Chores /\ trade'[x].requested \in Chores \ {trade'[x].offered}
       /\ \A c \in {trade'[x].offered, trade'[x].requested} : trade'[x].expires <= DueDay[c] + 1
  <2>1. \A x \in Trades \ {t} : trade[x].status # "absent" =>
       /\ trade[x].proposer \in Members /\ trade[x].responder \in Members \ {trade[x].proposer}
       /\ trade[x].offered \in Chores /\ trade[x].requested \in Chores \ {trade[x].offered}
       /\ \A c \in {trade[x].offered, trade[x].requested} : trade[x].expires <= DueDay[c] + 1
    BY DEF IInv, TypeOK, Sides
  <2>2. /\ row.proposer \in Members /\ row.responder \in Members \ {row.proposer}
        /\ row.offered \in Chores /\ row.requested \in Chores \ {row.offered}
        /\ \A c \in {row.offered, row.requested} : row.expires <= DueDay[c] + 1
    BY <1>1, <1>5, <1>7
  <2> QED BY <1>8, <2>1, <2>2
<1>11. RowsTyped'
  BY <1>2, <1>3, <1>8, <1>9, <1>10 DEF RowsTyped, Sides
<1>12. \A c \in Chores, x \in Trades :
         reservation[c] = x <=> trade[x].status = "proposed" /\ c \in {trade[x].offered, trade[x].requested}
  BY DEF IInv, ReservationsMatchLive, Live, Sides
<1>13. \A c \in {a, b}, x \in Trades :
         ~(trade[x].status = "proposed" /\ c \in {trade[x].offered, trade[x].requested})
  BY <1>1 DEF LiveOn, Live, Sides
<1>14. ReservationsMatchLive'
  <2> SUFFICES ASSUME NEW c \in Chores, NEW x \in Trades
               PROVE  reservation'[c] = x <=>
                        trade'[x].status = "proposed" /\ c \in {trade'[x].offered, trade'[x].requested}
    BY DEF ReservationsMatchLive, Live, Sides
  <2>1. reservation'[c] = IF c \in {a, b} THEN t ELSE reservation[c]
    BY <1>2
  <2>2. CASE x = t
    BY <1>1, <1>7, <1>8, <1>12, <2>1, <2>2
  <2>3. CASE x # t
    BY <1>8, <1>12, <1>13, <2>1, <2>3
  <2> QED BY <2>2, <2>3
<1>15. ASSUME NEW u \in Sessions \ {s}, tx'[u] = tx[u] PROVE Stands(u)
  <2>1. \A c \in {a, b} : ChoreRow(c) \notin tx[u].locks
    BY <1>1 DEF IInv, LockMutex
  <2>2. \A x \in Trades : Live(x) /\ TradeRow(x) \in tx[u].locks =>
          trade'[x] = trade[x] /\ \A c \in Chores : reservation[c] = x => reservation'[c] = x
    <3> SUFFICES ASSUME NEW x \in Trades, Live(x)
                 PROVE  trade'[x] = trade[x] /\ \A c \in Chores : reservation[c] = x => reservation'[c] = x
      OBVIOUS
    <3>1. x # t
      BY <1>1 DEF Live
    <3>2. \A c \in {a, b} : reservation[c] # x
      BY <1>1, <1>12, <1>13
    <3> QED BY <1>2, <1>8, <3>1, <3>2
  <2>3. tx[u].pc \in ProposePCs => trade'[tx[u].trade] = trade[tx[u].trade]
    BY <1>1, <1>8, Known DEF Assigned
  <2>4. \A x \in Trades : trade'[x] # trade[x] /\ trade'[x].status = "proposed" =>
          ChoreRow(trade'[x].offered) \notin tx[u].locks /\ ChoreRow(trade'[x].requested) \notin tx[u].locks
    BY <1>7, <1>8, <2>1
  <2> QED BY <1>2, <1>15, <2>2, <2>3, <2>4 DEF Stands
<1> QED BY <1>2, <1>11, <1>14, <1>15, EndKeeps
-----------------------------------------------------------------------------
(* The invariant. *)

LEMMA InitIsFine == Init => IInv
<1> SUFFICES ASSUME Init PROVE IInv
  OBVIOUS
<1>1. /\ now = 0 /\ tx = [s \in Sessions |-> IdleTx] /\ faults = 0
      /\ chore = [c \in Chores |-> [status |-> "pending", assignee |-> FirstHolder[c], claimed |-> FALSE]]
      /\ trade = [t \in Trades |-> NoTrade]
      /\ reservation = [c \in Chores |-> None]
  BY DEF Init, TablesInit
<1>2. NoTrade \in TradeRecord /\ NoTrade.status = "absent"
  BY DEF NoTrade, TradeRecord
<1>3. chore \in [Chores -> ChoreRecord]
  BY <1>1, HolderAssumption DEF ChoreRecord
<1>4. RowsTyped
  BY <1>1, <1>2, <1>3 DEF RowsTyped
<1>5. tx \in [Sessions -> TxState] /\ faults \in 0..MaxFaults
  BY <1>1, IdleFields, FailAssumption
<1>6. TypeOK
  BY <1>4, <1>5, TypeParts
<1>7. ReservationsMatchLive
  BY <1>1, <1>2, NoneIsNothing DEF ReservationsMatchLive, Live
<1>8. LockMutex
  BY <1>1, IdleFields DEF LockMutex
<1>9. FreshIds
  BY <1>1, IdleFields DEF FreshIds, ProposePCs
<1>10. \A s \in Sessions : SessionOK(tx[s])
  BY <1>1, IdleIsFine
<1> QED BY <1>6, <1>7, <1>8, <1>9, <1>10 DEF IInv

LEMMA StepKeeps ==
  ASSUME IInv, NEW s \in Sessions, Step(s)
  PROVE  IInv'
<1>1. CASE ProposeLock(s) \/ ProposeCheck(s) \/ ProposeInsert(s) \/ ProposeCommit(s)
  BY <1>1, ProposeLockKeeps, ProposeCheckKeeps, ProposeInsertKeeps, ProposeCommitKeeps
<1>2. CASE AcceptResolve(s) \/ AcceptSwap(s) \/ AcceptVisit(s) \/ AcceptCommit(s) \/ AcceptRefused(s)
  BY <1>2, AcceptResolveKeeps, AcceptSwapKeeps, AcceptVisitKeeps, AcceptCommitKeeps, AcceptRefusedKeeps
<1>3. CASE DeclineResolve(s) \/ DeclineCommit(s)
  BY <1>3, DeclineResolveKeeps, DeclineCommitKeeps
<1>4. CASE OverdueBegin(s) \/ OverdueVisit(s) \/ OverdueCommit(s)
  BY <1>4, OverdueBeginKeeps, OverdueVisitKeeps, OverdueCommitKeeps
<1>5. CASE ExpireSweep(s) \/ ExpireCommit(s)
  BY <1>5, ExpireSweepKeeps, ExpireCommitKeeps
<1> QED BY <1>1, <1>2, <1>3, <1>4, <1>5 DEF Step

LEMMA StutterKeeps == IInv /\ UNCHANGED vars => IInv'
<1> SUFFICES ASSUME IInv, UNCHANGED vars PROVE IInv'
  OBVIOUS
<1>1. /\ now' = now /\ chore' = chore /\ trade' = trade /\ reservation' = reservation
      /\ tx' = tx /\ faults' = faults
  BY DEF vars
<1>2. now \in Nat /\ now <= now' /\ now' \in Nat /\ chore' \in [Chores -> ChoreRecord]
  BY <1>1 DEF IInv, TypeOK
<1>3. RowsTyped' /\ ReservationsMatchLive'
  BY <1>1, <1>2, TradesAsTheyWere
<1>4. \A u \in Sessions : Stands(u)
  BY <1>1, ChoreStands
<1> QED BY <1>1, <1>2, <1>3, <1>4, StatementKeeps

LEMMA NextKeeps == IInv /\ [Next]_vars => IInv'
<1> SUFFICES ASSUME IInv, [Next]_vars PROVE IInv'
  OBVIOUS
<1>1. CASE UNCHANGED vars
  BY <1>1, StutterKeeps
<1>2. CASE DayPasses /\ UNCHANGED <<tx, faults>>
  BY <1>2, DayKeeps
<1>3. CASE ChoreWork
  BY <1>3, ChoreWorkKeeps
<1>4. CASE \E t \in Trades : Cancel(t)
  BY <1>4, CancelKeeps
<1>5. ASSUME NEW s \in Sessions,
             \/ ProposeBegin(s) \/ AcceptBegin(s) \/ DeclineBegin(s) \/ CycleBegin(s)
             \/ Step(s) \/ DeadlockVictim(s) \/ Fault(s)
      PROVE  IInv'
  BY <1>5, ProposeBeginKeeps, AcceptBeginKeeps, DeclineBeginKeeps, CycleBeginKeeps,
     StepKeeps, VictimKeeps, FaultKeeps
<1> QED BY <1>1, <1>2, <1>3, <1>4, <1>5 DEF Next

\* In every reachable state the tables are as TypeOK and ReservationsMatchLive
\* say, a lock has one holder, and every open transaction knows what its
\* statements so far have found: IInv, the invariant the others follow from.
THEOREM TradesInvariant == Spec => []IInv
BY InitIsFine, NextKeeps, PTL DEF Spec

\* Types, the CHECK constraints of chore_trade and the expiry of a trade, no
\* later than the end of either due day (migration 00021).
THEOREM TradesTypeCorrect == Spec => []TypeOK
<1>1. IInv => TypeOK
  BY DEF IInv
<1> QED BY <1>1, TradesInvariant, PTL

\* chore_trade_reservation says exactly which chores are in a live trade, so
\* none is in two, whatever transactions commit in whatever order.
THEOREM ReservationsAreExact == Spec => []ReservationsMatchLive
<1>1. IInv => ReservationsMatchLive
  BY DEF IInv
<1> QED BY <1>1, TradesInvariant, PTL

\* The check that Propose makes without locking the trades is conclusive: its
\* INSERT never waits for a reservation and never hits the primary key.
THEOREM InsertsAreGranted == Spec => []ReservationsGranted
<1>1. ASSUME IInv PROVE ReservationsGranted
  <2> SUFFICES ASSUME NEW s \in Sessions, tx[s].pc = "propose: insert",
                      NEW c \in {tx[s].offered, tx[s].requested}
               PROVE  reservation[c] = None /\ Free(ReservationKey(c))
    BY DEF ReservationsGranted
  <2>1. /\ c \in Chores /\ c \in Pair(tx[s]) /\ ~LiveOn(Pair(tx[s]))
        /\ tx[s].locks = {ChoreRow(d) : d \in Pair(tx[s])}
    BY <1>1, Known, ZenonT(60) DEF Proposing, Assigned, ProposePCs, Pair
  <2>2. \A t \in Trades : reservation[c] # t
    BY <1>1, <2>1 DEF IInv, ReservationsMatchLive, LiveOn
  <2>3. reservation[c] = None
    BY <1>1, <2>1, <2>2 DEF IInv, TypeOK
  <2>4. ASSUME NEW u \in Sessions, ReservationKey(c) \in tx[u].locks PROVE FALSE
    <3>1. c \in Pair(tx[u]) /\ ChoreRow(c) \in tx[u].locks /\ tx[u].pc = "propose: commit"
      BY <1>1, <2>1, <2>2, <2>4, KeyHolder
    <3>2. ChoreRow(c) \in tx[s].locks /\ u # s
      BY <2>1, <3>1
    <3> QED BY <1>1, <3>1, <3>2 DEF IInv, LockMutex
  <2> QED BY <2>3, <2>4 DEF Free
<1> QED BY <1>1, TradesInvariant, PTL

-----------------------------------------------------------------------------
(* Waiting. *)

\* Among proposals that wait, the one waited for waits for a higher row.
LEMMA WaitsAscend ==
  ASSUME IInv, NEW S \in SUBSET {s \in Sessions : tx[s].pc \in {"propose: lock", "propose: insert"}},
         Deadlocked(S), NEW s \in S
  PROVE  /\ tx[s].row \in Nat
         /\ \E u \in S : tx[s].row < tx[u].row
<1>1. \A u \in S : \/ tx[u].pc = "propose: insert" /\ tx[u].locks = {ChoreRow(c) : c \in Pair(tx[u])}
                   \/ /\ tx[u].pc = "propose: lock"
                      /\ tx[u].locks = {ChoreRow(c) : c \in Pair(tx[u]) \ tx[u].todo}
  BY Known DEF Proposing
<1>2. \A u \in S : tx[u].pc = "propose: lock"
  <2> SUFFICES ASSUME NEW u \in S, tx[u].pc = "propose: insert" PROVE FALSE
    OBVIOUS
  <2>1. PICK v \in S : Wants(u) \cap tx[v].locks # {}
    BY DEF Deadlocked, Blockers
  <2>2. Wants(u) = {ReservationKey(tx[u].offered), ReservationKey(tx[u].requested)}
    BY DEF Wants
  <2>3. PICK x \in Wants(u) : x \in tx[v].locks
    BY <2>1
  <2>4. \E c \in Chores \cup {None} : x = ReservationKey(c)
    BY <2>2, <2>3, Known DEF TxState
  <2>5. \E c \in Pair(tx[v]) : x = ChoreRow(c)
    <3>1. CASE tx[v].locks = {ChoreRow(c) : c \in Pair(tx[v])}
      BY ONLY <2>3, <3>1
    <3>2. CASE tx[v].locks = {ChoreRow(c) : c \in Pair(tx[v]) \ tx[v].todo}
      BY ONLY <2>3, <3>2
    <3> QED BY <1>1, <3>1, <3>2
  <2> QED BY <2>4, <2>5, Distinct
<1>3. PICK u \in S : Wants(s) \cap tx[u].locks # {}
  BY DEF Deadlocked, Blockers
<1>4. tx[s].pc \in VisitPCs /\ tx[u].pc \in VisitPCs
  BY <1>2 DEF VisitPCs
<1>5. Wants(s) = {ChoreRow(tx[s].row)} /\ tx[s].row \in Chores
  BY <1>4, WantsRow
<1>6. tx[s].row \in Pair(tx[u]) \ tx[u].todo
  <2>1. ChoreRow(tx[s].row) \in {ChoreRow(c) : c \in Pair(tx[u]) \ tx[u].todo}
    BY <1>1, <1>2, <1>3, <1>5
  <2> QED BY <2>1, Distinct
<1>7. tx[u].row \in tx[u].todo
  BY <1>4, WantsRow
<1>8. tx[s].row < tx[u].row
  BY <1>2, <1>6, <1>7, Known DEF Proposing
<1> QED BY <1>5, <1>8, SetsAssumption

\* However the chores of concurrent proposals overlap, they never wait for each
\* other in a circle: the highest row among the rows they wait for would have
\* to be lower than another (lockTradeInstances, ORDER BY id).
THEOREM ProposalsDoNotDeadlock == Spec => []ProposalsNeverDeadlock
<1>1. ASSUME IInv PROVE ProposalsNeverDeadlock
  <2> SUFFICES ASSUME NEW S \in SUBSET {s \in Sessions : tx[s].pc \in {"propose: lock", "propose: insert"}},
                      Deadlocked(S)
               PROVE  FALSE
    BY DEF ProposalsNeverDeadlock
  <2> DEFINE rows == {tx[s].row : s \in S}
             f == [s \in S |-> tx[s].row]
  <2>1. \A s \in S : tx[s].row \in Nat /\ \E u \in S : tx[s].row < tx[u].row
    BY <1>1, WaitsAscend
  <2>2. IsFiniteSet(rows)
    <3>1. IsFiniteSet(S)
      <4>1. S \subseteq Sessions /\ IsFiniteSet(Sessions)
        BY FiniteAssumption DEF Sessions
      <4> QED BY ONLY <4>1, FS_Subset
    <3>2. f \in Surjection(S, rows)
      BY DEF Surjection
    <3> QED BY ONLY <3>1, <3>2, FS_Surjection
  <2>3. rows \in SUBSET Nat /\ rows # {} /\ \A s \in S : tx[s].row \in rows
    BY <2>1 DEF Deadlocked
  <2>4. \A n \in rows : \E s \in S : n = tx[s].row
    OBVIOUS
  <2> HIDE DEF rows
  <2>5. PICK n \in rows : \A k \in rows : ~(n < k)
    BY ONLY <2>2, <2>3, GreatestNatural
  <2>6. PICK s \in S : n = tx[s].row
    BY <2>4
  <2>7. PICK u \in S : tx[s].row < tx[u].row
    BY <2>1
  <2>8. tx[u].row \in rows
    BY <2>3
  <2> QED BY ONLY <2>5, <2>6, <2>7, <2>8
<1> QED BY <1>1, TradesInvariant, PTL
-----------------------------------------------------------------------------
(* The board. *)

\* TradeBoard's operators read the same tables under either name.
LEMMA BoardReads ==
  /\ \A c : Board!Tradeable(c) = Tradeable(c)
  /\ \A t : Board!Live(t) = Live(t) /\ Board!Sides(t) = Sides(t)
  /\ \A S : Board!LiveOn(S) = LiveOn(S)
  /\ \A t, day : Board!Lapsed(t, day) = Lapsed(t, day) /\ Board!PastDue(t, day) = PastDue(t, day)
  /\ \A t, c : Board!HeldByParty(t, c) = HeldByParty(t, c)
  /\ \A c : Board!Closable(c) = Closable(c)
<1>1. \A c : Board!Tradeable(c) = Tradeable(c)
  BY DEF Board!Tradeable, Tradeable
<1>2. \A t : Board!Live(t) = Live(t) /\ Board!Sides(t) = Sides(t)
  BY DEF Board!Live, Live, Board!Sides, Sides
<1>3. \A S : Board!LiveOn(S) = LiveOn(S)
  BY <1>2 DEF Board!LiveOn, LiveOn
<1>4. \A t, day : Board!Lapsed(t, day) = Lapsed(t, day) /\ Board!PastDue(t, day) = PastDue(t, day)
  BY <1>2 DEF Board!Lapsed, Lapsed, Board!PastDue, PastDue
<1>5. \A t, c : Board!HeldByParty(t, c) = HeldByParty(t, c)
  BY DEF Board!HeldByParty, HeldByParty
<1>6. \A c : Board!Closable(c) = Closable(c)
  BY DEF Board!Closable, Closable
<1> QED BY <1>1, <1>2, <1>3, <1>4, <1>5, <1>6

LEMMA BoardResolves ==
  ASSUME NEW T, NEW outcome, Resolve(T, outcome)
  PROVE  Board!Resolve(T, outcome)
BY DEF Resolve, Board!Resolve, Freed, Board!Freed

\* Which steps of a session change a table.
LEMMA SessionKinds ==
  ASSUME NEW s \in Sessions,
         \/ ProposeBegin(s) \/ AcceptBegin(s) \/ DeclineBegin(s) \/ CycleBegin(s)
         \/ Step(s) \/ DeadlockVictim(s) \/ Fault(s)
  PROVE  \/ UNCHANGED <<now, tables>>
         \/ ProposeCommit(s) \/ AcceptCommit(s) \/ DeclineCommit(s)
         \/ OverdueCommit(s) \/ ExpireCommit(s)
<1>1. ProposeBegin(s) \/ AcceptBegin(s) \/ DeclineBegin(s) \/ CycleBegin(s) => UNCHANGED <<now, tables>>
  BY ZenonT(60) DEF ProposeBegin, AcceptBegin, DeclineBegin, CycleBegin
<1>2. DeadlockVictim(s) \/ Fault(s) => UNCHANGED <<now, tables>>
  BY DEF DeadlockVictim, Fault, Fails
<1>3. ProposeLock(s) \/ ProposeCheck(s) \/ ProposeInsert(s) => UNCHANGED <<now, tables>>
  BY DEF ProposeLock, ProposeCheck, ProposeInsert
<1>4. \/ AcceptResolve(s) \/ AcceptSwap(s) \/ AcceptVisit(s) \/ AcceptRefused(s)
      \/ DeclineResolve(s)
      => UNCHANGED <<now, tables>>
  BY DEF AcceptResolve, AcceptSwap, AcceptVisit, AcceptRefused, Rollback, DeclineResolve
<1>5. OverdueBegin(s) \/ OverdueVisit(s) \/ ExpireSweep(s) => UNCHANGED <<now, tables>>
  BY DEF OverdueBegin, OverdueVisit, ExpireSweep
<1> QED BY <1>1, <1>2, <1>3, <1>4, <1>5 DEF Step

LEMMA BoardStep ==
  ASSUME IInv, [Next]_vars
  PROVE  [Board!BoardNext]_<<now, Board!tables>>
<1>1. UNCHANGED <<now, tables>> => UNCHANGED <<now, Board!tables>>
  BY DEF tables, Board!tables
<1>2. CASE UNCHANGED vars
  BY <1>2 DEF vars, Board!tables
<1>3. CASE DayPasses
  BY <1>3 DEF DayPasses, Board!DayPasses, tables, Board!tables, Board!BoardNext
<1>4. CASE ChoreWork
  <2>1. PICK c \in Chores : ClaimChore(c) \/ CloseChore(c)
    BY <1>4 DEF ChoreWork
  <2>2. Board!ClaimChore(c) \/ Board!CloseChore(c)
    BY <2>1 DEF ClaimChore, CloseChore, Board!ClaimChore, Board!CloseChore, Closable, Board!Closable
  <2> QED BY <2>2 DEF Board!BoardNext
<1>5. ASSUME NEW t \in Trades, NEW outcome \in {"declined", "cancelled"},
             Live(t), Resolve({t}, outcome), UNCHANGED <<now, chore>>
      PROVE  Board!BoardNext
  <2>1. Board!Refuse
    BY <1>5, BoardReads, BoardResolves DEF Board!Refuse
  <2> QED BY <2>1 DEF Board!BoardNext
<1>6. CASE \E t \in Trades : Cancel(t)
  BY <1>5, <1>6 DEF Cancel
<1>7. ASSUME NEW s \in Sessions, ProposeCommit(s) PROVE Board!BoardNext
  <2> DEFINE t == tx[s].trade  m == tx[s].proposer  n == tx[s].responder
             a == tx[s].offered  b == tx[s].requested
  <2>1. /\ t \in Trades /\ m \in Members /\ n \in Members /\ a \in Chores /\ b \in Chores
        /\ m # n /\ a # b
        /\ trade[t].status = "absent"
        /\ Tradeable(a) /\ chore[a].assignee = m
        /\ Tradeable(b) /\ chore[b].assignee = n
        /\ ~LiveOn({a, b})
    BY <1>7, ProposeHolds
  <2>2. Insert(t, m, n, a, b) /\ UNCHANGED <<now, chore>>
    BY <1>7 DEF ProposeCommit
  <2>3. Board!Insert(t, m, n, a, b)
    BY <2>2 DEF Insert, Board!Insert, TradeExpiry, Board!TradeExpiry
  <2>4. Board!Tradeable(a) /\ Board!Tradeable(b) /\ ~Board!LiveOn({a, b})
    BY <2>1, BoardReads
  <2> HIDE DEF t, m, n, a, b
  <2>5. Board!Propose
    BY <2>1, <2>2, <2>3, <2>4 DEF Board!Propose
  <2> QED BY <2>5 DEF Board!BoardNext
<1>8. ASSUME NEW s \in Sessions, AcceptCommit(s) PROVE Board!BoardNext
  <2> DEFINE t == tx[s].trade
  <2>1. t \in Trades /\ Live(t) /\ \A c \in Sides(t) : Swappable(t, c)
    BY <1>8, AcceptHolds
  <2>2. Swap(t) /\ Resolve({t}, "accepted") /\ UNCHANGED now
    BY <1>8 DEF AcceptCommit
  <2> HIDE DEF t
  <2>3. Board!Live(t) /\ \A c \in Board!Sides(t) : Board!Tradeable(c) /\ Board!HeldByParty(t, c)
    BY <2>1, BoardReads DEF Swappable
  <2>4. Board!Swap(t) /\ Board!Resolve({t}, "accepted")
    BY <2>2, BoardResolves DEF Swap, Board!Swap
  <2>5. Board!Accept
    BY <2>1, <2>2, <2>3, <2>4 DEF Board!Accept
  <2> QED BY <2>5 DEF Board!BoardNext
<1>9. ASSUME NEW s \in Sessions, DeclineCommit(s) PROVE Board!BoardNext
  <2>1. tx[s].trade \in Trades /\ Live(tx[s].trade)
    BY <1>9, Known DEF DeclineCommit, Assigned, Resolving, ResolvedPCs
  <2> QED BY <1>5, <1>9, <2>1 DEF DeclineCommit
<1>10. ASSUME NEW s \in Sessions, OverdueCommit(s) PROVE Board!BoardNext
  <2> DEFINE S == tx[s].hits
  <2>1. tx[s].at \in Nat /\ tx[s].at <= now /\ now \in Nat
    BY Known DEF TxState, IInv, TypeOK
  <2>2. S \in SUBSET Chores /\ \A c \in S : PastDue(c, tx[s].at)
    BY <1>10, Known DEF OverdueCommit, Sweeping, OverduePCs, TxState
  <2>3. \A c \in Chores : DueDay[c] \in Nat
    BY DueAssumption
  <2>4. \A c \in S : PastDue(c, now)
    <3> SUFFICES ASSUME NEW c \in S PROVE DueDay[c] < now /\ chore[c].status = "pending"
      BY DEF PastDue
    <3>1. DueDay[c] \in Nat /\ DueDay[c] < tx[s].at /\ chore[c].status = "pending"
      BY <2>2, <2>3 DEF PastDue
    <3>2. \A i, j, k \in Nat : i < j /\ j <= k => i < k
      OBVIOUS
    <3> QED BY <2>1, <3>1, <3>2
  <2>5. Board!MarkOverdue(S) /\ UNCHANGED <<now, trade, reservation>>
    BY <1>10 DEF OverdueCommit, MarkOverdue, Board!MarkOverdue
  <2> HIDE DEF S
  <2>6. Board!GoOverdue
    BY <2>2, <2>4, <2>5, BoardReads DEF Board!GoOverdue
  <2> QED BY <2>6 DEF Board!BoardNext
<1>11. ASSUME NEW s \in Sessions, ExpireCommit(s) PROVE Board!BoardNext
  <2> DEFINE T == tx[s].swept
  <2>1. tx[s].at \in Nat /\ tx[s].at <= now /\ now \in Nat
    BY Known DEF TxState, IInv, TypeOK
  <2>2. T \in SUBSET Trades /\ \A t \in T : Lapsed(t, tx[s].at)
    BY <1>11, Known DEF ExpireCommit, Sweeping, TxState
  <2>3. \A t \in Trades : trade[t].expires \in Nat
    BY DEF IInv, TypeOK, TradeRecord
  <2>4. \A t \in T : Lapsed(t, now)
    <3> SUFFICES ASSUME NEW t \in T PROVE Live(t) /\ trade[t].expires <= now
      BY DEF Lapsed
    <3>1. trade[t].expires \in Nat /\ trade[t].expires <= tx[s].at /\ Live(t)
      BY <2>2, <2>3 DEF Lapsed
    <3>2. \A i, j, k \in Nat : i <= j /\ j <= k => i <= k
      OBVIOUS
    <3> QED BY <2>1, <3>1, <3>2
  <2>5. Resolve(T, "expired") /\ UNCHANGED <<now, chore>>
    BY <1>11 DEF ExpireCommit
  <2> HIDE DEF T
  <2>6. Board!Resolve(T, "expired")
    BY <2>5, BoardResolves
  <2>7. Board!Expire
    BY <2>2, <2>4, <2>5, <2>6, BoardReads DEF Board!Expire
  <2> QED BY <2>7 DEF Board!BoardNext
<1>12. ASSUME NEW s \in Sessions,
              \/ ProposeBegin(s) \/ AcceptBegin(s) \/ DeclineBegin(s) \/ CycleBegin(s)
              \/ Step(s) \/ DeadlockVictim(s) \/ Fault(s)
       PROVE  [Board!BoardNext]_<<now, Board!tables>>
  BY <1>1, <1>7, <1>8, <1>9, <1>10, <1>11, <1>12, SessionKinds
<1> QED BY <1>2, <1>3, <1>4, <1>6, <1>12 DEF Next

\* Every transaction that commits is one atomic operation of the board: Accept
\* swaps two chores that are tradeable and held by the members who agreed, and
\* resolves their trade, in one step; no trade is resolved twice; Propose never
\* makes a second live trade of a chore; a sweep takes only what is over.
THEOREM TradesAreAtomic == Spec => ImplementsBoard
<1>1. Init => Board!TablesInit
  BY DEF Init, TablesInit, Board!TablesInit, NoTrade, Board!NoTrade
<1>2. IInv /\ [Next]_vars => [Board!BoardNext]_<<now, Board!tables>>
  BY BoardStep
<1> QED BY <1>1, <1>2, TradesInvariant, PTL DEF Spec, ImplementsBoard, Board!BoardSpec
=============================================================================
