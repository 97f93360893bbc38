------------------------------ MODULE ChoreTrade -----------------------------
(***************************************************************************)
(* Chore trades at the grain of their SQL statements.                      *)
(*                                                                         *)
(* A request runs Propose, Accept or Decline as a READ COMMITTED           *)
(* transaction; Cancel, and the claiming and closing of an assigned chore, *)
(* are single guarded UPDATEs.  A scheduler runs the two steps of its      *)
(* cycle that touch trades: the overdue UPDATE, then the trade expiry      *)
(* sweep.  What a transaction wrote is applied when it commits; until then *)
(* it is kept from others by its row locks, in the order each statement    *)
(* takes them.  A statement that locks several rows visits them one at a   *)
(* time: in id order under ORDER BY id, in an order of the server's choice *)
(* without.                                                                *)
(***************************************************************************)
EXTENDS TradeBoard

CONSTANTS
  Requests,        \* connections that serve members' requests
  Schedulers,      \* connections that run a scheduler's cycle
  MaxFaults        \* bound on the failures with no reason of their own

ASSUME SessionsAssumption == Requests \cap Schedulers = {}
ASSUME FailAssumption == MaxFaults \in Nat
ASSUME FiniteAssumption == IsFiniteSet(Requests \cup Schedulers)   \* the pool's MaxConns

VARIABLES
  tx,      \* tx[s]: the transaction of session s
  faults   \* history: how many statements or processes have failed

vars == <<now, chore, trade, reservation, tx, faults>>

Sessions == Requests \cup Schedulers

-----------------------------------------------------------------------------
(* Lockable resources and transaction records. *)
ChoreRow(c)       == <<"chore", c>>
TradeRow(t)       == <<"trade", t>>
ReservationKey(c) == <<"reservation", c>>

Resources == {ChoreRow(c) : c \in Chores} \cup {TradeRow(t) : t \in Trades}
             \cup {ReservationKey(c) : c \in Chores}

PCs == {"idle",
        "propose: lock", "propose: check", "propose: insert", "propose: commit",
        "accept: resolve", "accept: swap", "accept: visit", "accept: count",
        "decline: resolve", "decline: commit",
        "overdue: begin", "overdue: visit", "overdue: commit",
        "expire: sweep", "expire: commit"}

TxState ==
  [pc : PCs, at : Nat, locks : SUBSET Resources,
   trade : Trades \cup {None},
   proposer : Members \cup {None}, responder : Members \cup {None},
   offered : Chores \cup {None}, requested : Chores \cup {None},
   row  : Chores \cup {None},   \* the row the statement is about to lock
   todo : SUBSET Chores,        \* the rows it has yet to visit, row included
   hits : SUBSET Chores,        \* the rows it updated
   swept : SUBSET Trades]       \* the trades the sweep updated

IdleTx == [pc |-> "idle", at |-> 0, locks |-> {}, trade |-> None,
           proposer |-> None, responder |-> None, offered |-> None, requested |-> None,
           row |-> None, todo |-> {}, hits |-> {}, swept |-> {}]

Init == TablesInit /\ tx = [s \in Sessions |-> IdleTx] /\ faults = 0

-----------------------------------------------------------------------------
(* Locks. *)

\* The resources the next statement of session s must be granted.
Wants(s) ==
  CASE tx[s].pc \in {"propose: lock", "accept: visit", "overdue: visit"} ->
         {ChoreRow(tx[s].row)}
    [] tx[s].pc = "propose: insert" ->
         {ReservationKey(tx[s].offered), ReservationKey(tx[s].requested)}
    [] tx[s].pc \in {"accept: resolve", "decline: resolve"} /\ Live(tx[s].trade) ->
         {TradeRow(tx[s].trade)} \cup {ReservationKey(c) : c \in Freed({tx[s].trade})}
    [] OTHER -> {}

Blockers(s) == {t \in Sessions \ {s} : Wants(s) \cap tx[t].locks # {}}

Deadlocked(S) == S # {} /\ \A s \in S : Blockers(s) \cap S # {}

Free(res) == \A s \in Sessions : res \notin tx[s].locks

\* Session s waits for nobody and its transaction record becomes r.
Run(s, r) == /\ Blockers(s) = {}
             /\ tx' = [tx EXCEPT ![s] = r]

\* Mutant: a lock lasts for its own statement only.
AcquireForStatement(s, r) == Run(s, r)

\* As Run, and the wanted resources are held until the transaction ends.
Acquire(s, r) == Run(s, [r EXCEPT !.locks = @ \cup Wants(s)])

Rollback(s) == Run(s, IdleTx) /\ UNCHANGED <<now, tables, faults>>

\* Mutant: the SELECT ... FOR UPDATE has lost its ORDER BY.
AnyRow(S) == S

\* The row an ORDER BY id statement visits next.
LowestRow(S) == {c \in S : \A d \in S : c <= d}

\* The rows s has yet to visit after the one it waits for.
Rest(s) == tx[s].todo \ {tx[s].row}

\* s locks its row and r is what it knows then; it goes on to one of the rows
\* in next, or, with none left, to the statement after.
Visit(s, r, next, after) ==
  \/ Rest(s) = {} /\ Acquire(s, [r EXCEPT !.pc = after, !.row = None, !.todo = {}])
  \/ \E c \in next : Acquire(s, [r EXCEPT !.row = c, !.todo = Rest(s)])

-----------------------------------------------------------------------------
(* TradeService.Propose and TradeRepository.Propose. *)

ProposeBegin(s) ==
  \E t \in Trades, m, n \in Members, a, b \in Chores :
    /\ tx[s].pc = "idle" /\ s \in Requests
    /\ m # n /\ a # b
    /\ trade[t].status = "absent" /\ \A u \in Sessions : tx[u].trade # t  \* a fresh id
    /\ \E c \in LowestRow({a, b}) :
         Run(s, [IdleTx EXCEPT !.pc = "propose: lock", !.trade = t,
                   !.proposer = m, !.responder = n, !.offered = a, !.requested = b,
                   !.row = c, !.todo = {a, b}])
    /\ UNCHANGED <<now, tables, faults>>

\* lockTradeInstances.
ProposeLock(s) ==
  /\ tx[s].pc = "propose: lock"
  /\ Visit(s, tx[s], LowestRow(Rest(s)), "propose: check")
  /\ UNCHANGED <<now, tables, faults>>

\* Mutant: a chore counts as taken only by a trade with it in the same role.
LiveInSameRole(r) ==
  \E t \in Trades : Live(t) /\ (trade[t].offered = r.offered \/ trade[t].requested = r.requested)

\* hasLiveTradeProposal.
LiveProposal(r) == LiveOn({r.offered, r.requested})

Valid(r) ==
  /\ Tradeable(r.offered) /\ Tradeable(r.requested)
  /\ TradeExpiry(r.offered, r.requested) > now
  /\ chore[r.offered].assignee = r.proposer
  /\ chore[r.requested].assignee = r.responder
  /\ ~LiveProposal(r)

ProposeCheck(s) ==
  /\ tx[s].pc = "propose: check"
  /\ \/ Valid(tx[s])  /\ Run(s, [tx[s] EXCEPT !.pc = "propose: insert"])
     \/ ~Valid(tx[s]) /\ Run(s, IdleTx)
  /\ UNCHANGED <<now, tables, faults>>

\* The INSERT and the reservations its trigger inserts.  ReservationsGranted
\* is why it has no branch for the unique violation.
ProposeInsert(s) ==
  /\ tx[s].pc = "propose: insert"
  /\ Acquire(s, [tx[s] EXCEPT !.pc = "propose: commit"])
  /\ UNCHANGED <<now, tables, faults>>

ProposeCommit(s) ==
  /\ tx[s].pc = "propose: commit"
  /\ Run(s, IdleTx)
  /\ Insert(tx[s].trade, tx[s].proposer, tx[s].responder, tx[s].offered, tx[s].requested)
  /\ UNCHANGED <<now, chore, faults>>

-----------------------------------------------------------------------------
(* TradeRepository.Accept. *)

AcceptBegin(s) ==
  \E t \in Trades, m \in Members :
    /\ tx[s].pc = "idle" /\ s \in Requests
    /\ trade[t].status # "absent"
    /\ Run(s, [IdleTx EXCEPT !.pc = "accept: resolve", !.trade = t,
                             !.responder = m, !.at = now])
    /\ UNCHANGED <<now, tables, faults>>

\* The rows the resolving UPDATE matches.
Acceptable(r) ==
  /\ Live(r.trade)
  /\ trade[r.trade].responder = r.responder
  /\ trade[r.trade].expires > r.at

AcceptResolve(s) ==
  /\ tx[s].pc = "accept: resolve"
  /\ \/ Acceptable(tx[s])  /\ Acquire(s, [tx[s] EXCEPT !.pc = "accept: swap"])
     \/ ~Acceptable(tx[s]) /\ Run(s, IdleTx)
  /\ UNCHANGED <<now, tables, faults>>

\* Mutant: the swap has no guard on claimed_by.
SwappableEvenIfClaimed(t, c) == chore[c].status = "pending" /\ HeldByParty(t, c)

\* The rows the swapping UPDATE matches.
Swappable(t, c) == Tradeable(c) /\ HeldByParty(t, c)

\* The swap starts: its snapshot decides which rows it will visit.
AcceptSwap(s) ==
  LET t    == tx[s].trade
      seen == {c \in Sides(t) : Swappable(t, c)}
  IN
  /\ tx[s].pc = "accept: swap"
  /\ \/ seen = {} /\ Run(s, [tx[s] EXCEPT !.pc = "accept: count"])
     \/ \E c \in seen : Run(s, [tx[s] EXCEPT !.pc = "accept: visit", !.row = c, !.todo = seen])
  /\ UNCHANGED <<now, tables, faults>>

\* A row is matched again once it is locked, and updated if it still matches.
AcceptVisit(s) ==
  LET hit == {c \in {tx[s].row} : Swappable(tx[s].trade, c)} IN
  /\ tx[s].pc = "accept: visit"
  /\ Visit(s, [tx[s] EXCEPT !.hits = @ \cup hit], Rest(s), "accept: count")
  /\ UNCHANGED <<now, tables, faults>>

AcceptCommit(s) ==
  /\ tx[s].pc = "accept: count" /\ tx[s].hits = Sides(tx[s].trade)
  /\ Run(s, IdleTx)
  /\ Swap(tx[s].trade)
  /\ Resolve({tx[s].trade}, "accepted")
  /\ UNCHANGED <<now, faults>>

\* len(swaps) != 2.
AcceptRefused(s) ==
  /\ tx[s].pc = "accept: count" /\ tx[s].hits # Sides(tx[s].trade)
  /\ Rollback(s)

-----------------------------------------------------------------------------
(* TradeRepository.Decline and Cancel. *)

DeclineBegin(s) ==
  \E t \in Trades, m \in Members :
    /\ tx[s].pc = "idle" /\ s \in Requests
    /\ trade[t].status # "absent"
    /\ Run(s, [IdleTx EXCEPT !.pc = "decline: resolve", !.trade = t, !.responder = m])
    /\ UNCHANGED <<now, tables, faults>>

Declinable(r) == Live(r.trade) /\ trade[r.trade].responder = r.responder

DeclineResolve(s) ==
  /\ tx[s].pc = "decline: resolve"
  /\ \/ Declinable(tx[s])  /\ Acquire(s, [tx[s] EXCEPT !.pc = "decline: commit"])
     \/ ~Declinable(tx[s]) /\ Run(s, IdleTx)
  /\ UNCHANGED <<now, tables, faults>>

DeclineCommit(s) ==
  /\ tx[s].pc = "decline: commit"
  /\ Run(s, IdleTx)
  /\ Resolve({tx[s].trade}, "declined")
  /\ UNCHANGED <<now, chore, faults>>

Cancel(t) ==
  /\ Live(t) /\ Free(TradeRow(t))
  /\ Resolve({t}, "cancelled")
  /\ UNCHANGED <<now, chore, tx, faults>>

-----------------------------------------------------------------------------
(* Scheduler.RunOnce: MarkPendingOverdueAll, then TradeService.ExpireTrades. *)

CycleBegin(s) ==
  /\ tx[s].pc = "idle" /\ s \in Schedulers
  /\ Run(s, [IdleTx EXCEPT !.pc = "overdue: begin", !.at = now])
  /\ UNCHANGED <<now, tables, faults>>

OverdueBegin(s) ==
  LET seen == {c \in Chores : PastDue(c, tx[s].at)} IN
  /\ tx[s].pc = "overdue: begin"
  /\ \/ seen = {} /\ Run(s, [tx[s] EXCEPT !.pc = "expire: sweep"])
     \/ \E c \in seen : Run(s, [tx[s] EXCEPT !.pc = "overdue: visit", !.row = c, !.todo = seen])
  /\ UNCHANGED <<now, tables, faults>>

OverdueVisit(s) ==
  LET hit == {c \in {tx[s].row} : PastDue(c, tx[s].at)} IN
  /\ tx[s].pc = "overdue: visit"
  /\ Visit(s, [tx[s] EXCEPT !.hits = @ \cup hit], Rest(s), "overdue: commit")
  /\ UNCHANGED <<now, tables, faults>>

\* The cycle goes on to its next step, whether or not this one succeeded.
NextInCycle(s) == [IdleTx EXCEPT !.pc = "expire: sweep", !.at = tx[s].at]

OverdueCommit(s) ==
  /\ tx[s].pc = "overdue: commit"
  /\ Run(s, NextInCycle(s))
  /\ MarkOverdue(tx[s].hits)
  /\ UNCHANGED <<now, trade, reservation, faults>>

\* Mutant: the sweep overlooks trades whose chores are no longer tradeable.
TradeablyLapsed(t, day) == Lapsed(t, day) /\ \A c \in Sides(t) : Tradeable(c)

\* The rows the sweep's SELECT ... FOR UPDATE SKIP LOCKED returns.
Sweepable(t, day) == Lapsed(t, day)

ExpireSweep(s) ==
  LET T == {t \in Trades : Sweepable(t, tx[s].at) /\ Free(TradeRow(t))} IN
  /\ tx[s].pc = "expire: sweep"
  /\ Run(s, [tx[s] EXCEPT !.pc = "expire: commit", !.swept = T,
               !.locks = {TradeRow(t) : t \in T} \cup {ReservationKey(c) : c \in Freed(T)}])
  /\ UNCHANGED <<now, tables, faults>>

ExpireCommit(s) ==
  /\ tx[s].pc = "expire: commit"
  /\ Run(s, IdleTx)
  /\ Resolve(tx[s].swept, "expired")
  /\ UNCHANGED <<now, chore, faults>>

-----------------------------------------------------------------------------
(* Failures. *)

\* The server rolls back; a scheduler's cycle survives the failed UPDATE.
Fails(s) ==
  /\ tx' = [tx EXCEPT ![s] = IF tx[s].pc \in {"overdue: begin", "overdue: visit", "overdue: commit"}
                             THEN NextInCycle(s) ELSE IdleTx]
  /\ UNCHANGED <<now, tables>>

\* The deadlock detector aborts one transaction of a cycle of waits.
DeadlockVictim(s) ==
  /\ \E S \in SUBSET Sessions : s \in S /\ Deadlocked(S)
  /\ Fails(s)
  /\ UNCHANGED faults

Fault(s) ==
  /\ tx[s].pc # "idle" /\ faults < MaxFaults
  /\ faults' = faults + 1
  /\ \/ Fails(s)                                                        \* one statement
     \/ tx' = [tx EXCEPT ![s] = IdleTx] /\ UNCHANGED <<now, tables>>    \* the process

-----------------------------------------------------------------------------
(* Specification. *)

\* TaskInstanceRepository's single-row updates wait for a locked row.
ChoreWork ==
  \E c \in Chores : /\ Free(ChoreRow(c))
                    /\ ClaimChore(c) \/ CloseChore(c)
                    /\ UNCHANGED <<tx, faults>>

Step(s) ==
  \/ ProposeLock(s) \/ ProposeCheck(s) \/ ProposeInsert(s) \/ ProposeCommit(s)
  \/ AcceptResolve(s) \/ AcceptSwap(s) \/ AcceptVisit(s) \/ AcceptCommit(s) \/ AcceptRefused(s)
  \/ DeclineResolve(s) \/ DeclineCommit(s)
  \/ OverdueBegin(s) \/ OverdueVisit(s) \/ OverdueCommit(s)
  \/ ExpireSweep(s) \/ ExpireCommit(s)

Next ==
  \/ DayPasses /\ UNCHANGED <<tx, faults>>
  \/ ChoreWork
  \/ \E t \in Trades : Cancel(t)
  \/ \E s \in Sessions :
       \/ ProposeBegin(s) \/ AcceptBegin(s) \/ DeclineBegin(s) \/ CycleBegin(s)
       \/ Step(s) \/ DeadlockVictim(s) \/ Fault(s)

Spec == Init /\ [][Next]_vars

\* Time passes, the ticker fires, the database runs what it has granted, and
\* a row lock is not refused to the same waiter forever (lock queues are FIFO).
Fairness ==
  /\ WF_vars(DayPasses /\ UNCHANGED <<tx, faults>>)
  /\ \A s \in Schedulers : WF_vars(CycleBegin(s))
  /\ \A s \in Sessions : SF_vars(Step(s)) /\ WF_vars(DeadlockVictim(s))

FairSpec == Spec /\ Fairness

-----------------------------------------------------------------------------
(* Properties. *)

\* Types, and what the constraints of chore_trade (migration 00021) say of a
\* row: two different members, two different chores, and an expiry, fixed at
\* propose time, at the end of the earlier due day (TradeRepository.tradeExpiry).
TypeOK ==
  /\ now \in Nat
  /\ chore \in [Chores -> ChoreRecord]
  /\ trade \in [Trades -> TradeRecord]
  /\ reservation \in [Chores -> Trades \cup {None}]
  /\ tx \in [Sessions -> TxState] /\ faults \in 0..MaxFaults
  /\ \A t \in Trades : trade[t].status # "absent" =>
       /\ trade[t].proposer \in Members /\ trade[t].responder \in Members \ {trade[t].proposer}
       /\ trade[t].offered \in Chores /\ trade[t].requested \in Chores \ {trade[t].offered}
       /\ \A c \in Sides(t) : trade[t].expires <= DueDay[c] + 1

\* The reservation table says exactly which chores are in a live trade, so no
\* chore is in two of them, in whichever roles (chore_trade_reservation_sync).
ReservationsMatchLive ==
  \A c \in Chores, t \in Trades : reservation[c] = t <=> Live(t) /\ c \in Sides(t)

\* By the time Propose inserts, nothing holds or is about to release the
\* reservations it needs: its check after locking both chores was conclusive,
\* and the insert neither waits nor hits the primary key
\* (hasLiveTradeProposal's argument for reading without a lock).
ReservationsGranted ==
  \A s \in Sessions : tx[s].pc = "propose: insert" =>
    \A c \in {tx[s].offered, tx[s].requested} :
      reservation[c] = None /\ Free(ReservationKey(c))

\* However their chores overlap, proposals alone never wait for each other in
\* a circle: lockTradeInstances locks in id order.
ProposalsNeverDeadlock ==
  \A S \in SUBSET {s \in Sessions : tx[s].pc \in {"propose: lock", "propose: insert"}} :
    ~Deadlocked(S)

\* Every transaction that commits is one atomic operation of the board: a swap
\* happens only with an accepted trade, while both chores are tradeable and
\* held by the members who agreed; a resolved trade is never resolved again;
\* a chore is in one live trade at most; and a sweep takes only what is over.
Board == INSTANCE TradeBoard WITH
    now <- now, chore <- chore, trade <- trade, reservation <- reservation
ImplementsBoard == Board!BoardSpec

\* Every proposal is resolved in the end, also one whose chores were done,
\* claimed or became overdue meanwhile (ExpireTrades).
TradesResolve == \A t \in Trades : Live(t) ~> ~Live(t)

\* domain/ports.go says the order in which Propose and Accept take their locks
\* cannot form a cycle between the two.
ProposeNeverDeadlocksAccept ==
  \A s, t \in Sessions :
    tx[s].pc = "propose: lock" /\ tx[t].pc = "accept: visit" => ~Deadlocked({s, t})
=============================================================================
