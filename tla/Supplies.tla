------------------------------- MODULE Supplies -------------------------------
(***************************************************************************)
(* The shopping list, which the restock scheduler and the meal planner     *)
(* fill and the members work off, and one item of the pantry, used and     *)
(* topped up by concurrent requests.                                       *)
(*                                                                         *)
(* A line is what an entry is for: an ingredient to restock, or an         *)
(* ingredient and unit of the week's meals.  Whether a restock is due, and *)
(* what a plan asks for, are left open; manual entries are left out.       *)
(***************************************************************************)
EXTENDS Integers, FiniteSets

CONSTANTS
  Restocks,    \* the lines the restock scheduler raises
  Meals,       \* the lines the meal planner adds
  Runs,        \* scheduler passes and planner requests at one time
  Cooks,       \* pantry requests at one time
  Entries,     \* 1 .. n: bounds the entries ever added
  Stock,       \* what the pantry holds at first
  MaxStock,    \* the largest quantity: MaxQuantityAmount
  None

VARIABLES
  entry,    \* entry[i]: the i-th row of the shopping list
  run,      \* run[s]: the pass or request in progress at s
  notices,  \* notices[i]: how often the household was told of entry i
  stock,    \* the pantry item's quantity
  cook,     \* cook[u]: the pantry request in progress at u
  moved     \* history: the sum of what the answered requests moved

vars == <<entry, run, notices, stock, cook, moved>>

Lines    == Restocks \cup Meals
Statuses == {"needed", "in_cart", "purchased"}
NoEntry  == [line |-> None, status |-> "absent"]
Idle     == [pc |-> "idle", todo |-> {}, added |-> None]
AtRest   == [pc |-> "idle", delta |-> 0, read |-> 0]
Deltas   == {-2, -1, 1}

Init == /\ entry = [i \in Entries |-> NoEntry] /\ notices = [i \in Entries |-> 0]
        /\ run = [s \in Runs |-> Idle]
        /\ stock = Stock /\ cook = [u \in Cooks |-> AtRest] /\ moved = 0

Goto(s, r) == run' = [run EXCEPT ![s] = r]

-----------------------------------------------------------------------------
(* The shopping list. *)

\* Mutant: the partial index leaves out what is in the cart.
StillNeeded(e) == e.status = "needed"

\* The predicate of the partial unique indexes.
IsOpen(e) == e.status \in {"needed", "in_cart"}

OpenFor(line) == {i \in Entries : entry[i].line = line /\ IsOpen(entry[i])}

\* A restock pass takes the items found due, a planner the lines of the week.
Begin(s) ==
  /\ run[s].pc = "idle"
  /\ \E todo \in (SUBSET Restocks) \cup (SUBSET Meals) : todo # {} /\ Goto(s, [Idle EXCEPT !.pc = "add", !.todo = todo])
  /\ UNCHANGED <<entry, notices, stock, cook, moved>>

\* What follows an entry's insert, once line has been dealt with.
Done(s, line) == IF run[s].todo = {line} THEN Idle ELSE [Idle EXCEPT !.pc = "add", !.todo = run[s].todo \ {line}]

\* AddRestockIfAbsent and AddMealPlanIfAbsent: ON CONFLICT DO NOTHING.  Only a
\* restock that was inserted is followed by a notice.
AddIfAbsent(s, line) ==
  /\ run[s].pc = "add" /\ line \in run[s].todo
  /\ \/ /\ OpenFor(line) # {} /\ UNCHANGED entry
        /\ Goto(s, Done(s, line))
     \/ \E i \in Entries :
          /\ OpenFor(line) = {} /\ entry[i] = NoEntry /\ \A j \in Entries : j < i => entry[j] # NoEntry
          /\ entry' = [entry EXCEPT ![i] = [line |-> line, status |-> "needed"]]
          /\ \/ Goto(s, IF line \in Restocks THEN [run[s] EXCEPT !.pc = "notify", !.added = i] ELSE Done(s, line))
             \/ Goto(s, Idle)   \* carried out, the answer lost
  /\ UNCHANGED <<notices, stock, cook, moved>>

\* The notice is attempted once; the entry stays if it fails.
Notify(s) ==
  LET i == run[s].added
  IN  /\ run[s].pc = "notify"
      /\ notices' \in {notices, [notices EXCEPT ![i] = @ + 1]}
      /\ Goto(s, Done(s, entry[i].line))
      /\ UNCHANGED <<entry, stock, cook, moved>>

\* A failed item is passed over; a failed plan, or a stopped process, ends here.
Fail(s) ==
  /\ run[s].pc # "idle"
  /\ \/ Goto(s, Idle)
     \/ run[s].pc = "add" /\ \E line \in run[s].todo \cap Restocks : Goto(s, Done(s, line))
  /\ UNCHANGED <<entry, notices, stock, cook, moved>>

\* Any status to any other, unless the index finds another open entry.
TransitionStatus(i, status) ==
  LET e == [entry[i] EXCEPT !.status = status]
  IN  /\ entry[i] # NoEntry /\ entry[i].status # status
      /\ IsOpen(e) => OpenFor(e.line) \subseteq {i}
      /\ entry' = [entry EXCEPT ![i] = e]
      /\ UNCHANGED <<run, notices, stock, cook, moved>>

\* The kiosk's: never back from purchased.
MarkInCart(i) ==
  /\ entry[i].status \in {"needed", "in_cart"}
  /\ entry' = [entry EXCEPT ![i].status = "in_cart"]
  /\ UNCHANGED <<run, notices, stock, cook, moved>>

-----------------------------------------------------------------------------
(* The pantry. *)

\* Mutant: the quantity is read without the lock.
ReadsFreely(u) == TRUE

\* SELECT ... FOR UPDATE.
HoldsItem(u) == \A w \in Cooks \ {u} : cook[w].pc # "update"

\* Mutant: more is taken than there is.
Unchecked(delta) == stock + delta <= MaxStock

\* NewQuantity refuses a result below zero, or above the largest.
Permitted(delta) == stock + delta \in 0 .. MaxStock

\* Adjust and Consume load the item and compute the result.
LoadQuantity(u, delta) ==
  /\ cook[u].pc = "idle" /\ HoldsItem(u) /\ Permitted(delta)
  /\ cook' = [cook EXCEPT ![u] = [pc |-> "update", delta |-> delta, read |-> stock]]
  /\ UNCHANGED <<entry, run, notices, stock, moved>>

\* The result computed from what was read is stored, and committed.
StoreQuantity(u) ==
  /\ cook[u].pc = "update" /\ cook' = [cook EXCEPT ![u] = AtRest]
  /\ stock' = cook[u].read + cook[u].delta /\ moved' = moved + cook[u].delta
  /\ UNCHANGED <<entry, run, notices>>

FailQuantity(u) ==
  /\ cook[u].pc = "update" /\ cook' = [cook EXCEPT ![u] = AtRest]
  /\ UNCHANGED <<entry, run, notices, stock, moved>>

Next == \/ \E s \in Runs : Begin(s) \/ (\E line \in Lines : AddIfAbsent(s, line)) \/ Notify(s) \/ Fail(s)
        \/ \E i \in Entries : (\E status \in Statuses : TransitionStatus(i, status)) \/ MarkInCart(i)
        \/ \E u \in Cooks : (\E delta \in Deltas : LoadQuantity(u, delta)) \/ StoreQuantity(u) \/ FailQuantity(u)

Spec == Init /\ [][Next]_vars

-----------------------------------------------------------------------------
(* Properties. *)

TypeOK == /\ \A i \in Entries : entry[i] = NoEntry \/ entry[i] \in [line : Lines, status : Statuses]
          /\ notices \in [Entries -> Nat] /\ stock \in 0 .. MaxStock
          /\ \A s \in Runs : run[s].pc \in {"idle", "add", "notify"} /\ run[s].todo \subseteq Lines

\* However schedulers, planners and members interleave, and whatever is taken
\* back from the cart or from purchased, a line has one open entry at most and
\* the household is told of a restock once.
OneOpenEntry ==
  /\ \A i, j \in Entries : entry[i].line = entry[j].line /\ entry[i].line # None
       /\ entry[i].status # "purchased" /\ entry[j].status # "purchased" => i = j
  /\ \A i \in Entries : notices[i] <= 1

\* No request's change to the pantry is lost to another's.
PantryAddsUp == stock = Stock + moved
=============================================================================
