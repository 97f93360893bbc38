----------------------------- MODULE CalendarSync -----------------------------
(***************************************************************************)
(* One connected calendar: the cursor of its incremental sync, the cache   *)
(* of its events, the scheduler's sync passes and the member reconnecting. *)
(*                                                                         *)
(* The provider numbers the changes of the calendar; a cursor is the       *)
(* number of the last change it stands for.  The tokens' contents are left *)
(* out: a refresh matters here for what else it writes.                    *)
(***************************************************************************)
EXTENDS Naturals

CONSTANTS
  Events,
  Syncers,     \* processes that run the sync scheduler
  MaxChanges,  \* bound on the provider's changes
  None

VARIABLES
  remote,   \* remote[e]: event e at the provider: its last change and its state
  changes,  \* how many changes the calendar has seen
  oldest,   \* cursors before this one have expired
  hidden,   \* events a full listing no longer shows
  cursor,   \* the account's sync_token
  cache,    \* cache[e]: the change as of which event e is cached
  pass      \* pass[y]: the sync pass in progress at y

vars == <<remote, changes, oldest, hidden, cursor, cache, pass>>

Changes == 1 .. MaxChanges
Cursors == 0 .. MaxChanges
Idle == [pc |-> "idle", cursor |-> None, read |-> None, todo |-> {}, next |-> None]

Init == /\ remote = [e \in Events |-> [last |-> 0, state |-> "absent"]]
        /\ changes = 0 /\ oldest = 0 /\ hidden = {}
        /\ cursor = None /\ cache = [e \in Events |-> None]
        /\ pass = [y \in Syncers |-> Idle]

-----------------------------------------------------------------------------
(* The provider. *)

\* A malformed event is one the client or Validate rejects.
Change(e, state) ==
  /\ changes < MaxChanges /\ (remote[e].state # state \/ state = "live")
  /\ changes' = changes + 1
  /\ remote' = [remote EXCEPT ![e] = [last |-> changes + 1, state |-> state]]
  /\ UNCHANGED <<oldest, hidden, cursor, cache, pass>>

ExpireCursors == /\ oldest < changes /\ oldest' = changes
                 /\ UNCHANGED <<remote, changes, hidden, cursor, cache, pass>>

\* A deletion is forgotten in time, and a full listing looks back a month.
Hide(e) == /\ remote[e].state # "absent" /\ hidden' = hidden \cup {e}
           /\ UNCHANGED <<remote, changes, oldest, cursor, cache, pass>>

Listed(since) == {[event |-> e, last |-> remote[e].last, state |-> remote[e].state] :
                    e \in {x \in Events : remote[x].state # "absent"
                             /\ (IF since = None THEN x \notin hidden ELSE remote[x].last > since)}}

-----------------------------------------------------------------------------
(* The program. *)

Goto(y, p) == pass' = [pass EXCEPT ![y] = p]

\* The member connects again: UpdateTokens clears the cursor.
Connect == cursor' = None /\ UNCHANGED <<remote, changes, oldest, hidden, cache, pass>>

\* RunOnce lists the accounts with their cursors.
RunOnce(y) ==
  /\ pass[y].pc = "idle" /\ Goto(y, [Idle EXCEPT !.pc = "token", !.cursor = cursor])
  /\ UNCHANGED <<remote, changes, oldest, hidden, cursor, cache>>

\* The account is read once more; an expired access token is refreshed.
ValidAccessToken(y) ==
  /\ pass[y].pc = "token"
  /\ \/ Goto(y, [pass[y] EXCEPT !.pc = "list"])
     \/ Goto(y, [pass[y] EXCEPT !.pc = "persist", !.read = cursor])
  /\ UNCHANGED <<remote, changes, oldest, hidden, cursor, cache>>

\* The refreshed token is stored, with the cursor as it was read.
UpdateSyncState(y) ==
  /\ pass[y].pc = "persist" /\ cursor' = pass[y].read
  /\ \/ Goto(y, [pass[y] EXCEPT !.pc = "list", !.read = None])
     \/ Goto(y, Idle)   \* carried out, the answer lost
  /\ UNCHANGED <<remote, changes, oldest, hidden, cache>>

\* From the cursor on, or everything when there is none or it has expired.
ListEvents(y) ==
  LET since == IF pass[y].cursor # None /\ pass[y].cursor < oldest THEN None ELSE pass[y].cursor
  IN  /\ pass[y].pc = "list"
      /\ Goto(y, [pass[y] EXCEPT !.pc = "apply", !.todo = Listed(since), !.next = changes])
      /\ UNCHANGED <<remote, changes, oldest, hidden, cursor, cache>>

\* One event: removed when cancelled, skipped when malformed, else upserted.
ApplyEvent(y, v) ==
  /\ pass[y].pc = "apply" /\ v \in pass[y].todo
  /\ cache' = CASE v.state = "cancelled" -> [cache EXCEPT ![v.event] = None]
                [] v.state = "malformed" -> cache
                [] v.state = "live"      -> [cache EXCEPT ![v.event] = v.last]
  /\ Goto(y, [pass[y] EXCEPT !.todo = @ \ {v}])
  /\ UNCHANGED <<remote, changes, oldest, hidden, cursor>>

\* Mutant: an event that cannot be stored is skipped.
SkipEvent(y, v) == [pass[y] EXCEPT !.todo = @ \ {v}]

\* An event that cannot be stored ends the account's pass.
AbandonPass(y, v) == Idle

FailEvent(y, v) ==
  /\ pass[y].pc = "apply" /\ v \in pass[y].todo
  /\ v.state # "malformed" /\ Goto(y, AbandonPass(y, v))
  /\ UNCHANGED <<remote, changes, oldest, hidden, cursor, cache>>

SetSyncToken(y) ==
  /\ pass[y].pc = "apply" /\ pass[y].todo = {}
  /\ cursor' = pass[y].next /\ Goto(y, Idle)
  /\ UNCHANGED <<remote, changes, oldest, hidden, cache>>

\* The process stops, the tick times out, or any other call fails.
Fail(y) == /\ pass[y].pc # "idle" /\ Goto(y, Idle)
           /\ UNCHANGED <<remote, changes, oldest, hidden, cursor, cache>>

Next == \/ \E e \in Events : \/ \E state \in {"live", "cancelled", "malformed"} : Change(e, state)
                             \/ Hide(e)
        \/ ExpireCursors \/ Connect
        \/ \E y \in Syncers :
             \/ RunOnce(y) \/ ValidAccessToken(y) \/ UpdateSyncState(y) \/ ListEvents(y)
             \/ \E v \in pass[y].todo : ApplyEvent(y, v) \/ FailEvent(y, v)
             \/ SetSyncToken(y) \/ Fail(y)

Spec == Init /\ [][Next]_vars

-----------------------------------------------------------------------------
(* Properties. *)

TypeOK == /\ changes \in Cursors /\ oldest \in Cursors /\ hidden \subseteq Events
          /\ remote \in [Events -> [last : Cursors, state : {"absent", "live", "cancelled", "malformed"}]]
          /\ cursor \in Cursors \cup {None} /\ cache \in [Events -> Changes \cup {None}]
          /\ \A y \in Syncers : pass[y].pc \in {"idle", "token", "persist", "list", "apply"}

\* The cursor never runs ahead of the cache: whatever has not changed since
\* the cursor is cached as it is, or gone from the cache when it was deleted,
\* whichever passes failed on the way and whatever reconnects and refreshes
\* came between.  (Of events a full listing does not show nothing is claimed.)
CacheCoversCursor ==
  cursor # None => \A e \in Events \ hidden :
    remote[e].last <= cursor => /\ remote[e].state = "live" => cache[e] = remote[e].last
                                /\ remote[e].state = "cancelled" => cache[e] = None
=============================================================================
