-------------------------------- MODULE Groups --------------------------------
(***************************************************************************)
(* Who owns a room: app/routers/groups.py and the room half of             *)
(* app/services/account_delete.py, for one room.                           *)
(*                                                                         *)
(* A request loads ORM rows, decides on them, and writes in a later        *)
(* statement; core/db.py sets expire_on_commit=False, so what it loaded    *)
(* stays as it was even after its own commit.  The session writes a column *)
(* only when it differs from the value loaded, and an UPDATE of a row that *)
(* is gone raises and rolls the transaction back.                          *)
(***************************************************************************)
EXTENDS Naturals, FiniteSets

CONSTANTS Uin,        \* accounts
          Guest,      \* those that are guest copies or unclaimed seats
          Watched,    \* those the operator may suspend
          Request,    \* requests in flight
          Calls,      \* which operations the instance includes
          MaxSeat,    \* bound on group_members.id
          MaxVer      \* bound on state_ver

ASSUME GroupsAssumption ==
  /\ Guest \subseteq Uin /\ Watched \subseteq Uin
  /\ MaxSeat \in Nat \ {0} /\ MaxVer \in Nat

VARIABLES
  room,       \* "open", or "gone" once the groups row is deleted
  owner,      \* groups.owner_uin
  seat,       \* group_members.id per account, 0 when there is no row
  role,       \* group_members.role
  caps,       \* accounts whose row has explicit permissions
  account,    \* users: "live", "suspended", "gone"
  ver,        \* groups.state_ver
  nextSeat,
  req,        \* what each request has loaded
  restored,   \* an election has given a room back to the owner who had left
  raced       \* two requests have overlapped, or a leave was cut in two

table == <<room, owner, seat, role, caps, nextSeat>>
state == <<ver>>
history == <<restored, raced>>
vars == <<table, account, state, req, history>>

Idle == [pc |-> "idle"]
Members == {u \in Uin : seat[u] # 0}
Resident == Uin \ Guest

Init ==
  \E u \in Resident :
    /\ room = "open" /\ owner = u
    /\ seat = [v \in Uin |-> IF v = u THEN 1 ELSE 0]
    /\ role = [v \in Uin |-> IF v = u THEN "owner" ELSE "member"]
    /\ caps = {}
    /\ account = [v \in Uin |-> "live"]
    /\ ver = 0
    /\ nextSeat = 2
    /\ req = [p \in Request |-> Idle]
    /\ restored = FALSE /\ raced = FALSE

\* A suspended or deleted account authenticates no request.
Calling(p, op, u) == op \in Calls /\ req[p].pc = "idle" /\ room = "open" /\ account[u] = "live"

\* _member_can
MemberCan(u) == u = owner \/ u \in caps

Done(p) == req' = [req EXCEPT ![p] = Idle]

-----------------------------------------------------------------------------
(* Membership. *)

\* create_group's other members, join_group, add_member, add_guest: a row with
\* the next id and role "member".
Join(u) ==
  /\ "join" \in Calls
  /\ room = "open" /\ account[u] # "gone" /\ seat[u] = 0 /\ nextSeat <= MaxSeat
  /\ seat' = [seat EXCEPT ![u] = nextSeat]
  /\ nextSeat' = nextSeat + 1
  /\ role' = [role EXCEPT ![u] = "member"]
  /\ caps' = caps \ {u}
  /\ UNCHANGED <<room, owner, account, state, req, history>>

\* remove_member loads the caller's row, the group and the target's row.
BeginRemove(p, u, target) ==
  /\ Calling(p, "remove", u)
  /\ u \in Members /\ target \in Members
  /\ u # target => MemberCan(u) /\ target # owner
  /\ req' = [req EXCEPT ![p] = [pc |-> "removing", target |-> target, owner |-> owner]]
  /\ UNCHANGED <<table, account, state>>

\* No other transaction writes the rows a Restore (below) holds.
RowsFree(p) ==
  \A o \in Request \ {p} : req[o].pc = "restoring" =>
    \A u \in req[o].demote \cup {req[o].heir.uin} :
      seat'[u] = seat[u] /\ role'[u] = role[u] /\ (u \in caps' <=> u \in caps)

\* ... deletes it and commits ...
CommitRemove(p) ==
  LET q == req[p] IN
  /\ q.pc = "removing"
  /\ seat' = [seat EXCEPT ![q.target] = 0]
  /\ role' = [role EXCEPT ![q.target] = "member"]
  /\ caps' = caps \ {q.target}
  /\ req' = [req EXCEPT ![p] = IF q.target = q.owner THEN [pc |-> "electing", owner |-> q.owner] ELSE Idle]
  /\ UNCHANGED <<room, owner, nextSeat, account, state, history>>
  /\ RowsFree(p)

\* The oldest row of S.
Oldest(S) == {u \in S : \A v \in S : seat[u] <= seat[v]}

\* The oldest row, whoever it belongs to.
AnyHeir == Oldest(Members)

\* The heir: the oldest resident with a live account, else the oldest
\* suspended one.
Heirs == LET able == {u \in Members \cap Resident : account[u] = "live"} IN
  Oldest(IF able # {} THEN able ELSE {u \in Members \cap Resident : account[u] # "gone"})

\* An UPDATE that leaves the permissions of a new owner in place.
CapsKept(cs, l) == cs

\* A row as the session loaded it; what a flush writes of it, given the role
\* it is assigned and the permissions it loses; whether the flush succeeds.
Loaded(u) == [uin |-> u, seat |-> seat[u], role |-> role[u], caps |-> IF u \in caps THEN "some" ELSE "none"]
SameRow(l) == seat[l.uin] = l.seat
Flushes(l, r) == SameRow(l) \/ (l.role = r /\ l.caps = "none")
FlushRole(rs, l, r) == IF l.role = r THEN rs ELSE [rs EXCEPT ![l.uin] = r]
FlushCaps(cs, l) == IF l.caps = "none" THEN cs ELSE cs \ {l.uin}

\* The former owner's row is left as it is.
NobodyDemoted(rs, u) == rs

\* "One owner, always": any other row that says owner is demoted.
Demoted(rs, u) == [v \in Uin |-> IF v # u /\ rs[v] = "owner" THEN "member" ELSE rs[v]]
DemotedCaps(rs, cs, u) == {v \in cs : v = u \/ rs[v] # "owner"}

\* ... and, when the row it deleted was the owner's as loaded, looks for the
\* heir in a second transaction.
Elect(p) ==
  /\ req[p].pc = "electing"
  /\ \E u \in Heirs : req' = [req EXCEPT ![p] = [pc |-> "crowning", heir |-> Loaded(u), owner |-> req[p].owner]]
  /\ UNCHANGED <<table, account, state, history>>

\* The UPDATE of groups.owner_uin comes first and holds the row of the room to
\* the commit, so that two changes of owner never overlap.
Crown(p) ==
  LET q == req[p]
      rs == FlushRole(role, q.heir, "owner") IN
  /\ q.pc = "crowning" /\ room = "open"
  /\ Flushes(q.heir, "owner")
  /\ q.heir.uin # q.owner
  /\ owner' = q.heir.uin
  /\ role' = Demoted(rs, q.heir.uin)
  /\ caps' = DemotedCaps(rs, FlushCaps(caps, q.heir), q.heir.uin)
  /\ Done(p)
  /\ UNCHANGED <<room, seat, nextSeat, account, state, history>>
  /\ RowsFree(p)

\* The heir is the owner loaded, back in the room: groups.owner_uin is not
\* written, the room is not held.  The rows this transaction writes are its
\* own until the commit; others do not see them.
Restore(p) ==
  LET q == req[p] IN
  /\ q.pc = "crowning" /\ room = "open"
  /\ Flushes(q.heir, "owner")
  /\ q.heir.uin = q.owner
  /\ req' = [req EXCEPT ![p] = [pc |-> "restoring", heir |-> q.heir, owner |-> q.owner,
                               demote |-> {u \in Uin : u # q.heir.uin /\ role[u] = "owner"}]]
  /\ UNCHANGED <<table, account, state, history>>

CommitRestore(p) ==
  LET q == req[p] IN
  /\ q.pc = "restoring" /\ room = "open"
  /\ role' = [u \in Uin |-> IF u \in q.demote THEN "member" ELSE FlushRole(role, q.heir, "owner")[u]]
  /\ caps' = FlushCaps(caps, q.heir) \ q.demote
  /\ restored' = TRUE
  /\ Done(p)
  /\ UNCHANGED <<room, owner, seat, nextSeat, account, state, raced>>
  /\ RowsFree(p)

\* Nobody who lives here is left: the room goes, log and counter with it.
Close(p) ==
  /\ req[p].pc = "electing" /\ Heirs = {}
  /\ room' = "gone"
  /\ seat' = [u \in Uin |-> 0] /\ role' = [u \in Uin |-> "member"] /\ caps' = {}
  /\ Done(p)
  /\ UNCHANGED <<owner, nextSeat, account, state, history>>
  /\ RowsFree(p)

-----------------------------------------------------------------------------
(* The owner's levers. *)

\* transfer_owner loads the group, the target's row and account, its own row.
BeginTransfer(p, u, to) ==
  /\ Calling(p, "transfer", u)
  /\ u = owner /\ to # u
  /\ to \in Members \cap Resident /\ account[to] = "live"
  /\ req' = [req EXCEPT ![p] = [pc |-> "transferring", from |-> Loaded(u), to |-> Loaded(to)]]
  /\ UNCHANGED <<table, account, state>>

\* The UPDATE of groups matches only while the caller still owns the room.
StillOwner(u) == owner = u

CommitTransfer(p) ==
  LET q == req[p]
      there == q.from.seat # 0
      rs == FlushRole(IF there THEN FlushRole(role, q.from, "member") ELSE role, q.to, "owner")
      cs == FlushCaps(IF there THEN FlushCaps(caps, q.from) ELSE caps, q.to) IN
  /\ q.pc = "transferring" /\ room = "open"
  /\ StillOwner(q.from.uin)
  /\ Flushes(q.to, "owner") /\ (there => Flushes(q.from, "member"))
  /\ owner' = q.to.uin
  /\ role' = Demoted(rs, q.to.uin)
  /\ caps' = DemotedCaps(rs, cs, q.to.uin)
  /\ Done(p)
  /\ UNCHANGED <<room, seat, nextSeat, account, state, history>>
  /\ RowsFree(p)

\* set_member_permissions
BeginPermit(p, u, target, cap) ==
  /\ Calling(p, "permit", u)
  /\ u = owner /\ target # u /\ target \in Members
  /\ Loaded(target).caps # cap
  /\ req' = [req EXCEPT ![p] = [pc |-> "permitting", target |-> Loaded(target), cap |-> cap]]
  /\ UNCHANGED <<table, account, state>>

CommitPermit(p) ==
  LET q == req[p] IN
  /\ q.pc = "permitting" /\ room = "open"
  /\ SameRow(q.target)
  /\ caps' = IF q.cap = "some" THEN caps \cup {q.target.uin} ELSE caps \ {q.target.uin}
  /\ Done(p)
  /\ UNCHANGED <<room, owner, seat, role, nextSeat, account, state, history>>
  /\ RowsFree(p)

\* delete_group
BeginDelete(p, u) ==
  /\ Calling(p, "delete", u)
  /\ u = owner
  /\ req' = [req EXCEPT ![p] = [pc |-> "deleting"]]
  /\ UNCHANGED <<table, account, state>>

CommitDelete(p) ==
  /\ req[p].pc = "deleting"
  /\ room' = "gone"
  /\ seat' = [u \in Uin |-> 0] /\ role' = [u \in Uin |-> "member"] /\ caps' = {}
  /\ Done(p)
  /\ UNCHANGED <<owner, nextSeat, account, state, history>>
  /\ RowsFree(p)

\* patch_group_state loads the version and the caller's row ...
BeginState(p, u) ==
  /\ Calling(p, "state", u)
  /\ u \in Members /\ MemberCan(u) /\ ver < MaxVer
  /\ req' = [req EXCEPT ![p] = [pc |-> "writing", ver |-> ver + 1]]
  /\ UNCHANGED <<table, account, state>>

\* ... and writes the next one by primary key.
CommitState(p) ==
  LET q == req[p] IN
  /\ q.pc = "writing" /\ room = "open"
  /\ ver' = q.ver
  /\ Done(p)
  /\ UNCHANGED <<table, account, history>>

-----------------------------------------------------------------------------
(* Accounts. *)

\* purge_account: the rooms it owns as loaded, then its rows, then the account.
BeginBurn(p, u) ==
  /\ Calling(p, "burn", u)
  /\ req' = [req EXCEPT ![p] = [pc |-> "burning", by |-> u, owns |-> IF owner = u THEN "yes" ELSE "no"]]
  /\ UNCHANGED <<table, account, state>>

CommitBurn(p) ==
  LET q == req[p] IN
  /\ q.pc = "burning"
  /\ account' = [account EXCEPT ![q.by] = "gone"]
  /\ room' = IF q.owns = "yes" THEN "gone" ELSE room
  /\ seat' = [u \in Uin |-> IF q.owns = "yes" \/ u = q.by THEN 0 ELSE seat[u]]
  /\ role' = [u \in Uin |-> IF q.owns = "yes" \/ u = q.by THEN "member" ELSE role[u]]
  /\ caps' = {u \in caps : q.owns # "yes" /\ u # q.by}
  /\ Done(p)
  /\ UNCHANGED <<owner, nextSeat, state, history>>
  /\ RowsFree(p)

\* The operator suspends an account, or lifts the suspension.
Suspend(u) ==
  /\ u \in Watched
  /\ account[u] # "gone"
  /\ account' = [account EXCEPT ![u] = IF @ = "live" THEN "suspended" ELSE "live"]
  /\ UNCHANGED <<table, state, req, history>>

\* A worker dies, a connection is lost, an UPDATE finds its row gone, the
\* conditional UPDATE matches nothing: the open transaction is undone.
Abort(p) ==
  /\ req[p].pc # "idle"
  /\ \/ "crash" \in Calls
     \/ room = "gone"
     \/ req[p].pc = "crowning" /\ ~Flushes(req[p].heir, "owner")
     \/ req[p].pc = "permitting" /\ ~SameRow(req[p].target)
     \/ /\ req[p].pc = "transferring"
        /\ \/ ~StillOwner(req[p].from.uin)
           \/ ~Flushes(req[p].to, "owner")
           \/ ~Flushes(req[p].from, "member")
  /\ raced' = (raced \/ req[p].pc \in {"electing", "crowning", "restoring"})
  /\ Done(p)
  /\ UNCHANGED <<table, account, state, restored>>

RequestStep(p) ==
  \/ CommitRemove(p) \/ Elect(p) \/ Crown(p) \/ Restore(p) \/ CommitRestore(p) \/ Close(p)
  \/ CommitTransfer(p) \/ CommitPermit(p) \/ CommitDelete(p) \/ CommitState(p) \/ CommitBurn(p)
  \/ Abort(p)

Call(p) ==
  /\ \E u \in Uin :
       \/ \E v \in Uin : BeginRemove(p, u, v) \/ BeginTransfer(p, u, v)
       \/ \E v \in Uin, c \in {"some", "none"} : BeginPermit(p, u, v, c)
       \/ BeginDelete(p, u) \/ BeginState(p, u) \/ BeginBurn(p, u)
  /\ raced' = (raced \/ \E o \in Request : req[o].pc # "idle")
  /\ UNCHANGED restored

Next ==
  \/ \E p \in Request : Call(p) \/ RequestStep(p)
  \/ \E u \in Uin : Join(u) \/ Suspend(u)

Spec == Init /\ [][Next]_vars

-----------------------------------------------------------------------------
TypeOK ==
  /\ room \in {"open", "gone"}
  /\ owner \in Uin /\ caps \subseteq Members
  /\ seat \in [Uin -> 0..MaxSeat] /\ nextSeat \in 1..(MaxSeat + 1)
  /\ role \in [Uin -> {"owner", "member"}] /\ \A u \in Uin : role[u] = "owner" => u \in Members
  /\ account \in [Uin -> {"live", "suspended", "gone"}]
  /\ ver \in 0..MaxVer

\* transfer_owner and remove_member: "One owner, always".  However transfers,
\* leaves, elections and deletions interleave, no two rows of the roster say
\* owner, unless an owner left, came back and was elected before the leave was
\* over (the one path that demotes without holding the room's row).
OneOwnerRow == restored \/ \A u, v \in Uin : role[u] = "owner" /\ role[v] = "owner" => u = v

\* transfer_owner, remove_member: a guest copy or an unclaimed seat never owns
\* a room, whichever way the ownership moves.
GuestNeverOwns == owner \in Resident

\* As long as requests are served one at a time and no leave is cut in two, the
\* owner of an open room has a row in it, the row says owner, and it carries no
\* explicit permissions.
OwnerSeated == ~raced /\ room = "open" /\ (\A p \in Request : req[p].pc = "idle") =>
  seat[owner] # 0 /\ role[owner] = "owner" /\ owner \notin caps
=============================================================================
