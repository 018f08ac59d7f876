---------------------------- MODULE SnapshotStore ----------------------------
(***************************************************************************)
(* What the versioned pointers and the camera promise together.            *)
(*                                                                         *)
(* Every pointer has a history of dated versions.  A write first becomes   *)
(* pending and is dated later, by anyone, with a time between the moment   *)
(* it became pending and the moment it is dated; at most one write per     *)
(* pointer is pending.  A reader fixes a time that is over before it reads *)
(* the first pointer, and is told, for each pointer, the version current   *)
(* at that time.  An answer is never invalidated: no write is dated at or  *)
(* before a time at which its pointer has been read.                       *)
(***************************************************************************)
EXTENDS Integers

CONSTANTS Reader, Obj, Value, First, Unread, NoWrite

VARIABLES clock,     \* the time
          log,       \* per pointer, the set of its dated versions
          pending,   \* per pointer, the write not dated yet or NoWrite
          snap,      \* per reader, the time it reads at, -1 if none
          view       \* per reader and pointer, the answer or Unread

vars == <<clock, log, pending, snap, view>>

Entry(v, p, s) == [val |-> v, pos |-> p, stamp |-> s]

Init == /\ clock = 0
        /\ log = [o \in Obj |-> {Entry(First[o], 1, 0)}]
        /\ pending = [o \in Obj |-> NoWrite]
        /\ snap = [r \in Reader |-> -1]
        /\ view = [r \in Reader |-> [o \in Obj |-> Unread]]

\* e is the newest entry of L with property P.
NewestWhere(e, L, P(_)) ==
    e \in L /\ P(e) /\ \A f \in L : P(f) => f.pos <= e.pos

Newest(e, o) == LET Any(f) == TRUE IN NewestWhere(e, log[o], Any)

CurrentAt(e, o, s) == LET Dated(f) == f.stamp <= s IN NewestWhere(e, log[o], Dated)

Tick == clock' = clock + 1 /\ UNCHANGED <<log, pending, snap, view>>

Write(o, v) ==
    /\ pending[o] = NoWrite
    /\ pending' = [pending EXCEPT ![o] = [val |-> v, since |-> clock]]
    /\ UNCHANGED <<clock, log, snap, view>>

Date(o) ==
    /\ pending[o] # NoWrite
    /\ \E e \in log[o], s \in pending[o].since .. clock :
          /\ Newest(e, o) /\ e.stamp <= s
          /\ \A r \in Reader : view[r][o] # Unread => s > snap[r]
          /\ log' = [log EXCEPT ![o] = @ \cup {Entry(pending[o].val, e.pos + 1, s)}]
    /\ pending' = [pending EXCEPT ![o] = NoWrite]
    /\ UNCHANGED <<clock, snap, view>>

Begin(r) == /\ snap[r] = -1
            /\ snap' = [snap EXCEPT ![r] = clock]
            /\ UNCHANGED <<clock, log, pending, view>>

Read(r, o) == /\ 0 <= snap[r] /\ snap[r] < clock
              /\ view[r][o] = Unread
              /\ \E e \in log[o] : CurrentAt(e, o, snap[r])
                                   /\ view' = [view EXCEPT ![r][o] = e.val]
              /\ UNCHANGED <<clock, log, pending, snap>>

End(r) == /\ \A o \in Obj : view[r][o] # Unread
          /\ snap' = [snap EXCEPT ![r] = -1]
          /\ view' = [view EXCEPT ![r] = [o \in Obj |-> Unread]]
          /\ UNCHANGED <<clock, log, pending>>

Next == \/ Tick
        \/ \E o \in Obj : Date(o) \/ \E v \in Value : Write(o, v)
        \/ \E r \in Reader : Begin(r) \/ End(r) \/ \E o \in Obj : Read(r, o)

Spec == Init /\ [][Next]_vars
=============================================================================
