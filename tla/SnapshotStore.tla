--------------------------- MODULE SnapshotStore ---------------------------
(***************************************************************************)
(* What the database promises its users, without pages: a sequence of      *)
(* versions, one writer that prepares the next one, and readers that each  *)
(* keep the version that was visible when they began.                      *)
(*                                                                         *)
(* A version becomes visible to new readers (Publish) before its writer is *)
(* told that it is safe (Acknowledge); from Publish on the writer cannot   *)
(* go back.  A crash keeps the last acknowledged version or the version    *)
(* that was already visible, and nothing else.                             *)
(***************************************************************************)
EXTENDS Naturals

CONSTANTS
    Readers,      \* the goroutines that open read transactions
    None          \* no version

VARIABLES
    up,           \* the database is open
    visible,      \* the version a new transaction starts from
    acked,        \* the last version whose commit was reported a success
    snapshot,     \* what each reader sees, None when it has no transaction
    writing,      \* the version the open write transaction prepares, or None
    attempts      \* how many write transactions were begun

vars == <<up, visible, acked, snapshot, writing, attempts>>

Init ==
    /\ up = TRUE
    /\ visible = 1
    /\ acked = 1
    /\ snapshot = [r \in Readers |-> None]
    /\ writing = None
    /\ attempts = 1

BeginRead(r) ==
    /\ up
    /\ snapshot[r] = None
    /\ snapshot' = [snapshot EXCEPT ![r] = visible]
    /\ UNCHANGED <<up, visible, acked, writing, attempts>>

EndRead(r) ==
    /\ up
    /\ snapshot[r] # None
    /\ snapshot' = [snapshot EXCEPT ![r] = None]
    /\ UNCHANGED <<up, visible, acked, writing, attempts>>

BeginWrite ==
    /\ up
    /\ writing = None
    /\ attempts' = attempts + 1
    /\ writing' = attempts'
    /\ UNCHANGED <<up, visible, acked, snapshot>>

Publish ==
    /\ up
    /\ writing # None
    /\ visible' = writing
    /\ UNCHANGED <<up, acked, snapshot, writing, attempts>>

Acknowledge ==
    /\ up
    /\ visible = writing
    /\ acked' = writing
    /\ writing' = None
    /\ UNCHANGED <<up, visible, snapshot, attempts>>

(* A rollback, or a commit that returns an error.                          *)
Abort ==
    /\ up
    /\ writing # None
    /\ visible # writing
    /\ writing' = None
    /\ UNCHANGED <<up, visible, acked, snapshot, attempts>>

Close ==
    /\ up
    /\ writing = None
    /\ \A r \in Readers : snapshot[r] = None
    /\ up' = FALSE
    /\ UNCHANGED <<visible, acked, snapshot, writing, attempts>>

Crash ==
    /\ up' = FALSE
    /\ visible' \in {acked, visible}
    /\ acked' = visible'
    /\ snapshot' = [r \in Readers |-> None]
    /\ writing' = None
    /\ UNCHANGED attempts

Open ==
    /\ ~up
    /\ up' = TRUE
    /\ UNCHANGED <<visible, acked, snapshot, writing, attempts>>

Next ==
    \/ \E r \in Readers : BeginRead(r) \/ EndRead(r)
    \/ BeginWrite \/ Publish \/ Acknowledge \/ Abort
    \/ Close \/ Crash \/ Open

Spec == Init /\ [][Next]_vars
=============================================================================
