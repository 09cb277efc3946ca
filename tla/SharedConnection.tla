--------------------------- MODULE SharedConnection ---------------------------
(***************************************************************************)
(* One psycopg connection used from several worker threads at once.        *)
(*                                                                         *)
(* Resources.owner serves SchemaRetriever.search (a transaction block) and *)
(* AuditLog.record (one INSERT); Resources.readonly serves the EXPLAIN of  *)
(* SQLValidator (a transaction block).  Both are in autocommit mode.  The  *)
(* lock of the connection serialises single commands; nothing serialises   *)
(* the `with conn.transaction()` blocks of different threads.  A block     *)
(* entered while another is open becomes a savepoint of it, and blocks are *)
(* expected to be left in the reverse order they were entered in.          *)
(***************************************************************************)
EXTENDS Naturals, Sequences, FiniteSets

CONSTANTS Blocks,     \* uses of `with conn.transaction()`: searches, EXPLAINs
          Writers     \* audit rows to record

ASSUME UsersAssumption == IsFiniteSet(Blocks) /\ Blocks \cap Writers = {}

VARIABLES
    num,       \* Connection._num_transactions
    stack,     \* the server's open transaction: its savepoints, oldest first
    broken,    \* the transaction status is INERROR
    block,     \* where each block is
    idx,       \* Transaction._stack_index of each block
    outer,     \* did the block issue BEGIN (else SAVEPOINT)
    guilty,    \* did a statement of the block itself fail
    row,       \* what record() did with each audit row
    durable,   \* audit rows committed
    overlap,   \* has anyone used the connection inside another's block
    open       \* the connection has not been closed

vars == <<num, stack, broken, block, idx, outer, guilty, row, durable, overlap, open>>

Frame == [name : Nat, rows : SUBSET Writers]
BlockStates == {"idle", "entered", "worked", "raised", "ok", "failed"}
RowStates == {"none", "written", "refused", "logged"}

Inside == {b \in Blocks : block[b] \in {"entered", "worked", "raised"}}
Pending == UNION {stack[i].rows : i \in DOMAIN stack}

Init ==
    /\ num = 0 /\ stack = <<>> /\ broken = FALSE
    /\ block = [b \in Blocks |-> "idle"]
    /\ idx = [b \in Blocks |-> 0]
    /\ outer = [b \in Blocks |-> FALSE]
    /\ guilty = [b \in Blocks |-> FALSE]
    /\ row = [w \in Writers |-> "none"]
    /\ durable = {}
    /\ overlap = FALSE /\ open = TRUE

-------------------------------------------------------------------------------
(* What the server does with the commands psycopg sends (external). *)

Positions(name) == {i \in DOMAIN stack : i > 1 /\ stack[i].name = name}
Latest(name) == CHOOSE i \in Positions(name) : \A j \in Positions(name) : j <= i

(* RELEASE SAVEPOINT: the savepoint and all later ones join their parent.   *)
(* An unknown name, or a broken transaction, is an error.                   *)
Released(name) ==
    LET k == Latest(name)
        joined == UNION {stack[i].rows : i \in k - 1 .. Len(stack)}
    IN  [SubSeq(stack, 1, k - 1) EXCEPT ![k - 1].rows = joined]

(* ROLLBACK TO SAVEPOINT, then RELEASE: what was done since is undone. *)
RolledBackTo(name) == SubSeq(stack, 1, Latest(name) - 1)

-------------------------------------------------------------------------------
(* The blocks: SchemaRetriever.search, SQLValidator._explain. *)

(* __enter__: the nesting level is counted first; SAVEPOINT is refused in a *)
(* broken transaction, and then __exit__ never runs.                        *)
Enter(b) ==
    /\ open /\ block[b] = "idle"
    /\ idx' = [idx EXCEPT ![b] = num]
    /\ num' = num + 1
    /\ outer' = [outer EXCEPT ![b] = stack = <<>>]
    /\ overlap' = (overlap \/ Inside # {})
    /\ \/ /\ broken
          /\ block' = [block EXCEPT ![b] = "failed"]
          /\ UNCHANGED stack
       \/ /\ ~broken
          /\ block' = [block EXCEPT ![b] = "entered"]
          /\ stack' = Append(stack, [name |-> num + 1, rows |-> {}])
    /\ UNCHANGED <<broken, guilty, row, durable, open>>

(* The statements of the block.  A failure of its own (a timeout, SQL the   *)
(* planner rejects) breaks the transaction; a broken transaction and a      *)
(* closed connection refuse every statement.                                *)
Work(b) ==
    /\ block[b] = "entered"
    /\ \/ /\ open /\ ~broken
          /\ block' = [block EXCEPT ![b] = "worked"]
          /\ UNCHANGED <<broken, guilty>>
       \/ /\ open /\ ~broken
          /\ block' = [block EXCEPT ![b] = "raised"]
          /\ broken' = TRUE
          /\ guilty' = [guilty EXCEPT ![b] = TRUE]
       \/ /\ broken \/ ~open
          /\ block' = [block EXCEPT ![b] = "raised"]
          /\ UNCHANGED <<broken, guilty>>
    /\ UNCHANGED <<num, stack, idx, outer, row, durable, overlap, open>>

(* Leaving in order: COMMIT or RELEASE.  COMMIT of a broken transaction     *)
(* rolls it back; RELEASE in one, or of a savepoint gone, fails.            *)
Commit(b) ==
    \/ /\ outer[b]
       /\ stack' = <<>> /\ broken' = FALSE
       /\ durable' = IF broken THEN durable ELSE durable \cup Pending
       /\ block' = [block EXCEPT ![b] = "ok"]
    \/ /\ ~outer[b] /\ ~broken /\ Positions(idx[b] + 1) # {}
       /\ stack' = Released(idx[b] + 1)
       /\ block' = [block EXCEPT ![b] = "ok"]
       /\ UNCHANGED <<broken, durable>>
    \/ /\ ~outer[b] /\ (broken \/ Positions(idx[b] + 1) = {})
       /\ broken' = TRUE
       /\ block' = [block EXCEPT ![b] = "failed"]
       /\ UNCHANGED <<stack, durable>>

(* ROLLBACK or ROLLBACK TO, when the block raised. *)
Rollback(b) ==
    /\ block' = [block EXCEPT ![b] = "failed"]
    /\ \/ /\ outer[b]
          /\ stack' = <<>> /\ broken' = FALSE
       \/ /\ ~outer[b] /\ Positions(idx[b] + 1) # {}
          /\ stack' = RolledBackTo(idx[b] + 1)
          /\ broken' = FALSE
       \/ /\ ~outer[b] /\ Positions(idx[b] + 1) = {}
          /\ broken' = TRUE
          /\ UNCHANGED stack
    /\ UNCHANGED durable

(* Mutant: an error path that returns without closing the block. *)
LeaveOnSuccess(b) ==
    /\ open /\ block[b] \in {"worked", "raised"}
    /\ num' = num - 1
    /\ \/ num' = idx[b] /\ block[b] = "worked" /\ Commit(b)
       \/ /\ num' # idx[b] \/ block[b] = "raised"
          /\ block' = [block EXCEPT ![b] = "failed"]
          /\ UNCHANGED <<stack, broken, durable>>
    /\ UNCHANGED <<idx, outer, guilty, row, overlap, open>>

(* Mutant: blocks left without checking the order they nest in. *)
LeaveUnchecked(b) ==
    /\ open /\ block[b] \in {"worked", "raised"}
    /\ num' = num - 1
    /\ \/ block[b] = "worked" /\ Commit(b)
       \/ block[b] = "raised" /\ Rollback(b)
    /\ UNCHANGED <<idx, outer, guilty, row, overlap, open>>

(* __exit__: the level is dropped; out of order nothing else is done, and   *)
(* OutOfOrderTransactionNesting replaces whatever the block was returning.  *)
Leave(b) ==
    /\ open /\ block[b] \in {"worked", "raised"}
    /\ num' = num - 1
    /\ \/ num' = idx[b] /\ block[b] = "worked" /\ Commit(b)
       \/ num' = idx[b] /\ block[b] = "raised" /\ Rollback(b)
       \/ /\ num' # idx[b]
          /\ block' = [block EXCEPT ![b] = "failed"]
          /\ UNCHANGED <<stack, broken, durable>>
    /\ UNCHANGED <<idx, outer, guilty, row, overlap, open>>

(* __exit__ on a connection that is closed does nothing at all. *)
LeaveClosed(b) ==
    /\ ~open /\ block[b] \in {"worked", "raised"}
    /\ block' = [block EXCEPT ![b] = IF @ = "worked" THEN "ok" ELSE "failed"]
    /\ UNCHANGED <<num, stack, broken, idx, outer, guilty, row, durable, overlap, open>>

-------------------------------------------------------------------------------
(* AuditLog.record: one INSERT, committed by itself on an idle connection,  *)
(* part of whatever transaction is open otherwise.  A psycopg error is      *)
(* logged instead and not raised: the INSERT may be refused for itself,     *)
(* which breaks the transaction it was made in, or because the transaction  *)
(* is broken already or the connection closed.                              *)
Insert(w) ==
    /\ row[w] = "none"
    /\ overlap' = (overlap \/ Inside # {})
    /\ \/ /\ open /\ stack = <<>>
          /\ row' = [row EXCEPT ![w] = "written"]
          /\ durable' = durable \cup {w}
          /\ UNCHANGED <<stack, broken>>
       \/ /\ stack # <<>> /\ ~broken
          /\ row' = [row EXCEPT ![w] = "written"]
          /\ stack' = [stack EXCEPT ![Len(stack)].rows = @ \cup {w}]
          /\ UNCHANGED <<durable, broken>>
       \/ /\ open /\ ~broken
          /\ row' = [row EXCEPT ![w] = "refused"]
          /\ \/ stack = <<>> /\ UNCHANGED broken
             \/ stack # <<>> /\ broken' = TRUE
          /\ UNCHANGED <<stack, durable>>
       \/ /\ broken \/ ~open
          /\ row' = [row EXCEPT ![w] = "logged"]
          /\ UNCHANGED <<stack, durable, broken>>
    /\ UNCHANGED <<num, block, idx, outer, guilty, open>>

(* Resources.close(), at the end of the lifespan; threads of abandoned      *)
(* requests may still be running.                                           *)
Close ==
    /\ open
    /\ open' = FALSE
    /\ stack' = <<>> /\ broken' = FALSE
    /\ UNCHANGED <<num, block, idx, outer, guilty, row, durable, overlap>>

Next ==
    \/ \E b \in Blocks : Enter(b) \/ Work(b) \/ Leave(b) \/ LeaveClosed(b)
    \/ \E w \in Writers : Insert(w)
    \/ Close

Spec == Init /\ [][Next]_vars

-------------------------------------------------------------------------------
(* Every variable keeps its type; the nesting level never goes below zero.  *)
TypeOK ==
    /\ num \in Nat
    /\ stack \in Seq(Frame)
    /\ broken \in BOOLEAN
    /\ block \in [Blocks -> BlockStates]
    /\ idx \in [Blocks -> Nat]
    /\ outer \in [Blocks -> BOOLEAN]
    /\ guilty \in [Blocks -> BOOLEAN]
    /\ row \in [Writers -> RowStates]
    /\ durable \subseteq Writers
    /\ overlap \in BOOLEAN /\ open \in BOOLEAN

(* Used by one thread at a time, as an MCP server uses it, the connection   *)
(* is sound while it is open: idle between blocks, blocks fail only for     *)
(* their own reasons, and an audit row goes to the log instead of the table *)
(* only if its own INSERT was refused; every other row is committed.        *)
SerialUseIsSound ==
    ~overlap /\ open =>
      /\ Inside = {} => num = 0 /\ stack = <<>> /\ ~broken
      /\ \A b \in Blocks : block[b] = "failed" => guilty[b]
      /\ \A w \in Writers : row[w] \in {"none", "refused"} \/ w \in durable

(* However blocks interleave, no thread ends the transaction under the feet *)
(* of another: the session is idle only when nobody is inside a block, and  *)
(* then the nesting level is zero.  Leaving out of order strands the        *)
(* transaction instead.                                                     *)
IdleOnlyWhenUnused == open /\ stack = <<>> => Inside = {} /\ num = 0

(* "the audit runs as owner, on its own connection, so that ... a           *)
(* rolled-back query still leaves a row" (composition/answering.py): a row  *)
(* that record() wrote without an error is committed, or about to be.       *)
(* Violated: the connection is the retriever's too.                         *)
AuditSurvives ==
    open => \A w \in Writers : row[w] = "written" => w \in durable \cup Pending
===============================================================================
