------------------------------ MODULE AuditLog ------------------------------
(***************************************************************************)
(* The audit log: rows in memory, and their copies in the store.           *)
(*                                                                         *)
(*   gateway/logger.ts                log, persistToKv, loadFromKv         *)
(*   gateway/proxy-routes-audit.ts    GET /audit and POST /audit/agent     *)
(*   gateway/proxy-server.ts          loading begins, then the server      *)
(*                                    listens                              *)
(*                                                                         *)
(* The instances share one array of rows in the key-value store.  It is    *)
(* read whole, extended and written whole, in the background and for each  *)
(* row by itself: any other may come in between, of one's own instance     *)
(* too.  A batch is what one handler logs in one go, a single row mostly.  *)
(***************************************************************************)
EXTENDS Integers, SequencesExt

CONSTANTS
  Instances,    \* proxy processes
  Batches,      \* what the handlers log
  Rows,         \* audit rows
  RowsOf,       \* those of each batch, in order
  KeyOf,        \* timestamp, tool and source of a row
  MaxRows,      \* AUDIT_KV_MAX (500)
  MaxRestarts,  \* bound: how often an instance restarts
  None

ASSUME AuditAssumption ==
  /\ RowsOf \in [Batches -> Seq(Rows)] /\ DOMAIN KeyOf = Rows
  /\ \A b \in Batches : IsInjective(RowsOf[b])
  /\ \A b, c \in Batches : b # c => Range(RowsOf[b]) \cap Range(RowsOf[c]) = {}
  /\ MaxRows \in Nat \ {0} /\ MaxRestarts \in Nat
  /\ None \notin Instances

VARIABLES
  logged,      \* batches that have been logged
  entries,     \* AuditLogger.entries of each instance
  loading,     \* loadFromKv of each instance, and what it has read
  recent,      \* gateway:audit:recent
  persist,     \* persistToKv of each row, on which instance, what it has read
  restarts,
  (* observations *)
  contested,   \* rows whose persisting overlapped another's
  own          \* rows each instance has logged since it started

vars == <<logged, entries, loading, recent, persist, restarts, contested, own>>

----------------------------------------------------------------------------
(* logger.log                                                              *)

(* To memory at once, to the store in the background.                      *)
Log(b) ==
  \E i \in Instances :
    /\ b \notin logged
    /\ logged' = logged \cup {b}
    /\ entries' = [entries EXCEPT ![i] = @ \o RowsOf[b]]
    /\ own' = [own EXCEPT ![i] = @ \o RowsOf[b]]
    /\ persist' = [x \in Rows |->
                     IF x \in Range(RowsOf[b])
                     THEN [at |-> "reading", on |-> i, read |-> <<>>]
                     ELSE persist[x]]
    /\ UNCHANGED <<loading, recent, restarts, contested>>

(* slice(-n).                                                              *)
LastRows(rows, n) ==
  SubSeq(rows, IF Len(rows) > n THEN Len(rows) - n + 1 ELSE 1, Len(rows))

(* GET /audit changes nothing; any limit up to MaxRows may be asked for.   *)
GetAudit(i, limit) == LastRows(entries[i], limit)

Persisting == {x \in Rows : persist[x].at = "writing"}

PersistEnds(x, how) ==
  persist' = [persist EXCEPT ![x] = [at |-> how, on |-> None, read |-> <<>>]]

(* persistToKv reads the array ...                                         *)
ReadRecent(x) ==
  /\ persist[x].at = "reading"
  /\ persist' = [persist EXCEPT ![x] = [@ EXCEPT !.at = "writing", !.read = recent]]
  /\ contested' = IF Persisting = {} THEN contested
                  ELSE contested \cup Persisting \cup {x}
  /\ UNCHANGED <<logged, entries, loading, recent, restarts, own>>

(* Variant: a full array starts again.                                     *)
WriteRecent_Afresh(x) ==
  LET read == persist[x].read IN
  /\ persist[x].at = "writing"
  /\ recent' = IF Len(read) = MaxRows THEN <<x>> ELSE Append(read, x)
  /\ PersistEnds(x, "done")
  /\ UNCHANGED <<logged, entries, loading, restarts, contested, own>>

(* ... and writes it with the row, without the oldest where it is full.    *)
WriteRecent(x) ==
  /\ persist[x].at = "writing"
  /\ recent' = LastRows(Append(persist[x].read, x), MaxRows)
  /\ PersistEnds(x, "done")
  /\ UNCHANGED <<logged, entries, loading, restarts, contested, own>>

(* The store fails; nobody hears of it.                                    *)
PersistFails(x) ==
  /\ persist[x].at \in {"reading", "writing"}
  /\ PersistEnds(x, "lost")
  /\ UNCHANGED <<logged, entries, loading, recent, restarts, contested, own>>

----------------------------------------------------------------------------
(* loadFromKv, begun at start-up: the array is read while requests come in *)

LoadRead(i) ==
  /\ loading[i].at = "reading"
  /\ loading' = [loading EXCEPT ![i] = [at |-> "read", rows |-> recent]]
  /\ UNCHANGED <<logged, entries, recent, persist, restarts, contested, own>>

(* Variant: what is in memory is not looked for.                           *)
Fresh_All(rows, mine) == rows

(* Rows that have been read and whose key no row in memory has.            *)
Fresh(rows, mine) ==
  LET known == {KeyOf[y] : y \in Range(mine)}
      fresh[k \in 0..Len(rows)] ==
        IF k = 0 THEN <<>>
        ELSE IF KeyOf[rows[k]] \in known THEN fresh[k - 1]
             ELSE Append(fresh[k - 1], rows[k])
  IN fresh[Len(rows)]

LoadEnds(i) == loading' = [loading EXCEPT ![i] = [at |-> "done", rows |-> <<>>]]

(* Variant: what is loaded goes behind what has been logged.               *)
Load_Behind(i) ==
  /\ loading[i].at = "read"
  /\ entries' = [entries EXCEPT
                   ![i] = LastRows(@ \o Fresh(loading[i].rows, @), MaxRows)]
  /\ LoadEnds(i)
  /\ UNCHANGED <<logged, recent, persist, restarts, contested, own>>

Load(i) ==
  /\ loading[i].at = "read"
  /\ entries' = [entries EXCEPT
                   ![i] = LastRows(Fresh(loading[i].rows, @) \o @, MaxRows)]
  /\ LoadEnds(i)
  /\ UNCHANGED <<logged, recent, persist, restarts, contested, own>>

LoadFails(i) ==
  /\ loading[i].at = "reading"
  /\ LoadEnds(i)
  /\ UNCHANGED <<logged, entries, recent, persist, restarts, contested, own>>

(* An instance dies with its memory and its background, and starts again.  *)
Restart(i) ==
  /\ restarts < MaxRestarts
  /\ restarts' = restarts + 1
  /\ entries' = [entries EXCEPT ![i] = <<>>]
  /\ own' = [own EXCEPT ![i] = <<>>]
  /\ loading' = [loading EXCEPT ![i] = [at |-> "reading", rows |-> <<>>]]
  /\ persist' = [x \in Rows |->
                   IF persist[x].on = i
                   THEN [at |-> "lost", on |-> None, read |-> <<>>]
                   ELSE persist[x]]
  /\ UNCHANGED <<logged, recent, contested>>

----------------------------------------------------------------------------

Init ==
  /\ logged = {} /\ recent = <<>> /\ restarts = 0 /\ contested = {}
  /\ entries = [i \in Instances |-> <<>>]
  /\ own = [i \in Instances |-> <<>>]
  /\ loading = [i \in Instances |-> [at |-> "reading", rows |-> <<>>]]
  /\ persist = [x \in Rows |-> [at |-> "idle", on |-> None, read |-> <<>>]]

(* Everything has been logged and nothing is under way.                    *)
Finished ==
  /\ logged = Batches
  /\ \A x \in Rows : persist[x].at \notin {"reading", "writing"}
  /\ \A i \in Instances : loading[i].at = "done"
  /\ UNCHANGED vars

Next ==
  \/ \E b \in Batches : Log(b)
  \/ \E x \in Rows : ReadRecent(x) \/ WriteRecent(x) \/ PersistFails(x)
  \/ \E i \in Instances : LoadRead(i) \/ Load(i) \/ LoadFails(i) \/ Restart(i)
  \/ Finished

Spec == Init /\ [][Next]_vars

----------------------------------------------------------------------------
(* Invariants                                                              *)

(* Every variable has its type, and what is stored a bounded length.       *)
TypeOK ==
  /\ logged \subseteq Batches
  /\ entries \in [Instances -> Seq(Rows)]
  /\ loading \in [Instances -> [at: {"reading", "read", "done"},
                               rows: Seq(Rows)]]
  /\ recent \in Seq(Rows) /\ Len(recent) <= MaxRows
  /\ persist \in [Rows -> [at: {"idle", "reading", "writing", "done", "lost"},
                           on: Instances \cup {None}, read: Seq(Rows)]]
  /\ restarts \in 0..MaxRestarts
  /\ contested \subseteq Rows
  /\ own \in [Instances -> Seq(Rows)]

(* A row whose persisting nothing overlapped stays in the store until      *)
(* MaxRows others have pushed it out, whatever is persisted, or fails to   *)
(* be, concurrently after it.                                              *)
PersistedIsKept ==
  \A x \in Rows : persist[x].at = "done" /\ x \notin contested =>
    x \in Range(recent) \/ Len(recent) = MaxRows

(* No row is listed twice by an instance, although it may be persisted     *)
(* while its own instance is still loading.                                *)
NoRowTwice == \A i \in Instances : IsInjective(entries[i])

(* GET /audit ends with what the instance has logged, in the order it was  *)
(* logged, whenever the loading of older rows came in between.             *)
OwnRowsLast ==
  \A i \in Instances, limit \in 1..MaxRows :
    IsSuffix(LastRows(own[i], limit), GetAudit(i, limit))
=============================================================================
