--------------------------- MODULE SharedSnapshot ---------------------------
(***************************************************************************)
(* Parlia.snapshot (consensus/parlia/parlia.go) gives all its callers the  *)
(* same object for a block, the one in recentSnaps, and from Snake8 on     *)
(* writes into it: the flag of the caller, and the table in the header     *)
(* that the caller passes.  The validator in turn for the next block is    *)
(* then read from that object, some time later and without a lock.         *)
(*                                                                         *)
(* Three goroutines work on one chain: the verification of headers, the    *)
(* import of blocks and the miner.  They pass the header of the block in   *)
(* question.  Other calls (SignRecently of the worker,                     *)
(* NextInTurnValidator, GetJustifiedNumberAndHash, the RPC interface) ask  *)
(* for the snapshot of a block and pass the header of that block itself,   *)
(* with the table that chose its own sealer.                               *)
(*                                                                         *)
(* A table is named after the block whose header holds it.  Tables of two  *)
(* blocks differ, since recent signers are left out.                       *)
(***************************************************************************)
EXTENDS Integers

CONSTANTS
  LastBlock,    \* bound: the last block
  FirstSnake8,  \* the first block whose parent is in Snake8
  Sealer,       \* the sealer of each block
  Turn(_, _)    \* the validator in turn for a block by a table, or by round robin

VARIABLES
  shared,    \* the snapshot in memory of each block: [isSnake8, freq]
  checked,   \* the headers that are verified
  imported,  \* the blocks that are imported
  task,      \* what each goroutine is doing, and for which block
  wrong      \* of the wrong decisions: was the snapshot left alone in between?

sharedVars == <<shared, checked, imported, task, wrong>>

NoTable == 0  \* an empty FrequencyRLP
Idle    == [op |-> "idle"]

SharedInit ==
  /\ shared = [k \in 0..LastBlock |-> [isSnake8 |-> FALSE, freq |-> NoTable]]
  /\ checked = 0 /\ imported = 0
  /\ task = [t \in {"verify", "import", "mine"} |-> Idle]
  /\ wrong = {}

Snake8Enabled(n) == n >= FirstSnake8

\* parseValidatorFrequencies for the header of block n, as its sealer made it.
TableOf(n) == IF Snake8Enabled(n) THEN n ELSE NoTable

Populated_FirstTable(k, flag, table) ==
  [shared EXCEPT ![k] = [isSnake8 |-> flag,
                         freq     |-> IF flag /\ @.freq = NoTable THEN table ELSE @.freq]]

\* snapshot() for block k, with the header that holds the table or with none.
Populated(k, flag, table) ==
  [shared EXCEPT ![k] = [isSnake8 |-> flag,
                         freq     |-> IF flag /\ table # NoTable THEN table ELSE @.freq]]

\* The validator in turn for block n, from the snapshot of its parent.
InturnInSnapshot(n) ==
  LET s == shared[n - 1]
  IN  Turn(n, IF n = 1 \/ ~s.isSnake8 THEN NoTable ELSE s.freq)

\* The same from the header of block n alone.
InturnByHeader(n) == Turn(n, IF n = 1 THEN NoTable ELSE TableOf(n))

Fetch(t, op, n, table) ==
  /\ shared' = Populated(n - 1, Snake8Enabled(n), table)
  /\ task' = [task EXCEPT ![t] = [op |-> op, block |-> n, clean |-> TRUE]]

\* Goroutine t has decided, and goes on with op if the decision was right.
Decide(t, right, op) ==
  LET d == task[t]
  IN  /\ wrong' = IF right THEN wrong ELSE wrong \cup {d.clean}
      /\ task' = [task EXCEPT ![t] = IF right /\ op # "idle" THEN [d EXCEPT !.op = op] ELSE Idle]

----------------------------------------------------------------------------
(* verifyCascadingFields and verifySeal.                                   *)

VerifyCascadingFields ==
  /\ task["verify"] = Idle /\ checked < LastBlock
  /\ Fetch("verify", "time", checked + 1, TableOf(checked + 1))
  /\ UNCHANGED <<checked, imported, wrong>>

\* The earliest time of a block depends on who is in turn (backOffTime).
BlockTimeVerify ==
  /\ task["verify"].op = "time"
  /\ LET n == task["verify"].block
     IN  Decide("verify", InturnInSnapshot(n) = InturnByHeader(n), "timed")
  /\ UNCHANGED <<shared, checked, imported>>

VerifySealHeader ==
  /\ task["verify"].op = "timed"
  /\ Fetch("verify", "seal", task["verify"].block, TableOf(task["verify"].block))
  /\ UNCHANGED <<checked, imported, wrong>>

\* A header that fails is offered again.
VerifyDifficulty ==
  /\ task["verify"].op = "seal"
  /\ LET n     == task["verify"].block
         right == (InturnInSnapshot(n) = Sealer[n]) = (InturnByHeader(n) = Sealer[n])
     IN  /\ Decide("verify", right, "idle")
         /\ checked' = IF right THEN n ELSE checked
  /\ UNCHANGED <<shared, imported>>

----------------------------------------------------------------------------
(* Finalize: a block out of turn slashes the validator in turn.            *)

ImportInTurn ==
  /\ task["import"] = Idle /\ imported < checked
  /\ InturnByHeader(imported + 1) = Sealer[imported + 1]
  /\ imported' = imported + 1
  /\ UNCHANGED <<shared, checked, task, wrong>>

Finalize ==
  /\ task["import"] = Idle /\ imported < checked
  /\ InturnByHeader(imported + 1) # Sealer[imported + 1]
  /\ Fetch("import", "slash", imported + 1, TableOf(imported + 1))
  /\ UNCHANGED <<checked, imported, wrong>>

\* Another slash transaction than the one in the block: the block is refused.
Slash ==
  /\ task["import"].op = "slash"
  /\ LET n     == task["import"].block
         right == InturnInSnapshot(n) = InturnByHeader(n)
     IN  /\ Decide("import", right, "idle")
         /\ imported' = IF right THEN n ELSE imported
  /\ UNCHANGED <<shared, checked>>

----------------------------------------------------------------------------
(* Prepare: a block on the head.                                           *)

Prepare ==
  /\ task["mine"] = Idle /\ imported < LastBlock
  /\ Fetch("mine", "calc", imported + 1, NoTable)
  /\ UNCHANGED <<checked, imported, wrong>>

CalcFrequency ==
  /\ task["mine"].op = "calc"
  /\ LET n == task["mine"].block
     IN  shared' = IF Snake8Enabled(n) THEN [shared EXCEPT ![n - 1].freq = TableOf(n)] ELSE shared
  /\ task' = [task EXCEPT !["mine"].op = "rate"]
  /\ UNCHANGED <<checked, imported, wrong>>

\* Difficulty and time of the new header, each with a reading of its own.  A header
\* that came out wrong is not followed further.
Rate ==
  /\ task["mine"].op \in {"rate", "delay"}
  /\ LET n == task["mine"].block
     IN  Decide("mine", InturnInSnapshot(n) = InturnByHeader(n),
                IF task["mine"].op = "rate" THEN "delay" ELSE "append")
  /\ UNCHANGED <<shared, checked, imported>>

\* The table is read again for header.Extra.
AppendTable ==
  /\ task["mine"].op = "append"
  /\ LET n == task["mine"].block
     IN  Decide("mine", Snake8Enabled(n) => shared[n - 1].freq = TableOf(n), "idle")
  /\ UNCHANGED <<shared, checked, imported>>

----------------------------------------------------------------------------
\* A call for the snapshot of block k that passes the header of k.
OwnHeader(k) ==
  /\ shared' = Populated(k, Snake8Enabled(k), TableOf(k))
  /\ task' = [t \in DOMAIN task |->
                IF task[t] # Idle /\ task[t].block = k + 1 /\ shared'[k] # shared[k]
                THEN [task[t] EXCEPT !.clean = FALSE] ELSE task[t]]
  /\ UNCHANGED <<checked, imported, wrong>>

SharedNext ==
  \/ VerifyCascadingFields \/ BlockTimeVerify \/ VerifySealHeader \/ VerifyDifficulty
  \/ ImportInTurn \/ Finalize \/ Slash
  \/ Prepare \/ CalcFrequency \/ Rate \/ AppendTable
  \/ \E k \in 1..imported : OwnHeader(k)

SharedSpec == SharedInit /\ [][SharedNext]_sharedVars
----------------------------------------------------------------------------
\* OnlyOwnHeaderDisturbs: verification, import and miner may share the snapshot
\* of a parent in any interleaving: they decide by the table in the header
\* unless a call with the parent's own header came between their call of
\* snapshot() and the reading.
OnlyOwnHeaderDisturbs == TRUE \notin wrong

\* HeaderDecides: difficulty, time, slashing and the table of a new header
\* follow the table of the block in question, never "corrupt data" that another
\* call of snapshot() left in FrequencyRLP.
HeaderDecides == wrong = {}
=============================================================================
