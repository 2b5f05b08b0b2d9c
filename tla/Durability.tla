------------------------------ MODULE Durability ------------------------------
(***************************************************************************)
(* core/engine (run, apply), store/write_ahead_log and store/recovery: a   *)
(* command is logged, then applied; the process may be killed or the       *)
(* machine lose power at any point; a restart rebuilds the book from the   *)
(* log.                                                                    *)
(*                                                                         *)
(* Commands are numbered in the order the engine pops them.  applyCommand  *)
(* is deterministic and shared by the live path and the replay, so a book  *)
(* is the sequence of commands it was built from; a command the book       *)
(* refuses is refused again on replay and needs no distinction.            *)
(***************************************************************************)
EXTENDS Naturals, Sequences, FiniteSets

CONSTANTS BatchRecords,  \* WalConfig::batchRecords
          Faults,        \* what may fail: storage, memory, the fill handler
          CommandLimit,  \* bound: commands popped
          RestartLimit   \* bound: crashes and shutdowns

ASSUME FaultsAssumption ==
  Faults \subseteq {"refused", "torn", "sync", "alloc", "handler"}
ASSUME LimitsAssumption ==
  BatchRecords \in Nat \ {0} /\ CommandLimit \in Nat /\ RestartLimit \in Nat

VARIABLES
  policy,        \* config_.policy
  file,          \* the log as a reader sees it: records and torn ones
  durable,       \* how many of them fdatasync has forced to the device
  nextSequence,  \* nextSequence_
  sinceSync,     \* sinceSync_
  book,          \* the commands the book has been through
  pc,            \* where the engine thread, or the recovery, is
  current,       \* the command in apply()
  taken,         \* commands popped so far
  restarts,      \* crashes and shutdowns so far
  acknowledged,  \* history: commands whose effects a client has seen
  lastBook,      \* history: the book at the crash, with the logged command
  openings,      \* history: processes that opened the log since it was forced
  unapplied,     \* history: commands this process logged and did not apply
  powerLost,     \* history: the machine has lost power
  struck         \* history: the faults that cost more than a refused command

log == <<file, durable, nextSequence, sinceSync, openings>>
past == <<policy, restarts, lastBook, powerLost>>
vars == <<log, past, struck, unapplied, book, pc, current, taken, acknowledged>>

\* SyncPolicy: force every record, every few, or none.
Policies == {"Always", "Batch", "Never"}

Record == [sequence : Nat \ {0}, command : Nat \ {0}]

\* The bytes of a record cut short: its checksum fails, and decoding them
\* regardless would give a command nobody sent.
Torn == [sequence |-> 0, command |-> 0]

\* A name with a suffix is a fault of the definition it precedes, kept to show
\* that a property notices it.
IntactLength_SkipsTheHole(records) == Len(records)

\* replay stops at the first record that does not decode.
IntactLength(records) ==
  CHOOSE n \in 0 .. Len(records) :
    /\ \A i \in 1 .. n : records[i] # Torn
    /\ n = Len(records) \/ records[n + 1] = Torn

Replayed(records) == [i \in 1 .. IntactLength(records) |-> records[i].command]

Init ==
  /\ policy \in Policies
  /\ file = <<>> /\ durable = 0
  /\ nextSequence = 1 /\ sinceSync = 0
  /\ book = <<>> /\ pc = "idle" /\ current = 0
  /\ taken = 0 /\ restarts = 0
  /\ acknowledged = {} /\ lastBook = <<>> /\ powerLost = FALSE
  /\ openings = 1 /\ unapplied = {} /\ struck = {}

-----------------------------------------------------------------------------
Strikes(fault) == fault \in Faults /\ struck' = struck \cup {fault}

\* Engine::run pops a command and apply() appends it to the log.
Pop ==
  /\ pc = "idle" /\ taken < CommandLimit
  /\ taken' = taken + 1
  /\ current' = taken + 1
  /\ pc' = "append"
  /\ UNCHANGED <<struck, unapplied, log, past, book, acknowledged>>

\* writeFully succeeds, then the counters move.
Write ==
  /\ pc = "append"
  /\ file' = Append(file, [sequence |-> nextSequence, command |-> current])
  /\ nextSequence' = nextSequence + 1
  /\ sinceSync' = sinceSync + 1
  /\ pc' = "written"
  /\ UNCHANGED <<struck, unapplied, durable, openings, past, book, current, taken,
                 acknowledged>>

WriteFails_AppliedAnyway ==
  /\ pc = "append" /\ "refused" \in Faults
  /\ pc' = "logged"
  /\ UNCHANGED <<struck, unapplied, log, past, book, current, taken, acknowledged>>

\* write() fails, at once or after a part of the record: StorageError, caught
\* by run(), which goes on to the next command.
WriteFails ==
  /\ pc = "append"
  /\ \/ "refused" \in Faults /\ UNCHANGED <<file, struck>>
     \/ Strikes("torn") /\ file' = Append(file, Torn)
  /\ pc' = "idle"
  /\ UNCHANGED <<unapplied, durable, nextSequence, sinceSync, openings, past, book,
                 current, taken, acknowledged>>

\* shouldSync: Always forces and Never does not; Batch must at BatchRecords and
\* may before, since the interval may have passed.
MaySkip_OneMore == policy = "Never" \/ (policy = "Batch" /\ sinceSync <= BatchRecords)

MaySkip == policy = "Never" \/ (policy = "Batch" /\ sinceSync < BatchRecords)

Sync_BeforeTheWrite ==
  /\ pc = "written" /\ policy # "Never"
  /\ durable' = Len(file) - 1
  /\ sinceSync' = 0 /\ openings' = 1
  /\ pc' = "logged"
  /\ UNCHANGED <<struck, unapplied, file, nextSequence, past, book, current, taken,
                 acknowledged>>

Sync ==
  /\ pc = "written" /\ policy # "Never"
  /\ durable' = Len(file)
  /\ sinceSync' = 0 /\ openings' = 1
  /\ pc' = "logged"
  /\ UNCHANGED <<struck, unapplied, file, nextSequence, past, book, current, taken,
                 acknowledged>>

SkipSync ==
  /\ pc = "written" /\ MaySkip
  /\ pc' = "logged"
  /\ UNCHANGED <<struck, unapplied, log, past, book, current, taken, acknowledged>>

\* fdatasync fails: StorageError, although the record is in the file.
SyncFails ==
  /\ pc = "written" /\ policy # "Never" /\ Strikes("sync")
  /\ unapplied' = unapplied \cup {current}
  /\ pc' = "idle"
  /\ UNCHANGED <<log, past, book, current, taken, acknowledged>>

\* applyCommand mutates the book.
Mutate ==
  /\ pc = "logged"
  /\ book' = Append(book, current)
  /\ pc' = "publish"
  /\ UNCHANGED <<struck, unapplied, log, past, current, taken, acknowledged>>

\* applyCommand throws bad_alloc: the book is untouched, the record stays.
MutateThrows ==
  /\ pc = "logged" /\ Strikes("alloc")
  /\ unapplied' = unapplied \cup {current}
  /\ pc' = "idle"
  /\ UNCHANGED <<log, past, book, current, taken, acknowledged>>

\* The fills go to the handler and their clients.
Publish ==
  /\ pc = "publish"
  /\ acknowledged' = acknowledged \cup {current}
  /\ pc' = "idle"
  /\ UNCHANGED <<struck, unapplied, log, past, book, current, taken>>

\* The handler throws, before or after a client has heard: the remaining fills
\* are not published, but the command stays applied, and logged.
PublishThrows ==
  /\ pc = "publish" /\ "handler" \in Faults
  /\ acknowledged' \in {acknowledged, acknowledged \cup {current}}
  /\ pc' = "idle"
  /\ UNCHANGED <<struck, unapplied, log, past, book, current, taken>>

-----------------------------------------------------------------------------
\* The process ends.  Memory is gone; what the log holds depends on how it ended.

Die ==
  /\ restarts < RestartLimit
  /\ restarts' = restarts + 1
  /\ book' = <<>>
  /\ pc' = "down"
  /\ lastBook' = CASE pc \in {"written", "logged"} -> Append(book, current)
                   [] pc \in {"down", "replay"}    -> lastBook
                   [] OTHER                        -> book
  /\ unapplied' = {}
  /\ UNCHANGED <<policy, nextSequence, sinceSync, current, taken, acknowledged>>

\* Engine::stop flushes the log, best effort, once the queue is drained.
Stop ==
  /\ pc = "idle"
  /\ Die
  /\ \/ durable' = Len(file) /\ openings' = 0 /\ UNCHANGED struck
     \/ Strikes("sync") /\ UNCHANGED <<durable, openings>>
  /\ UNCHANGED <<file, powerLost>>

\* The page cache outlives the process; a write in progress may be cut short.
Kill ==
  /\ pc # "down"
  /\ Die
  /\ \/ UNCHANGED file
     \/ pc = "append" /\ file' = Append(file, Torn)
  /\ UNCHANGED <<struck, durable, openings, powerLost>>

\* Of what was not forced, any part from the front may have reached the device.
PowerLoss ==
  /\ Die
  /\ \E kept \in durable .. Len(file) :
       \/ file' = SubSeq(file, 1, kept)
       \/ (kept < Len(file) \/ pc = "append") /\ file' = Append(SubSeq(file, 1, kept), Torn)
  /\ durable' = Len(file') /\ openings' = 0
  /\ powerLost' = TRUE
  /\ UNCHANGED struck

-----------------------------------------------------------------------------
\* recover: replay every intact record, then trim the damaged tail; the log is
\* opened for appending with the sequence continued.

Restart ==
  /\ pc = "down"
  /\ pc' = "replay"
  /\ UNCHANGED <<struck, unapplied, log, past, book, current, taken, acknowledged>>

ReplayOne ==
  /\ pc = "replay" /\ Len(book) < IntactLength(file)
  /\ book' = Append(book, file[Len(book) + 1].command)
  /\ UNCHANGED <<struck, unapplied, log, past, pc, current, taken, acknowledged>>

truncateTo_Forgotten(records) == records

\* WriteAheadLog::truncateTo cuts the file back to its valid bytes.
truncateTo(records) == SubSeq(records, 1, IntactLength(records))

ContinuedSequence_FromOne(records) == 1

\* The constructor numbers on from the last intact record.
ContinuedSequence(records) ==
  IF IntactLength(records) = 0 THEN 1 ELSE records[IntactLength(records)].sequence + 1

Trim ==
  /\ pc = "replay" /\ Len(book) = IntactLength(file)
  /\ file' = truncateTo(file)
  /\ durable' = IF durable < Len(file') THEN durable ELSE Len(file')
  /\ nextSequence' = ContinuedSequence(file')
  /\ sinceSync' = 0 /\ openings' = openings + 1
  /\ pc' = "idle"
  /\ UNCHANGED <<struck, unapplied, past, book, current, taken, acknowledged>>

Next ==
  \/ Pop \/ Write \/ WriteFails \/ Sync \/ SkipSync \/ SyncFails \/ Mutate \/ MutateThrows
  \/ Publish \/ PublishThrows \/ Stop \/ Kill \/ PowerLoss
  \/ Restart \/ ReplayOne \/ Trim

Spec == Init /\ [][Next]_vars

-----------------------------------------------------------------------------
\* The types of the log, the book and the position of the engine thread.
TypeOK ==
  /\ file \in Seq(Record \cup {Torn})
  /\ durable \in 0 .. Len(file)
  /\ nextSequence \in Nat \ {0} /\ sinceSync \in Nat
  /\ book \in Seq(Nat \ {0}) /\ lastBook \in Seq(Nat \ {0})
  /\ pc \in {"idle", "append", "written", "logged", "publish", "down", "replay"}
  /\ current \in Nat /\ taken \in Nat /\ restarts \in Nat
  /\ acknowledged \subseteq Nat
  /\ policy \in Policies /\ openings \in Nat /\ powerLost \in BOOLEAN
  /\ unapplied \subseteq Nat
  /\ struck \subseteq Faults

Commands(history) == {history[i] : i \in DOMAIN history}

\* Between commands the book is what a replay of the log would build, as
\* Engine::apply says ("the log and the book cannot disagree"): a refused append
\* leaves both alone.  Its comment is false when fdatasync throws, or
\* applyCommand does, after the record was written: then the log holds exactly
\* those commands besides the book's, until a recovery has applied them too.
LogAgreesWithBook ==
  pc = "idle" =>
    /\ struck = {} => Replayed(file) = book
    /\ "torn" \notin struck =>
         /\ Commands(Replayed(file)) = Commands(book) \cup unapplied
         /\ Commands(book) \cap unapplied = {}

\* Whatever crashes intervened, a process that is serving again has every
\* command whose effects a client saw: under Always after a loss of power too,
\* under the other policies as long as the machine stayed up.
NothingAcknowledgedIsLost ==
  pc = "idle" /\ (policy = "Always" \/ ~powerLost) =>
    \A c \in acknowledged : \E i \in DOMAIN book : book[i] = c

\* As much holds if only memory runs out: the record of a command that was not
\* applied costs no acknowledged command its own.  Replayed, it may still change
\* what the later ones trade with.
NothingAcknowledgedIsLostUnlessStorageFails ==
  struck \subseteq {"alloc"} => NothingAcknowledgedIsLost

\* Recovery never builds a book that did not exist: at each record it is a
\* prefix of the history the crash interrupted, with no hole replayed over, if
\* no command was logged and then not applied.
RecoversAPrefix ==
  pc = "replay" /\ struck = {} =>
    Len(book) <= Len(lastBook) /\ \A i \in DOMAIN book : book[i] = lastBook[i]

\* Whatever fails, a running process has applied each command at most once, in
\* the order they were taken, and none without its record being in the file:
\* "an unlogged mutation is precisely the divergence the log exists to prevent".
AppliedWasLogged ==
  /\ \A i, j \in DOMAIN book : i < j => book[i] < book[j]
  /\ \A i \in DOMAIN book : \E k \in DOMAIN file : file[k].command = book[i]

\* Across restarts the intact log reads as one history, numbered without gaps
\* or repeats (the constructor continues the sequence).
OneHistory ==
  \A i \in 1 .. IntactLength(file) : file[i].sequence = i

\* What a replay is sure to find after a power loss: records that were forced
\* and have no hole before them.
Safe == Commands(Replayed(SubSeq(file, 1, durable)))

\* Acknowledged commands that still have a record and would lose it.
AtRisk == {c \in acknowledged \ Safe : \E k \in DOMAIN file : file[k].command = c}

\* The batch policy's loss window, as long as no write was cut short: a power loss
\* right now costs fewer than BatchRecords acknowledged commands for each process
\* that opened the log since it was last forced.  A restart starts a new window
\* on top of what its predecessor left unforced, and an idle process leaves its
\* last records at risk until the next append (shouldSync runs nowhere else).
\* Behind a torn record, forced or not, every later one would be lost.
LossWindowIsBounded ==
  policy = "Batch" /\ "torn" \notin struck =>
    Cardinality(AtRisk) <= openings * (BatchRecords - 1)

=============================================================================
