--------------------------- MODULE RemoteLogCursor ---------------------------
(***************************************************************************)
(* The rotation-aware cursor of the remote log collector, for one stream   *)
(* (a source and a kind of log): the files of the log on a host that       *)
(* writes, rotates, compresses, deletes and truncates them at any moment,  *)
(* and the passes of the collector that list them, match them with the     *)
(* states of the cursor, read each in turn and hand over a batch with the  *)
(* next cursor.  Each command of a pass on the host is a step of its own.  *)
(*                                                                         *)
(* A record is a number, in the order of writing; an offset counts         *)
(* records.  A file holds the records first .. last, so the first record   *)
(* stands for the prefix of 256 bytes and for the checkpoint before the    *)
(* offset, and last stands for size and modification time.  A path is the  *)
(* place of a file in remoteFiles, and whether the name ends with .gz: 1   *)
(* is the active file, and a rotation moves every other file one place on. *)
(***************************************************************************)
EXTENDS Integers, Sequences, SequencesExt, FiniteSets

CONSTANTS
    NoCursor,
    LastInode,     \* bound: inodes of the host
    MaxRecord,     \* bound: records written
    MaxFiles,      \* bound: files on the host
    Budget,        \* records one pass may read
    MaxBlurred,    \* bound: committed passes from the first that saw files move
    TailLength,    \* records of the active file the first pass reads
    Headed,        \* TRUE: a new or emptied file starts with a record at once
    HostSteps      \* "rotate", "compress", "truncate", "delete": what the host does

VARIABLES
    remoteFiles,   \* files of the stream, newest first
    written,       \* records written so far
    copy,          \* the archive being compressed and the inode of its .gz, or NoCopy
    firsts,        \* ghost: first records of the files that ever were
    cursor,        \* committed states of files, or NoCursor
    stored,        \* records in the database: [gen, offset, record]
    pass,          \* the pass under way
    baseline,      \* ghost: the first record the first pass was to read
    listed,        \* ghost: first records of files that a committed pass listed
    gone,          \* ghost: records no longer on the host at that listing
    told,          \* ghost: those of them that a gap warning covers
    blurred        \* ghost: committed passes from the first that listed moving files

hostVars == <<remoteFiles, written, copy, firsts>>
savedVars == <<cursor, stored, baseline, listed, gone, told, blurred>>
remoteLogVars == <<hostVars, savedVars, pass>>

\* The reader's retries of a stream whose file changed (range(3)).
Attempts == 3

Inodes == 1 .. LastInode

\* What a cursor holds of a file: how far it was read, under which generation, and
\* what was seen of it.
FileStates ==
    [gen : Nat, id : Inodes, offset : Nat, prefix : Nat, done : BOOLEAN,
     stamp : BOOLEAN \X Nat \X Nat, meta : BOOLEAN]

\* The bounds leave room for the two files there are at first, and a cursor that
\* there is not is no list of states.
ASSUME RemoteLogAssumption ==
    /\ {LastInode, MaxRecord, MaxFiles} \subseteq Nat \ {0, 1}
    /\ {Budget, TailLength} \subseteq Nat \ {0}
    /\ Headed \in BOOLEAN
    /\ NoCursor \notin Seq(FileStates)

NoPass == [pc |-> "idle"]
NoCopy == [of |-> 0, id |-> 0]
File(id, first, last) == [id |-> id, gz |-> FALSE, first |-> first, last |-> last]
Length(f) == f.last - f.first + 1
Records(f) == f.first .. f.last
FirstRecord(f) == IF Length(f) > 0 THEN f.first ELSE 0
\* What stat shows of a file besides its inode.
FileStamp(f) == <<f.gz, f.first, f.last>>
Present == UNION {Records(f) : f \in Range(remoteFiles)}

RemoteLogInit ==
    /\ remoteFiles = <<File(2, 2, 2), File(1, 1, 1)>>
    /\ written = 2
    /\ copy = NoCopy
    /\ firsts = {1, 2}
    /\ cursor = NoCursor
    /\ stored = {}
    /\ pass = NoPass
    /\ baseline = 0
    /\ listed = {} /\ gone = {} /\ told = {} /\ blurred = 0

-----------------------------------------------------------------------------
(* The host.                                                                *)

FreeInodes == Inodes \ ({f.id : f \in Range(remoteFiles)} \cup {copy.id})
Head1 == IF Headed THEN 1 ELSE 0

\* Files move under a pass that has not finished listing and matching them.
MovesFiles ==
    pass' = IF pass.pc \in {"list", "look", "sized", "match"}
            THEN [pass EXCEPT !.moved = TRUE] ELSE pass

WriteRecord ==
    /\ written < MaxRecord
    /\ written' = written + 1
    /\ remoteFiles' = [remoteFiles EXCEPT ![1].last = @ + 1]
    /\ UNCHANGED <<copy, firsts, savedVars, pass>>

Rotate ==
    /\ "rotate" \in HostSteps
    /\ Len(remoteFiles) < MaxFiles
    /\ Length(remoteFiles[1]) > 0
    /\ written + Head1 <= MaxRecord
    /\ \E id \in FreeInodes :
          remoteFiles' = <<File(id, written + 1, written + Head1)>> \o remoteFiles
    /\ copy' = IF copy = NoCopy THEN copy ELSE [copy EXCEPT !.of = @ + 1]
    /\ written' = written + Head1
    /\ firsts' = firsts \cup {written + 1}
    /\ MovesFiles
    /\ UNCHANGED savedVars

\* An archive is compressed: for a while the finished .gz is there beside it.
\* (An unfinished one fails gzip -t, and the batch with it.)
StartCompress(i) ==
    /\ "compress" \in HostSteps
    /\ copy = NoCopy
    /\ i > 1 /\ ~ remoteFiles[i].gz
    /\ \E id \in FreeInodes : copy' = [of |-> i, id |-> id]
    /\ MovesFiles
    /\ UNCHANGED <<remoteFiles, written, firsts, savedVars>>

FinishCompress ==
    /\ copy # NoCopy
    /\ remoteFiles' = [remoteFiles EXCEPT ![copy.of].id = copy.id, ![copy.of].gz = TRUE]
    /\ copy' = NoCopy
    /\ MovesFiles
    /\ UNCHANGED <<written, firsts, savedVars>>

DeleteOldest ==
    /\ "delete" \in HostSteps
    /\ Len(remoteFiles) > 1 /\ copy.of # Len(remoteFiles)
    /\ remoteFiles' = Front(remoteFiles)
    /\ MovesFiles
    /\ UNCHANGED <<written, copy, firsts, savedVars>>

Truncate ==
    /\ "truncate" \in HostSteps
    /\ Length(remoteFiles[1]) > 0
    /\ written + Head1 <= MaxRecord
    /\ remoteFiles' = [remoteFiles EXCEPT ![1].first = written + 1,
                                          ![1].last = written + Head1]
    /\ written' = written + Head1
    /\ firsts' = firsts \cup {written + 1}
    /\ MovesFiles
    /\ UNCHANGED <<copy, savedVars>>

\* The files by their paths: a .gz that is being made is one of them.
Exists(place, gz) ==
    /\ place \in DOMAIN remoteFiles
    /\ remoteFiles[place].gz = gz \/ (gz /\ copy.of = place)
FileAt(place, gz) ==
    IF remoteFiles[place].gz = gz THEN remoteFiles[place]
    ELSE [remoteFiles[place] EXCEPT !.id = copy.id, !.gz = TRUE]
LogNames == {n \in (DOMAIN remoteFiles) \X BOOLEAN : Exists(n[1], n[2])}
PathExists(l) == Exists(l.path, l.file.gz)
AtPath(l) == FileAt(l.path, l.file.gz)

-----------------------------------------------------------------------------
(* Listing: the glob, a stat of each name, and a look into what is new.     *)

PassIs(p) == pass' = p

States == IF cursor = NoCursor THEN <<>> ELSE cursor

SameArchivedFile(s, f) == s.done /\ s.id = f.id /\ s.stamp = FileStamp(f)

\* The patterns are expanded once: only these names are looked for.
Begin(budget, attempt) ==
    PassIs([pc |-> "list", names |-> LogNames,
            seen |-> <<>>, size |-> 0, files |-> <<>>, found |-> <<>>, gap |-> FALSE,
            states |-> <<>>, logs |-> {}, data |-> {}, left |-> budget,
            budget |-> budget, attempt |-> attempt,
            gone |-> (1 .. written) \ Present, moved |-> copy # NoCopy])

BeginPass ==
    /\ pass.pc = "idle"
    /\ blurred < MaxBlurred
    /\ Begin(Budget, 1)
    /\ UNCHANGED <<hostVars, savedVars>>

NameBefore(m, n) == m[1] < n[1] \/ (m[1] = n[1] /\ ~ m[2] /\ n[2])

\* What is no longer there is passed over, and so is a second name of the active file.
Stat(name) ==
    IF \/ ~ Exists(name[1], name[2])
       \/ \E e \in Range(pass.seen) : e.path = 1 /\ e.file.id = FileAt(name[1], name[2]).id
    THEN <<>>
    ELSE <<[path |-> name[1], file |-> FileAt(name[1], name[2])]>>

StatNext ==
    /\ pass.pc = "list"
    /\ \E name \in pass.names :
          /\ \A other \in pass.names \ {name} : NameBefore(name, other)
          /\ PassIs([pass EXCEPT !.names = @ \ {name}, !.seen = @ \o Stat(name),
                                 !.pc = IF pass.names = {name} THEN "look" ELSE @])
    /\ UNCHANGED <<hostVars, savedVars>>

\* Metadata alone is looked at for the archives there are at the first pass,
\* and for those that were read to their end and have not changed since.
MetadataOnly(e) ==
    /\ e.path > 1
    /\ cursor = NoCursor \/ \E s \in Range(States) : SameArchivedFile(s, e.file)

\* Oldest first, the active file last; a plain file before its .gz.
SortsBefore(a, b) ==
    \/ ~ a.active /\ b.active
    \/ (a.active = b.active /\ a.file.last < b.file.last)
    \/ /\ a.active = b.active /\ a.file.last = b.file.last
       /\ NameBefore(<<a.path, a.file.gz>>, <<b.path, b.file.gz>>)

\* The entry that was looked at takes its place among the files.
Enter(meta, size, prefix) ==
    LET e == Head(pass.seen)
        l == [path |-> e.path, file |-> e.file, active |-> e.path = 1, meta |-> meta,
              size |-> size, prefix |-> prefix]
    IN \E k \in 0 .. Len(pass.files) :
          /\ \A i \in 1 .. k : SortsBefore(pass.files[i], l)
          /\ \A i \in k + 1 .. Len(pass.files) : SortsBefore(l, pass.files[i])
          /\ PassIs([pass EXCEPT !.files = InsertAt(@, k + 1, l), !.seen = Tail(@), !.size = 0,
                                 !.pc = IF Len(pass.seen) = 1 THEN "match" ELSE "look"])

EnterUnread ==
    /\ pass.pc = "look" /\ MetadataOnly(Head(pass.seen))
    /\ Enter(TRUE, 0, 0)
    /\ UNCHANGED <<hostVars, savedVars>>

LooksInto(gz) ==
    pass.pc = "look" /\ ~ MetadataOnly(Head(pass.seen)) /\ Head(pass.seen).file.gz = gz

\* gzip -t and wc: the size of what an archive holds.
MeasureArchive ==
    /\ LooksInto(TRUE) /\ PathExists(Head(pass.seen))
    /\ PassIs([pass EXCEPT !.pc = "sized", !.size = Length(AtPath(Head(pass.seen)))])
    /\ UNCHANGED <<hostVars, savedVars>>

ReadPrefix ==
    LET e == Head(pass.seen)
        size == IF e.file.gz THEN pass.size ELSE Length(e.file)
    IN /\ LooksInto(FALSE) \/ pass.pc = "sized"
       /\ PathExists(e)
       /\ Enter(FALSE, size, IF size = 0 THEN 0 ELSE FirstRecord(AtPath(e)))
       /\ UNCHANGED <<hostVars, savedVars>>

-----------------------------------------------------------------------------
(* Matching: each file in turn takes a state no earlier file has taken.     *)

(* Mutant: an archive, too, continues only a state with its inode. *)
Candidate_SameInode(s, l) ==
    IF l.meta THEN SameArchivedFile(s, l.file)
    ELSE /\ ~ (s.meta /\ s.prefix = 0)
         /\ l.size >= s.offset
         /\ s.prefix \in {0, l.prefix}
         /\ s.id = l.file.id

\* _matches, the inode of the active file, and the archives never read.
Candidate(s, l) ==
    IF l.meta THEN SameArchivedFile(s, l.file)
    ELSE /\ ~ (s.meta /\ s.prefix = 0)
         /\ l.size >= s.offset
         /\ s.prefix \in {0, l.prefix}
         /\ l.active => s.id = l.file.id

\* The record before the offset is still there.
CheckpointHolds(s, l) ==
    s.offset = 0 \/ (AtPath(l).first = s.prefix /\ Length(AtPath(l)) >= s.offset)

\* The state a listed file continues, 0 for none: the first with the same inode,
\* else the first.
MatchOf(l, taken) ==
    LET fit == {k \in DOMAIN States \ taken :
                   Candidate(States[k], l) /\ (l.meta \/ CheckpointHolds(States[k], l))}
        same == {k \in fit : States[k].id = l.file.id}
        FirstOf(K) == IF K = {} THEN 0 ELSE CHOOSE k \in K : \A j \in K : k <= j
    IN IF same # {} THEN FirstOf(same) ELSE FirstOf(fit)

\* States that match no file, of files not read to their end: a gap.
Gap(found) == \E k \in DOMAIN States \ Range(found) : ~ States[k].done

ToMatch == pass.files[Len(pass.found) + 1]
ReadsCheckpoint ==
    /\ pass.pc = "match" /\ ~ ToMatch.meta
    /\ \E k \in DOMAIN States \ Range(pass.found) :
          Candidate(States[k], ToMatch) /\ States[k].offset > 0

MatchNext ==
    LET found == Append(pass.found, MatchOf(ToMatch, Range(pass.found)))
        through == Len(found) = Len(pass.files)
    IN /\ pass.pc = "match"
       /\ ReadsCheckpoint => PathExists(ToMatch)
       /\ PassIs([pass EXCEPT !.found = found, !.gap = through /\ Gap(found),
                              !.pc = IF through THEN "next" ELSE @])
       /\ UNCHANGED <<hostVars, savedVars>>

-----------------------------------------------------------------------------
(* Reading one file after the other.                                        *)

Current == pass.files[Len(pass.states) + 1]
CurrentMatch == pass.found[Len(pass.states) + 1]
MoreFiles == Len(pass.states) < Len(pass.files)

\* A generation has a new uuid: a number nothing has had.
LogGenerations == {s.gen : s \in Range(States) \cup Range(pass.states) \cup stored}
NewGeneration == CHOOSE g \in 1 .. Cardinality(LogGenerations) + 1 : g \notin LogGenerations

NewState(l, offset) ==
    [gen |-> NewGeneration, id |-> l.file.id, offset |-> offset, prefix |-> l.prefix,
     done |-> FALSE, stamp |-> FileStamp(l.file), meta |-> l.meta]

Tail1(l) == IF l.size > TailLength THEN l.size - TailLength ELSE 0

\* The state a file is read from, with what was listed of it.
StateOf(l) ==
    LET s == IF CurrentMatch # 0 THEN States[CurrentMatch]
             ELSE IF cursor # NoCursor THEN NewState(l, 0)
             ELSE IF l.active THEN NewState(l, Tail1(l))
             ELSE [NewState(l, l.size) EXCEPT !.done = TRUE]
    IN [s EXCEPT !.id = l.file.id, !.stamp = FileStamp(l.file), !.meta = l.meta,
                 !.done = @ /\ ~ l.active]

\* The rows so far may fill what one batch may carry: of what follows some is left.
MayBeFull == pass.logs # {} \/ pass.gap

\* A file that is done, or that the budget no longer reaches, is not read.
SkipFile ==
    /\ pass.pc = "next" /\ MoreFiles
    /\ StateOf(Current).done \/ pass.left = 0 \/ MayBeFull
    /\ PassIs([pass EXCEPT !.states = Append(@, StateOf(Current))])
    /\ UNCHANGED <<hostVars, savedVars>>

Wanted == LET rest == Current.size - StateOf(Current).offset
          IN IF rest < pass.left THEN rest ELSE pass.left
Reads == pass.pc = "next" /\ MoreFiles /\ ~ StateOf(Current).done /\ pass.left > 0

\* LogFileChanged: the stream begins again with what is left of its budget,
\* or the batch fails.
Retry(left) ==
    IF pass.attempt < Attempts /\ left > 0
    THEN Begin(left, pass.attempt + 1)
    ELSE PassIs(NoPass)

ReadFile ==
    LET first == AtPath(Current).first + StateOf(Current).offset
        data == first .. first + Wanted - 1
    IN /\ Reads /\ PathExists(Current)
       /\ IF data \subseteq Records(AtPath(Current))
          THEN PassIs([pass EXCEPT !.pc = "check", !.data = data,
                                 !.left = @ - Wanted])
          ELSE Retry(pass.left - Cardinality(data \cap Records(AtPath(Current))))
       /\ UNCHANGED <<hostVars, savedVars>>

\* The prefix once more, and verify: the same inode, an archive unchanged, the
\* active file not shorter.
StillTheSame(l) ==
    LET f == AtPath(l)
    IN /\ l.prefix # 0 => FirstRecord(f) = l.prefix
       /\ f.id = l.file.id
       /\ IF l.active THEN Length(f) >= l.size ELSE FileStamp(f) = FileStamp(l.file)

\* records(): the last record of what was read may go on, unless the archive
\* ends with it.
AtEnd == ~ Current.active /\ StateOf(Current).offset + Cardinality(pass.data) >= Current.size
Complete == IF AtEnd THEN pass.data
            ELSE {r \in pass.data : \E later \in pass.data : r < later}

\* The first n of them, of which a batch carries at least one if it carries nothing else.
Taken(n) == {r \in Complete : Cardinality({x \in Complete : x <= r}) <= n}
Carried == {n \in 0 .. Cardinality(Complete) : n = Cardinality(Complete) \/ n > 0 \/ MayBeFull}

\* The batch fails: nothing is taken of as much as one pass may read.
TooLong(n) == Current.active /\ pass.data # {} /\ n = 0 /\ Cardinality(pass.data) >= pass.budget

Rows(s, n) ==
    LET from == CHOOSE r \in Complete : \A x \in Complete : r <= x
    IN {[gen |-> s.gen, offset |-> s.offset + r - from, record |-> r] : r \in Taken(n)}

ReadOn(s, n) ==
    [s EXCEPT !.offset = @ + n, !.done = AtEnd /\ n = Cardinality(Complete),
              !.prefix = IF @ = 0 THEN Current.prefix ELSE @]

CheckFile ==
    /\ pass.pc = "check" /\ PathExists(Current)
    /\ \E n \in Carried :
          IF TooLong(n) THEN PassIs(NoPass)
          ELSE IF ~ StillTheSame(Current) THEN Retry(pass.left)
          ELSE PassIs([pass EXCEPT !.pc = "next", !.data = {},
                                   !.states = Append(@, ReadOn(StateOf(Current), n)),
                                   !.logs = @ \cup (IF n = 0 THEN {}
                                                    ELSE Rows(StateOf(Current), n))])
    /\ UNCHANGED <<hostVars, savedVars>>

\* A command on a path that is no longer there fails, and the batch with it.
PathMissing ==
    /\ \/ (LooksInto(TRUE) \/ LooksInto(FALSE) \/ pass.pc = "sized") /\ ~ PathExists(Head(pass.seen))
       \/ ReadsCheckpoint /\ ~ PathExists(ToMatch)
       \/ (Reads \/ pass.pc = "check") /\ ~ PathExists(Current)
    /\ PassIs(NoPass)
    /\ UNCHANGED <<hostVars, savedVars>>

-----------------------------------------------------------------------------
(* The end of a pass: rows and cursor are committed together, or the batch  *)
(* is lost (another stream, the timeout, the database).                     *)

\* The unique constraint of remote_logs: a row with a known key is skipped.
Inserted == {l \in pass.logs : \A x \in stored : <<x.gen, x.offset>> # <<l.gen, l.offset>>}

CommitPass ==
    /\ pass.pc = "next" /\ ~ MoreFiles
    /\ stored' = stored \cup Inserted
    /\ cursor' = pass.states
    /\ baseline' = IF cursor # NoCursor THEN baseline
                   ELSE Last(pass.files).prefix + Tail1(Last(pass.files))
    /\ listed' = listed \cup {l.file.first : l \in Range(pass.files)}
    /\ gone' = pass.gone
    /\ told' = IF pass.gap THEN told \cup pass.gone ELSE told
    /\ blurred' = IF blurred = 0 /\ ~ pass.moved THEN 0 ELSE blurred + 1
    /\ PassIs(NoPass)
    /\ UNCHANGED hostVars

BatchLost ==
    /\ pass.pc # "idle"
    /\ PassIs(NoPass)
    /\ UNCHANGED <<hostVars, savedVars>>

RemoteLogNext ==
    \/ WriteRecord \/ Rotate \/ FinishCompress \/ DeleteOldest \/ Truncate
    \/ \E i \in DOMAIN remoteFiles : StartCompress(i)
    \/ BeginPass \/ StatNext \/ EnterUnread \/ MeasureArchive \/ ReadPrefix \/ MatchNext
    \/ SkipFile \/ ReadFile \/ CheckFile \/ PathMissing \/ CommitPass \/ BatchLost

RemoteLogSpec == RemoteLogInit /\ [][RemoteLogNext]_remoteLogVars

(***************************************************************************)
(* Properties                                                              *)
(***************************************************************************)
StoredRecords == {x.record : x \in stored}

\* Files, states and rows have their shape; states lie within what was written.
LogRecord == [gen : Nat, offset : Nat, record : 1 .. MaxRecord]

RemoteLogTypeOK ==
    /\ written \in 2 .. MaxRecord
    /\ stored \subseteq LogRecord
    /\ Len(remoteFiles) \in 1 .. MaxFiles
    /\ \A f \in Range(remoteFiles) :
          /\ f.id \in Inodes /\ f.gz \in BOOLEAN
          /\ 1 <= f.first /\ f.first <= f.last + 1 /\ f.last <= written
    /\ \A s \in Range(States) :
          /\ s.id \in Inodes /\ s.offset \in 0 .. written /\ s.done \in BOOLEAN
          /\ s.prefix \in 0 .. written
    /\ StoredRecords \subseteq 1 .. written

\* No record is stored twice, under whatever generation and offset
\* (the rename, compression and retry of tests/test_remote_log_collector.py).
NoRecordTwice ==
    \A x, y \in stored : x.record = y.record => x = y

\* A committed position has passed over no record that is not stored.
NothingPassedOver ==
    \A s \in Range(States) :
        s.prefix # 0 =>
            \A r \in s.prefix .. s.prefix + s.offset - 1 :
                r >= baseline => r \in StoredRecords

\* A record of a file some committed pass has listed, no longer on the host at
\* a later one, is stored or was warned of (the gap warning).
HomeOf(r) == CHOOSE s \in firsts : s <= r /\ \A t \in firsts : t <= r => t <= s
LossIsTold ==
    \A r \in gone : r >= baseline /\ HomeOf(r) \in listed => r \in StoredRecords \cup told

\* Whatever the host does while the collector lists and reads, no position passes over
\* a record.  As long as each listing that counts saw the files keep their names, each
\* record is stored once, too, and told of when it is lost.
EveryRecordAccounted ==
    /\ NothingPassedOver
    /\ blurred = 0 => NoRecordTwice /\ LossIsTold
=============================================================================
