------------------------ MODULE RemoteLogCursor_proofs ------------------------
(***************************************************************************)
(* That every record is accounted for, for every host and every bound: the *)
(* inductive invariant of RemoteLogCursor relates three views of a file,   *)
(* the host's now, the one a listing saw, and the one a state was read     *)
(* from, by the first record, which no two files share.                    *)
(***************************************************************************)
EXTENDS RemoteLogCursor, FiniteSetTheorems, SequenceTheorems, WellFoundedInduction, TLAPS

-----------------------------------------------------------------------------
(* The inductive invariant.                                                *)

Files == [id : Inodes, gz : BOOLEAN, first : Nat, last : Nat]

\* No two files share an inode, and the active file is plain and never a copy's.
InodesTrue ==
    /\ ~ remoteFiles[1].gz
    /\ \A i, j \in DOMAIN remoteFiles : i # j => remoteFiles[i].id # remoteFiles[j].id
    /\ copy # NoCopy =>
          /\ copy \in [of : Nat, id : Inodes] /\ copy.of > 1 /\ copy.of <= Len(remoteFiles)
          /\ \A i \in DOMAIN remoteFiles : remoteFiles[i].id # copy.id

\* Files are neither empty nor overlap, and a record belongs to one first record.
HostTrue ==
    /\ written \in 2 .. MaxRecord
    /\ remoteFiles \in Seq(Files) /\ Len(remoteFiles) \in 1 .. MaxFiles
    /\ remoteFiles[1].last = written
    /\ firsts \subseteq 1 .. written /\ 1 \in firsts
    /\ \A i \in DOMAIN remoteFiles :
          /\ remoteFiles[i].first \in firsts
          /\ remoteFiles[i].first <= remoteFiles[i].last
          /\ \A t \in firsts : t <= remoteFiles[i].first \/ remoteFiles[i].last < t
          /\ i > 1 => remoteFiles[i].last + 1 \in firsts
    /\ \A i, j \in DOMAIN remoteFiles : i < j => remoteFiles[j].last < remoteFiles[i].first
    /\ InodesTrue

\* The file that r was written to began with h.
IsHome(h, r) ==
    h \in firsts /\ h <= r /\ \A t \in firsts : t <= h \/ r < t

\* What was seen of a file is still true of it, if it is still there.
Seen(id, first, last, archived) ==
    /\ first \in firsts /\ first <= last /\ last <= written
    /\ \A t \in firsts : t <= first \/ last < t
    /\ archived => last + 1 \in firsts
    /\ \A i \in DOMAIN remoteFiles :
          remoteFiles[i].first = first =>
             /\ last <= remoteFiles[i].last
             /\ archived => i > 1 /\ last = remoteFiles[i].last
             /\ i = 1 => id = remoteFiles[i].id

\* What a state says of its file, its rows and the records before its offset.
StateTrue(s, base, kept) ==
    /\ s \in FileStates
    /\ Seen(s.id, s.stamp[2], s.stamp[3], s.done)
    /\ s.meta => s.done
    /\ s.prefix = 0 => s.meta /\ s.offset = 0 /\ s.stamp[3] < base
    /\ s.prefix # 0 =>
          /\ s.prefix = s.stamp[2]
          /\ s.stamp[2] + s.offset <= s.stamp[3] + 1
          /\ s.done => s.stamp[2] + s.offset = s.stamp[3] + 1
    /\ s.prefix # 0 => \A r \in s.prefix .. s.prefix + s.offset - 1 :
                          r >= base => \E x \in kept : x.record = r
    /\ \A x \in kept :
          /\ IsHome(s.stamp[2], x.record) => s.prefix # 0 /\ x.record < s.prefix + s.offset
          /\ x.gen = s.gen => s.prefix # 0 /\ x.record = s.prefix + x.offset

LogRowsTrue ==
    /\ IsFiniteSet(stored) /\ stored \subseteq LogRecord
    /\ \A x \in stored : x.record <= written
    /\ NoRecordTwice
    /\ baseline \in Nat

CursorTrue ==
    /\ cursor = NoCursor => stored = {} /\ listed = {} /\ gone = {}
    /\ cursor # NoCursor => cursor \in Seq(FileStates)
    /\ \A k \in DOMAIN States : StateTrue(States[k], baseline, stored)
    /\ \A j, k \in DOMAIN States :
          j # k => States[j].gen # States[k].gen /\ States[j].stamp[2] # States[k].stamp[2]
    /\ \A x \in stored : \A i \in DOMAIN remoteFiles :
          IsHome(remoteFiles[i].first, x.record) =>
             \E k \in DOMAIN States : States[k].prefix = remoteFiles[i].first

\* A file that is gone for good, with all that was written to it.
Vanished(h, lost) ==
    /\ h \in firsts
    /\ \A i \in DOMAIN remoteFiles : remoteFiles[i].first # h
    /\ \A r \in 1 .. written : IsHome(h, r) => r \in lost

LossTrue ==
    /\ gone \subseteq 1 .. written
    /\ \A h \in listed : (\E k \in DOMAIN States : States[k].stamp[2] = h) \/ Vanished(h, gone)
    /\ \A r \in gone, h \in listed :
          r >= baseline /\ IsHome(h, r) => r \in StoredRecords \cup told

\* A place of the list never goes back to an older file.
Newer(path, first) ==
    /\ first <= written
    /\ \A j \in DOMAIN remoteFiles : j <= path => first <= remoteFiles[j].first

ListedFiles ==
    [path : Nat, file : Files, active : BOOLEAN, meta : BOOLEAN, size : Nat, prefix : Nat]
Entries == [path : Nat, file : Files]

Passes ==
    [pc : {"list", "look", "sized", "match", "next", "check"},
     names : SUBSET ((Nat \ {0}) \X BOOLEAN), seen : Seq(Entries), size : Nat,
     files : Seq(ListedFiles), found : Seq(Nat), gap : BOOLEAN,
     states : Seq(FileStates), logs : SUBSET LogRecord, data : SUBSET Nat, left : Nat,
     budget : Nat, attempt : Nat, gone : SUBSET (1 .. MaxRecord), moved : BOOLEAN]
Listing == {"list", "look", "sized", "match"}

PassBase(p) == IF cursor # NoCursor THEN baseline
               ELSE Last(p.files).prefix + Tail1(Last(p.files))

-----------------------------------------------------------------------------
(* What holds whatever the host does.                                      *)

\* A generation counts from the prefix of its state, and what the state has passed over
\* is stored.
SoundState(s, base, kept) ==
    /\ s \in FileStates /\ s.offset <= written /\ s.prefix <= written
    /\ s.prefix = 0 => s.meta /\ s.offset = 0
    /\ s.prefix # 0 => \A r \in s.prefix .. s.prefix + s.offset - 1 :
                          r >= base => \E x \in kept : x.record = r
    /\ \A x \in kept : x.gen = s.gen => s.prefix # 0 /\ x.record = s.prefix + x.offset

SoundRows ==
    /\ IsFiniteSet(stored) /\ stored \subseteq LogRecord
    /\ \A x \in stored : x.record <= written
    /\ baseline \in Nat /\ blurred \in Nat
    /\ cursor = NoCursor => stored = {} /\ listed = {} /\ gone = {}
    /\ cursor # NoCursor => cursor \in Seq(FileStates)

SoundCursor ==
    /\ \A k \in DOMAIN States : SoundState(States[k], baseline, stored)
    /\ \A j, k \in DOMAIN States : j # k => States[j].gen # States[k].gen

SoundEntry(e) == 1 <= e.file.first /\ e.file.first <= e.file.last /\ e.file.last <= written

SoundListed(l) ==
    /\ l.active <=> l.path = 1
    /\ l.size <= written
    /\ l.meta => ~ l.active /\ l.size = 0 /\ l.prefix = 0
    /\ ~ l.meta => l.prefix # 0 /\ Newer(l.path, l.prefix)
    /\ cursor = NoCursor => (l.meta <=> ~ l.active)

\* The active file is the first to be seen and the last to be read.
ActiveOnce(p) ==
    /\ p.pc = "list" =>
          /\ p.files = <<>>
          /\ <<1, FALSE>> \in p.names <=> p.seen = <<>>
          /\ \A n \in p.names : n[1] = 1 => ~ n[2]
          /\ p.names # {}
    /\ p.pc \in {"look", "sized"} => p.seen # <<>>
    /\ p.pc \in {"match", "next", "check"} => p.files # <<>>
    /\ p.files = <<>> => \A j \in DOMAIN p.seen : p.seen[j].path = 1 <=> j = 1
    /\ p.files # <<>> => \A j \in DOMAIN p.seen : p.seen[j].path # 1
    /\ \A i \in DOMAIN p.files : p.files[i].active <=> i = Len(p.files)

SoundListing(p) ==
    /\ ActiveOnce(p)
    /\ \A j \in DOMAIN p.seen : SoundEntry(p.seen[j])
    /\ \A i \in DOMAIN p.files : SoundListed(p.files[i])
    /\ p.pc = "sized" => /\ p.size # 0 /\ p.size <= written
                         /\ ~ MetadataOnly(Head(p.seen))

SoundMatches(p) ==
    /\ p.pc \in {"list", "look", "sized"} => p.found = <<>>
    /\ p.pc = "match" => Len(p.found) < Len(p.files)
    /\ p.pc \in {"next", "check"} => Len(p.found) = Len(p.files)
    /\ \A i \in DOMAIN p.found : p.found[i] # 0 =>
          /\ p.found[i] \in DOMAIN States /\ Candidate(States[p.found[i]], p.files[i])
          /\ \A j \in DOMAIN p.found : p.found[j] = p.found[i] => j = i

SoundMade(p) ==
    /\ p.pc \in Listing => p.states = <<>> /\ p.logs = {}
    /\ Len(p.states) <= Len(p.files)
    /\ \A i \in DOMAIN p.states :
          /\ SoundState(p.states[i], PassBase(p), stored \cup p.logs)
          /\ IF p.found[i] # 0 THEN p.states[i].gen = States[p.found[i]].gen
             ELSE /\ \A k \in DOMAIN States : p.states[i].gen # States[k].gen
                  /\ \A x \in stored : p.states[i].gen # x.gen
    /\ \A i, j \in DOMAIN p.states : i # j => p.states[i].gen # p.states[j].gen
    /\ IsFiniteSet(p.logs)
    /\ \A x \in p.logs :
          x.record <= written /\ \E i \in DOMAIN p.states : x.gen = p.states[i].gen

\* What was read is of one file, at least as new as the prefix that was listed.
SoundData(p) ==
    p.pc = "check" =>
       /\ Len(p.states) < Len(p.files) /\ ~ StateOf(Current).done
       /\ StateOf(Current).offset \in Nat
       /\ \E a, n \in 0 .. written :
             /\ p.data = a + StateOf(Current).offset .. a + StateOf(Current).offset + n - 1
             /\ StateOf(Current).offset + n <= Current.size
             /\ n # 0 => a + StateOf(Current).offset + n <= written + 1
             /\ Current.prefix <= a /\ Newer(Current.path, a)

SoundPass ==
    \/ pass = NoPass
    \/ /\ pass \in Passes
       /\ SoundListing(pass) /\ SoundMatches(pass) /\ SoundMade(pass) /\ SoundData(pass)

Sound == SoundRows /\ SoundCursor /\ SoundPass

-----------------------------------------------------------------------------
(* What holds as long as no listing that counts saw files move.            *)

ListedTrue(l) ==
    /\ Seen(l.file.id, l.file.first, l.file.last, ~ l.active)
    /\ Newer(l.path, l.file.first)
    /\ l.meta => ~ l.active /\ l.size = 0 /\ l.prefix = 0
    /\ ~ l.meta => l.size = Length(l.file) /\ l.prefix = l.file.first
    /\ l.meta => cursor = NoCursor \/ \E k \in DOMAIN States : SameArchivedFile(States[k], l.file)
    /\ cursor = NoCursor => (l.meta <=> ~ l.active)

\* The state of a listed file, if it has one, is the only one of it.
MatchTrue(k, l) ==
    /\ k \in DOMAIN States \cup {0}
    /\ k # 0 => Candidate(States[k], l)
    /\ k = 0 => /\ \A j \in DOMAIN States : ~ Candidate(States[j], l)
                /\ \A x \in stored : ~ IsHome(l.file.first, x.record)

\* A file seen at its place is there, not shorter than any state knew it, and only the active
\* one grows.
Placed(e) ==
    /\ e.path \in DOMAIN remoteFiles
    /\ e.file.id = remoteFiles[e.path].id /\ e.file.gz = remoteFiles[e.path].gz
    /\ e.file.first = remoteFiles[e.path].first /\ e.file.first <= e.file.last
    /\ IF e.path = 1 THEN e.file.last <= remoteFiles[e.path].last
       ELSE e.file.last = remoteFiles[e.path].last
    /\ \A k \in DOMAIN States :
          States[k].stamp[2] = e.file.first => States[k].stamp[3] <= e.file.last

Entered(l) ==
    /\ Placed(l)
    /\ l.active <=> l.path = 1
    /\ l.meta <=> MetadataOnly(l)
    /\ l.size = (IF l.meta THEN 0 ELSE Length(l.file))
    /\ l.prefix = (IF l.meta THEN 0 ELSE l.file.first)

\* How far a listing under which no file moves has come: newest first it has seen, oldest
\* first it holds the files.
Unmoved(p) ==
    /\ copy = NoCopy
    /\ p.gone = (1 .. written) \ Present
    /\ p.pc = "list" =>
          /\ p.files = <<>> /\ Len(p.seen) < Len(remoteFiles)
          /\ p.names = {<<i, remoteFiles[i].gz>> : i \in Len(p.seen) + 1 .. Len(remoteFiles)}
    /\ p.pc # "list" => Len(p.seen) + Len(p.files) = Len(remoteFiles)
    /\ p.pc \in {"look", "sized"} => p.seen # <<>>
    /\ p.pc = "match" => p.seen = <<>>
    /\ p.pc = "sized" => p.size = Length(p.seen[1].file) /\ ~ MetadataOnly(p.seen[1])
    /\ \A j \in DOMAIN p.seen : p.seen[j].path = Len(p.files) + j /\ Placed(p.seen[j])
    /\ \A i \in DOMAIN p.files : p.files[i].path = Len(p.files) - i + 1 /\ Entered(p.files[i])
    /\ p.pc # "match" => p.found = <<>>
    /\ p.pc = "match" => Len(p.found) < Len(p.files)
    /\ \A i \in DOMAIN p.found : MatchTrue(p.found[i], p.files[i])

\* The listing and the matching of a pass.
ListingTrue(p) ==
    /\ Len(p.files) > 0 /\ Len(p.found) = Len(p.files)
    /\ \A i \in DOMAIN p.files : ListedTrue(p.files[i]) /\ MatchTrue(p.found[i], p.files[i])
    /\ \A i \in DOMAIN p.files : p.files[i].active <=> i = Len(p.files)
    /\ \A i, j \in DOMAIN p.files : i < j => p.files[i].file.last < p.files[j].file.first
    /\ p.gap <=> Gap(p.found)
    /\ p.gone \subseteq 1 .. written
    /\ \A r \in p.gone : \A i \in DOMAIN p.files : ~ IsHome(p.files[i].file.first, r)
    /\ \A h \in listed : (\E i \in DOMAIN p.files : p.files[i].file.first = h) \/ Vanished(h, p.gone)
    /\ \A i \in DOMAIN remoteFiles :
          \/ \E j \in DOMAIN p.files : p.files[j].file.first = remoteFiles[i].first
          \/ \A x \in stored : x.record < remoteFiles[i].first

\* The states and rows made so far.
MadeTrue(p) ==
    /\ Len(p.states) <= Len(p.files)
    /\ \A i \in DOMAIN p.states :
          /\ StateTrue(p.states[i], PassBase(p), stored \cup p.logs)
          /\ p.states[i].id = p.files[i].file.id
          /\ p.states[i].stamp = FileStamp(p.files[i].file)
          /\ p.states[i].meta = p.files[i].meta
          /\ IF p.found[i] # 0 THEN p.states[i].gen = States[p.found[i]].gen
             ELSE /\ \A k \in DOMAIN States : p.states[i].gen # States[k].gen
                  /\ \A x \in stored : p.states[i].gen # x.gen
    /\ \A i, j \in DOMAIN p.states : i # j => p.states[i].gen # p.states[j].gen
    /\ IsFiniteSet(p.logs)
    /\ \A x \in p.logs :
          /\ \E i \in DOMAIN p.states :
                x.gen = p.states[i].gen /\ IsHome(p.files[i].file.first, x.record)
          /\ x.record <= written
          /\ \A y \in stored : y.record # x.record

Read(p) == p.pc \notin Listing /\ ListingTrue(p) /\ MadeTrue(p)

\* A pass that is of no consequence, or is true of the host.
Trusted(p) == p = NoPass \/ p.moved \/ (p.pc \in Listing /\ Unmoved(p)) \/ Read(p)

Agreed == LogRowsTrue /\ CursorTrue /\ LossTrue /\ Trusted(pass)

RemoteLogInv == HostTrue /\ Sound /\ (blurred = 0 => Agreed)

-----------------------------------------------------------------------------
(* The host.                                                               *)

LEMMA FilesShape ==
  ASSUME HostTrue
  PROVE  /\ Len(remoteFiles) \in Nat \ {0} /\ DOMAIN remoteFiles = 1 .. Len(remoteFiles)
         /\ written \in Nat /\ firsts \subseteq Nat /\ remoteFiles \in Seq(Files)
         /\ 1 \in DOMAIN remoteFiles /\ Len(remoteFiles) <= MaxFiles /\ MaxFiles \in Nat
         /\ \A i \in DOMAIN remoteFiles :
               /\ remoteFiles[i] \in Files
               /\ remoteFiles[i].first \in Nat /\ remoteFiles[i].last \in Nat
               /\ remoteFiles[i].last <= written
<1>1. remoteFiles \in Seq(Files) /\ Len(remoteFiles) \in 1 .. MaxFiles /\ MaxFiles \in Nat
  BY RemoteLogAssumption DEF HostTrue
<1>2. /\ DOMAIN remoteFiles = 1 .. Len(remoteFiles) /\ Len(remoteFiles) \in Nat \ {0}
      /\ \A i \in DOMAIN remoteFiles : remoteFiles[i] \in Files
  BY <1>1
<1>3. written \in Nat /\ firsts \subseteq Nat
  BY RemoteLogAssumption DEF HostTrue
<1>4. \A i \in DOMAIN remoteFiles : remoteFiles[i].first \in Nat /\ remoteFiles[i].last \in Nat
  BY <1>2 DEF Files
<1>5. \A i \in DOMAIN remoteFiles : remoteFiles[i].last <= written
  <2> TAKE i \in DOMAIN remoteFiles
  <2>1. CASE i = 1
    BY <2>1, <1>3 DEF HostTrue
  <2>2. CASE i > 1
    <3>1. 1 \in DOMAIN remoteFiles
      BY <1>2
    <3>2. /\ remoteFiles[i].last < remoteFiles[1].first
          /\ remoteFiles[1].first <= remoteFiles[1].last /\ remoteFiles[1].last = written
      BY <2>2, <1>2, <3>1 DEF HostTrue
    <3> QED
      BY <3>1, <3>2, <1>3, <1>4
  <2> QED
    BY <2>1, <2>2, <1>2
<1> QED
  BY <1>1, <1>2, <1>3, <1>4, <1>5

\* What a step of the host may do to what was seen of it: new files and records
\* are newer than all there were, and an archive keeps its records.
HostGrows ==
    /\ written <= written' /\ firsts \subseteq firsts'
    /\ \A t \in firsts' \ firsts : written < t
    /\ remoteFiles'[1].first <= written + 1
    /\ \A i \in DOMAIN remoteFiles' :
          \/ written < remoteFiles'[i].first
          \/ \E j \in DOMAIN remoteFiles :
                /\ j <= i /\ remoteFiles'[i].first = remoteFiles[j].first
                /\ remoteFiles[j].last <= remoteFiles'[i].last
                /\ i = 1 => remoteFiles'[i].id = remoteFiles[j].id
                /\ j > 1 => remoteFiles'[i].last = remoteFiles[j].last
                /\ i > 1 => remoteFiles'[i].last = remoteFiles[j].last

LEMMA WriteRecordGrows ==
  ASSUME HostTrue, WriteRecord
  PROVE  HostTrue' /\ HostGrows
<1> DEFINE n == Len(remoteFiles)
           f == remoteFiles[1]
           g == [f EXCEPT !.last = @ + 1]
<1>1. /\ n \in Nat \ {0} /\ DOMAIN remoteFiles = 1 .. n /\ written \in Nat /\ firsts \subseteq Nat
      /\ 1 \in DOMAIN remoteFiles /\ f \in Files /\ f.last = written /\ f.first \in firsts
      /\ f.first <= f.last
  BY FilesShape DEF HostTrue
<1>2. written' = written + 1 /\ firsts' = firsts /\ written < MaxRecord /\ MaxRecord \in Nat
  BY RemoteLogAssumption DEF WriteRecord
<1>3. g \in Files /\ g.first = f.first /\ g.last = written + 1 /\ g.id = f.id
  BY <1>1 DEF Files
<1>4. /\ DOMAIN remoteFiles' = 1 .. n /\ remoteFiles'[1] = g
      /\ \A i \in 2 .. n : remoteFiles'[i] = remoteFiles[i]
  BY <1>1 DEF WriteRecord
<1>5. remoteFiles' \in Seq(Files) /\ Len(remoteFiles') = n
  <2>1. remoteFiles' = [remoteFiles EXCEPT ![1] = g]
    BY <1>1 DEF WriteRecord
  <2>2. remoteFiles \in Seq(Files) /\ 1 \in 1 .. Len(remoteFiles)
    BY <1>1 DEF HostTrue
  <2> QED
    BY <2>1, <2>2, <1>3, ExceptSeq
<1>6. HostGrows
  <2>1. \A i \in 2 .. n : remoteFiles'[i] = remoteFiles[i] /\ i \in DOMAIN remoteFiles
    BY <1>1, <1>4
  <2>2. \A i \in 2 .. n :
           /\ remoteFiles'[i].first = remoteFiles[i].first
           /\ remoteFiles'[i].last = remoteFiles[i].last /\ remoteFiles[i].last \in Nat
    BY <2>1, FilesShape
  <2>3. /\ remoteFiles'[1].first = f.first /\ f.last <= remoteFiles'[1].last
        /\ remoteFiles'[1].id = f.id /\ f.first \in Nat /\ f.first <= written + 1
    BY <1>1, <1>3, <1>4, FilesShape
  <2>4. ASSUME NEW i \in 1 .. n
        PROVE  \E j \in DOMAIN remoteFiles :
                  /\ j <= i /\ remoteFiles'[i].first = remoteFiles[j].first
                  /\ remoteFiles[j].last <= remoteFiles'[i].last
                  /\ i = 1 => remoteFiles'[i].id = remoteFiles[j].id
                  /\ j > 1 => remoteFiles'[i].last = remoteFiles[j].last
                  /\ i > 1 => remoteFiles'[i].last = remoteFiles[j].last
    <3>1. CASE i = 1
      BY <3>1, <1>1, <2>3
    <3>2. CASE i \in 2 .. n
      <4> WITNESS i \in DOMAIN remoteFiles
      <4> QED
        BY <3>2, <1>1, <2>2
    <3> QED
      BY <3>1, <3>2, <1>1
  <2> QED
    BY <1>1, <1>2, <1>4, <2>3, <2>4 DEF HostGrows
<1>7. HostTrue'
  <2>1. written' \in 2 .. MaxRecord /\ Len(remoteFiles') \in 1 .. MaxFiles
    BY <1>1, <1>2, <1>5, RemoteLogAssumption DEF HostTrue
  <2>2. firsts' \subseteq 1 .. written' /\ 1 \in firsts'
    BY <1>1, <1>2 DEF HostTrue
  <2>3. ASSUME NEW i \in 1 .. n
        PROVE  /\ remoteFiles'[i].first \in firsts'
               /\ remoteFiles'[i].first <= remoteFiles'[i].last
               /\ \A t \in firsts' : t <= remoteFiles'[i].first \/ remoteFiles'[i].last < t
               /\ i > 1 => remoteFiles'[i].last + 1 \in firsts'
    <3>1. CASE i = 1
      <4>1. \A t \in firsts : t <= f.first
        <5>1. \A t \in firsts : t \in 1 .. written /\ (t <= f.first \/ written < t)
          BY <1>1 DEF HostTrue
        <5> QED
          BY <5>1, <1>1
      <4> QED
        BY <3>1, <4>1, <1>1, <1>2, <1>3, <1>4, FilesShape
    <3>2. CASE i \in 2 .. n
      BY <3>2, <1>1, <1>2, <1>4 DEF HostTrue
    <3> QED
      BY <3>1, <3>2, <1>1
  <2>4. ASSUME NEW i \in 1 .. n, NEW j \in 1 .. n, i < j
        PROVE  remoteFiles'[j].last < remoteFiles'[i].first
    <3>1. remoteFiles[j].last < remoteFiles[i].first
      BY <2>4, <1>1 DEF HostTrue
    <3>2. j \in 2 .. n /\ (i = 1 \/ i \in 2 .. n)
      BY <2>4, <1>1
    <3> QED
      BY <3>1, <3>2, <1>3, <1>4
  <2>5. InodesTrue'
    <3>1. g.gz = f.gz
      BY <1>1 DEF Files
    <3>2. \A i \in 1 .. n : remoteFiles'[i].id = remoteFiles[i].id
      <4> TAKE i \in 1 .. n
      <4>1. i = 1 \/ i \in 2 .. n
        BY <1>1
      <4> QED
        BY <4>1, <1>3, <1>4
    <3>3. copy' = copy
      BY DEF WriteRecord
    <3> QED
      BY <3>1, <3>2, <3>3, <1>1, <1>4, <1>5 DEF HostTrue, InodesTrue
  <2> QED
    BY <2>1, <2>2, <2>3, <2>4, <2>5, <1>2, <1>3, <1>4, <1>5 DEF HostTrue
<1> QED
  BY <1>6, <1>7

LEMMA RotateGrows ==
  ASSUME Headed, HostTrue, Rotate
  PROVE  HostTrue' /\ HostGrows
<1> DEFINE n == Len(remoteFiles)
<1>1. /\ n \in Nat \ {0} /\ DOMAIN remoteFiles = 1 .. n /\ written \in Nat /\ firsts \subseteq Nat
      /\ remoteFiles \in Seq(Files) /\ remoteFiles[1].last = written
  BY FilesShape DEF HostTrue
<1>2. PICK id \in FreeInodes : remoteFiles' = <<File(id, written + 1, written + 1)>> \o remoteFiles
  BY DEF Rotate, Head1
<1>a. /\ id \in Inodes /\ id # copy.id
      /\ \A i \in DOMAIN remoteFiles : remoteFiles[i].id # id
  BY DEF FreeInodes, Range
<1> DEFINE g == File(id, written + 1, written + 1)
<1>3. /\ written' = written + 1 /\ firsts' = firsts \cup {written + 1} /\ written' \in 2 .. MaxRecord
      /\ n + 1 \in 1 .. MaxFiles
  <2>1. written' = written + 1 /\ firsts' = firsts \cup {written + 1} /\ written + 1 <= MaxRecord
    BY DEF Rotate, Head1
  <2>2. n < MaxFiles
    BY DEF Rotate
  <2> QED
    BY <2>1, <2>2, <1>1, RemoteLogAssumption DEF HostTrue
<1>4. g \in Files /\ g.first = written + 1 /\ g.last = written + 1 /\ g.id = id /\ ~ g.gz
  BY <1>1, <1>a DEF File, Files
<1>5. /\ remoteFiles' \in Seq(Files) /\ Len(remoteFiles') = n + 1 /\ DOMAIN remoteFiles' = 1 .. n + 1
      /\ remoteFiles'[1] = g
      /\ \A i \in 2 .. n + 1 : i - 1 \in 1 .. n /\ remoteFiles'[i] = remoteFiles[i - 1]
  <2> HIDE DEF g
  <2>1. <<g>> \in Seq(Files) /\ Len(<<g>>) = 1 /\ <<g>>[1] = g
    BY <1>4
  <2>2. remoteFiles' = <<g>> \o remoteFiles
    BY <1>2 DEF g
  <2>3. /\ remoteFiles' \in Seq(Files) /\ Len(remoteFiles') = 1 + n
        /\ \A i \in 1 .. 1 + n :
              remoteFiles'[i] = IF i <= 1 THEN <<g>>[i] ELSE remoteFiles[i - 1]
    BY <2>1, <2>2, <1>1, ConcatProperties
  <2>4. \A i \in 2 .. n + 1 : i \in 1 .. 1 + n /\ ~ (i <= 1) /\ i - 1 \in 1 .. n
    BY <1>1
  <2>5. 1 \in 1 .. 1 + n /\ 1 <= 1 /\ 1 + n = n + 1
    BY <1>1
  <2>6. DOMAIN remoteFiles' = 1 .. n + 1
    BY <2>3, <2>5, LenProperties
  <2> QED
    BY <2>1, <2>3, <2>4, <2>5, <2>6
<1> HIDE DEF g
<1>6. \A i \in 2 .. n + 1 :
         /\ i - 1 \in DOMAIN remoteFiles
         /\ remoteFiles'[i].first = remoteFiles[i - 1].first
         /\ remoteFiles'[i].last = remoteFiles[i - 1].last
         /\ remoteFiles[i - 1].first \in Nat /\ remoteFiles[i - 1].last \in Nat
         /\ remoteFiles[i - 1].last <= written
  BY <1>1, <1>5, FilesShape
<1>7. \A i \in 1 .. n + 1 : i = 1 \/ i \in 2 .. n + 1
  BY <1>1
<1>8. HostGrows
  <2>1. ASSUME NEW i \in 2 .. n + 1
        PROVE  \E j \in DOMAIN remoteFiles :
                  /\ j <= i /\ remoteFiles'[i].first = remoteFiles[j].first
                  /\ remoteFiles[j].last <= remoteFiles'[i].last
                  /\ i = 1 => remoteFiles'[i].id = remoteFiles[j].id
                  /\ j > 1 => remoteFiles'[i].last = remoteFiles[j].last
                  /\ i > 1 => remoteFiles'[i].last = remoteFiles[j].last
    <3>1. i - 1 \in DOMAIN remoteFiles /\ i - 1 <= i /\ i # 1
      BY <1>1, <1>6
    <3>2. remoteFiles[i - 1].last <= remoteFiles'[i].last
      BY <1>6
    <3> WITNESS i - 1 \in DOMAIN remoteFiles
    <3> QED
      BY <3>1, <3>2, <1>6
  <2>2. written < remoteFiles'[1].first /\ remoteFiles'[1].first <= written + 1
    BY <1>1, <1>4, <1>5
  <2>3. \A i \in DOMAIN remoteFiles' : i = 1 \/ i \in 2 .. n + 1
    BY <1>5, <1>7
  <2>4. /\ written <= written' /\ firsts \subseteq firsts'
        /\ \A t \in firsts' \ firsts : written < t
    BY <1>1, <1>3
  <2> QED
    BY <2>1, <2>2, <2>3, <2>4 DEF HostGrows
<1>9. HostTrue'
  <2>1. firsts' \subseteq 1 .. written' /\ 1 \in firsts'
    BY <1>1, <1>3 DEF HostTrue
  <2>2. \A t \in firsts : t <= written
    <3>1. firsts \subseteq 1 .. written
      BY DEF HostTrue
    <3> QED
      BY <3>1, <1>1
  <2>3. ASSUME NEW i \in 1 .. n + 1
        PROVE  /\ remoteFiles'[i].first \in firsts'
               /\ remoteFiles'[i].first <= remoteFiles'[i].last
               /\ \A t \in firsts' : t <= remoteFiles'[i].first \/ remoteFiles'[i].last < t
               /\ i > 1 => remoteFiles'[i].last + 1 \in firsts'
    <3>1. CASE i = 1
      BY <3>1, <2>2, <1>1, <1>3, <1>4, <1>5
    <3>2. CASE i \in 2 .. n + 1
      <4>1. /\ remoteFiles[i - 1].first \in firsts
            /\ remoteFiles[i - 1].first <= remoteFiles[i - 1].last
            /\ \A t \in firsts : t <= remoteFiles[i - 1].first \/ remoteFiles[i - 1].last < t
            /\ i - 1 > 1 => remoteFiles[i - 1].last + 1 \in firsts
        BY <3>2, <1>6 DEF HostTrue
      <4>2. i - 1 = 1 \/ i - 1 > 1
        BY <3>2, <1>1
      <4>3. remoteFiles[i - 1].last + 1 \in firsts'
        BY <4>1, <4>2, <1>1, <1>3
      <4> QED
        BY <3>2, <4>1, <4>3, <1>1, <1>3, <1>6
    <3> QED
      BY <3>1, <3>2, <1>7
  <2>4. ASSUME NEW i \in 1 .. n + 1, NEW j \in 1 .. n + 1, i < j
        PROVE  remoteFiles'[j].last < remoteFiles'[i].first
    <3>1. j \in 2 .. n + 1
      BY <2>4, <1>1
    <3>2. CASE i = 1
      BY <3>1, <3>2, <1>1, <1>4, <1>5, <1>6
    <3>3. CASE i \in 2 .. n + 1
      <4>1. i - 1 < j - 1
        BY <2>4, <3>3
      <4>2. remoteFiles[j - 1].last < remoteFiles[i - 1].first
        BY <3>1, <3>3, <4>1, <1>6 DEF HostTrue
      <4> QED
        BY <3>1, <3>3, <4>2, <1>6
    <3> QED
      BY <3>2, <3>3, <1>7
  <2>5. InodesTrue'
    <3>1. \A i \in 2 .. n + 1 : i - 1 \in DOMAIN remoteFiles /\ remoteFiles'[i].id = remoteFiles[i - 1].id
      BY <1>1, <1>5
    <3>2. ASSUME NEW i \in 1 .. n + 1, NEW j \in 1 .. n + 1, i # j
          PROVE  remoteFiles'[i].id # remoteFiles'[j].id
      <4>1. CASE i \in 2 .. n + 1 /\ j \in 2 .. n + 1
        <5>1. i - 1 # j - 1
          BY <3>2, <4>1
        <5> QED
          BY <5>1, <4>1, <3>1 DEF HostTrue, InodesTrue
      <4>2. CASE i = 1 \/ j = 1
        BY <4>2, <3>1, <3>2, <1>7, <1>4, <1>5, <1>a
      <4> QED
        BY <4>1, <4>2, <1>7
    <3>3. ASSUME copy' # NoCopy
          PROVE  /\ copy' \in [of : Nat, id : Inodes] /\ copy'.of > 1 /\ copy'.of <= n + 1
                 /\ \A i \in 1 .. n + 1 : remoteFiles'[i].id # copy'.id
      <4>1. copy # NoCopy /\ copy' = [copy EXCEPT !.of = @ + 1]
        BY <3>3 DEF Rotate
      <4>2. /\ copy \in [of : Nat, id : Inodes] /\ copy.of > 1 /\ copy.of <= n
            /\ \A i \in DOMAIN remoteFiles : remoteFiles[i].id # copy.id
        BY <4>1 DEF HostTrue, InodesTrue
      <4>3. /\ copy' \in [of : Nat, id : Inodes] /\ copy'.of = copy.of + 1 /\ copy'.id = copy.id
        BY <4>1, <4>2
      <4>4. copy'.of > 1 /\ copy'.of <= n + 1
        BY <4>2, <4>3, <1>1
      <4>5. \A i \in 1 .. n + 1 : remoteFiles'[i].id # copy'.id
        BY <4>1, <4>2, <4>3, <3>1, <1>4, <1>5, <1>7, <1>a
      <4> QED
        BY <4>3, <4>4, <4>5
    <3> QED
      BY <3>2, <3>3, <1>4, <1>5 DEF InodesTrue
  <2> QED
    BY <1>3, <1>4, <1>5, <2>1, <2>3, <2>4, <2>5 DEF HostTrue
<1> QED
  BY <1>8, <1>9

LEMMA StartCompressGrows ==
  ASSUME HostTrue, NEW k \in DOMAIN remoteFiles, StartCompress(k)
  PROVE  HostTrue' /\ HostGrows
<1>1. /\ remoteFiles' = remoteFiles /\ written' = written /\ firsts' = firsts
      /\ k > 1 /\ copy = NoCopy
  BY DEF StartCompress
<1>2. PICK id \in FreeInodes : copy' = [of |-> k, id |-> id]
  BY DEF StartCompress
<1>3. /\ id \in Inodes /\ \A i \in DOMAIN remoteFiles : remoteFiles[i].id # id
      /\ k \in Nat /\ k <= Len(remoteFiles) /\ written \in Nat
  BY FilesShape DEF FreeInodes, Range
<1>4. InodesTrue'
  BY <1>1, <1>2, <1>3 DEF HostTrue, InodesTrue
<1>5. HostTrue'
  BY <1>1, <1>4 DEF HostTrue
<1>6. HostGrows
  <2>1. ASSUME NEW i \in DOMAIN remoteFiles
        PROVE  \E j \in DOMAIN remoteFiles :
                  /\ j <= i /\ remoteFiles'[i].first = remoteFiles[j].first
                  /\ remoteFiles[j].last <= remoteFiles'[i].last
                  /\ i = 1 => remoteFiles'[i].id = remoteFiles[j].id
                  /\ j > 1 => remoteFiles'[i].last = remoteFiles[j].last
                  /\ i > 1 => remoteFiles'[i].last = remoteFiles[j].last
    <3>1. i <= i /\ remoteFiles[i].last <= remoteFiles[i].last
      BY FilesShape
    <3> WITNESS i \in DOMAIN remoteFiles
    <3> QED
      BY <3>1, <1>1
  <2>2. remoteFiles[1].first <= written + 1
    <3>1. /\ remoteFiles[1].first <= remoteFiles[1].last /\ remoteFiles[1].last = written
          /\ remoteFiles[1].first \in Nat
      BY FilesShape DEF HostTrue
    <3> QED
      BY <3>1, <1>3
  <2> QED
    BY <2>1, <2>2, <1>1, <1>3 DEF HostGrows
<1> QED
  BY <1>5, <1>6

LEMMA FinishCompressGrows ==
  ASSUME HostTrue, FinishCompress
  PROVE  HostTrue' /\ HostGrows
<1> DEFINE n == Len(remoteFiles)
<1>0. PICK k, id : k = copy.of /\ id = copy.id
  OBVIOUS
<1>a. /\ k \in DOMAIN remoteFiles /\ id \in Inodes
      /\ k > 1 /\ \A i \in DOMAIN remoteFiles : remoteFiles[i].id # id
  BY <1>0, FilesShape DEF FinishCompress, HostTrue, InodesTrue
<1>1. /\ n \in Nat \ {0} /\ DOMAIN remoteFiles = 1 .. n /\ written \in Nat /\ firsts \subseteq Nat
      /\ remoteFiles \in Seq(Files) /\ 1 \in 1 .. n
      /\ \A i \in 1 .. n : /\ remoteFiles[i] \in Files
                           /\ remoteFiles[i].first \in Nat /\ remoteFiles[i].last \in Nat
  BY FilesShape
<1>2. remoteFiles' = [remoteFiles EXCEPT ![k].id = id, ![k].gz = TRUE]
  BY <1>0 DEF FinishCompress
<1>3. written' = written /\ firsts' = firsts /\ k > 1 /\ copy' = NoCopy
  BY <1>a DEF FinishCompress
<1>4. PICK g : g = [[remoteFiles[k] EXCEPT !.id = id] EXCEPT !.gz = TRUE]
  OBVIOUS
<1>5. g \in Files /\ g.first = remoteFiles[k].first /\ g.last = remoteFiles[k].last /\ g.id = id
  BY <1>1, <1>4, <1>a DEF Files
<1>6. remoteFiles' = [remoteFiles EXCEPT ![k] = g]
  BY <1>1, <1>2, <1>4
<1>7. remoteFiles' \in Seq(Files) /\ Len(remoteFiles') = n /\ DOMAIN remoteFiles' = 1 .. n
  BY <1>1, <1>5, <1>6, <1>a, ExceptSeq
<1>8. \A i \in 1 .. n : /\ remoteFiles'[i].first = remoteFiles[i].first
                        /\ remoteFiles'[i].last = remoteFiles[i].last
                        /\ i = 1 => remoteFiles'[i].id = remoteFiles[i].id
  <2> TAKE i \in 1 .. n
  <2>1. CASE i = k
    BY <2>1, <1>1, <1>3, <1>5, <1>6
  <2>2. CASE i # k
    BY <2>2, <1>1, <1>6
  <2> QED
    BY <2>1, <2>2
<1>9. HostGrows
  <2>1. ASSUME NEW i \in 1 .. n
        PROVE  \E j \in DOMAIN remoteFiles :
                  /\ j <= i /\ remoteFiles'[i].first = remoteFiles[j].first
                  /\ remoteFiles[j].last <= remoteFiles'[i].last
                  /\ i = 1 => remoteFiles'[i].id = remoteFiles[j].id
                  /\ j > 1 => remoteFiles'[i].last = remoteFiles[j].last
                  /\ i > 1 => remoteFiles'[i].last = remoteFiles[j].last
    <3> i \in DOMAIN remoteFiles
      BY <1>1
    <3> WITNESS i \in DOMAIN remoteFiles
    <3> QED
      BY <1>1, <1>8
  <2>2. remoteFiles'[1].first <= written + 1
    <3>1. remoteFiles[1].first <= remoteFiles[1].last /\ remoteFiles[1].last = written
      BY <1>1 DEF HostTrue
    <3> QED
      BY <3>1, <1>1, <1>8
  <2> QED
    BY <2>1, <2>2, <1>1, <1>3, <1>7 DEF HostGrows
<1>b. InodesTrue'
  <2>1. \A i \in 1 .. n : remoteFiles'[i].id = IF i = k THEN id ELSE remoteFiles[i].id
    BY <1>1, <1>5, <1>6, <1>a
  <2>2. ~ remoteFiles'[1].gz
    BY <1>1, <1>6, <1>a DEF HostTrue, InodesTrue
  <2> QED
    BY <2>1, <2>2, <1>1, <1>3, <1>7, <1>a DEF HostTrue, InodesTrue
<1>10. HostTrue'
  BY <1>1, <1>3, <1>7, <1>8, <1>b DEF HostTrue
<1> QED
  BY <1>9, <1>10

LEMMA DeleteOldestGrows ==
  ASSUME HostTrue, DeleteOldest
  PROVE  HostTrue' /\ HostGrows
<1> DEFINE n == Len(remoteFiles)
<1>1. /\ n \in Nat \ {0} /\ DOMAIN remoteFiles = 1 .. n /\ written \in Nat /\ firsts \subseteq Nat
      /\ remoteFiles \in Seq(Files) /\ n <= MaxFiles /\ MaxFiles \in Nat
      /\ \A i \in 1 .. n : /\ remoteFiles[i] \in Files
                           /\ remoteFiles[i].first \in Nat /\ remoteFiles[i].last \in Nat
  BY FilesShape
<1>2. /\ written' = written /\ firsts' = firsts /\ n > 1
      /\ remoteFiles' = SubSeq(remoteFiles, 1, n - 1)
  BY DEF DeleteOldest, Front
<1>3. /\ remoteFiles' \in Seq(Files) /\ Len(remoteFiles') = n - 1
      /\ \A i \in 1 .. n - 1 : remoteFiles'[i] = remoteFiles[i]
  <2>1. 1 \in Int /\ n - 1 \in Int /\ \A i \in 1 .. n - 1 : remoteFiles[i] \in Files
    BY <1>1
  <2>2. /\ SubSeq(remoteFiles, 1, n - 1) \in Seq(Files)
        /\ Len(SubSeq(remoteFiles, 1, n - 1)) = IF 1 <= n - 1 THEN n - 1 - 1 + 1 ELSE 0
        /\ \A i \in 1 .. n - 1 - 1 + 1 :
              SubSeq(remoteFiles, 1, n - 1)[i] = remoteFiles[1 + i - 1]
    BY <2>1, SubSeqProperties
  <2>3. \A i \in 1 .. n - 1 : i \in 1 .. n - 1 - 1 + 1 /\ 1 + i - 1 = i
    BY <1>1
  <2>4. 1 <= n - 1 /\ n - 1 - 1 + 1 = n - 1
    BY <1>1, <1>2
  <2> QED
    BY <2>2, <2>3, <2>4, <1>2
<1>4. DOMAIN remoteFiles' = 1 .. n - 1 /\ 1 \in 1 .. n - 1 /\ n - 1 \in 1 .. MaxFiles
      /\ \A i \in 1 .. n - 1 : i \in 1 .. n
  BY <1>1, <1>2, <1>3, LenProperties
<1>5. HostGrows
  <2>1. ASSUME NEW i \in 1 .. n - 1
        PROVE  \E j \in DOMAIN remoteFiles :
                  /\ j <= i /\ remoteFiles'[i].first = remoteFiles[j].first
                  /\ remoteFiles[j].last <= remoteFiles'[i].last
                  /\ i = 1 => remoteFiles'[i].id = remoteFiles[j].id
                  /\ j > 1 => remoteFiles'[i].last = remoteFiles[j].last
                  /\ i > 1 => remoteFiles'[i].last = remoteFiles[j].last
    <3>1. i \in DOMAIN remoteFiles /\ remoteFiles'[i] = remoteFiles[i] /\ i <= i
          /\ remoteFiles[i].last \in Nat
      BY <1>1, <1>3, <1>4
    <3> WITNESS i \in DOMAIN remoteFiles
    <3> QED
      BY <3>1
  <2>2. remoteFiles'[1].first <= written + 1
    <3>1. remoteFiles[1].first <= remoteFiles[1].last /\ remoteFiles[1].last = written
      BY <1>1, <1>4 DEF HostTrue
    <3> QED
      BY <3>1, <1>1, <1>3, <1>4
  <2>3. /\ written <= written' /\ firsts \subseteq firsts'
        /\ \A t \in firsts' \ firsts : written < t
    BY <1>1, <1>2
  <2> QED
    BY <2>1, <2>2, <2>3, <1>4 DEF HostGrows
<1>a. InodesTrue'
  <2>1. copy' = copy /\ copy.of # n
    BY DEF DeleteOldest
  <2>2. copy # NoCopy => copy.of \in Nat /\ copy.of <= n
    BY DEF HostTrue, InodesTrue
  <2>3. copy # NoCopy => copy.of <= n - 1
    BY <2>1, <2>2, <1>1
  <2> QED
    BY <2>1, <2>3, <1>1, <1>3, <1>4 DEF HostTrue, InodesTrue
<1>6. HostTrue'
  BY <1>1, <1>2, <1>3, <1>4, <1>a DEF HostTrue
<1> QED
  BY <1>5, <1>6

LEMMA TruncateGrows ==
  ASSUME Headed, HostTrue, Truncate
  PROVE  HostTrue' /\ HostGrows
<1> DEFINE n == Len(remoteFiles)
<1>1. /\ n \in Nat \ {0} /\ DOMAIN remoteFiles = 1 .. n /\ written \in Nat /\ firsts \subseteq Nat
      /\ remoteFiles \in Seq(Files) /\ 1 \in 1 .. n
      /\ \A i \in 1 .. n : /\ remoteFiles[i] \in Files
                           /\ remoteFiles[i].first \in Nat /\ remoteFiles[i].last \in Nat
                           /\ remoteFiles[i].last <= written
  BY FilesShape
<1>2. /\ written' = written + 1 /\ firsts' = firsts \cup {written + 1}
      /\ written + 1 <= MaxRecord /\ MaxRecord \in Nat
      /\ remoteFiles' = [remoteFiles EXCEPT ![1].first = written + 1, ![1].last = written + 1]
  BY RemoteLogAssumption DEF Truncate, Head1
<1>a. PICK w \in Nat : w = written + 1
  BY <1>1
<1>3. PICK g : g = [[remoteFiles[1] EXCEPT !.first = w] EXCEPT !.last = w]
  OBVIOUS
<1>4. /\ g \in Files /\ g.first = written + 1 /\ g.last = written + 1
      /\ g.id = remoteFiles[1].id /\ g.gz = remoteFiles[1].gz
  <2>1. g \in Files /\ g.first = w /\ g.last = w /\ g.id = remoteFiles[1].id /\ g.gz = remoteFiles[1].gz
    BY <1>1, <1>3 DEF Files
  <2> QED
    BY <2>1, <1>a
<1>5. remoteFiles' = [remoteFiles EXCEPT ![1] = g]
  BY <1>1, <1>2, <1>3, <1>a
<1>6. remoteFiles' \in Seq(Files) /\ Len(remoteFiles') = n /\ DOMAIN remoteFiles' = 1 .. n
  BY <1>1, <1>4, <1>5, ExceptSeq
<1>7. /\ remoteFiles'[1].first = written + 1 /\ remoteFiles'[1].last = written + 1
      /\ \A i \in 2 .. n : remoteFiles'[i] = remoteFiles[i] /\ i \in 1 .. n
      /\ \A i \in 1 .. n : i = 1 \/ i \in 2 .. n
  BY <1>1, <1>4, <1>5
<1>8. firsts \subseteq 1 .. written /\ 1 \in firsts /\ written \in 2 .. MaxRecord
  BY DEF HostTrue
<1>9. HostGrows
  <2>1. ASSUME NEW i \in 2 .. n
        PROVE  \E j \in DOMAIN remoteFiles :
                  /\ j <= i /\ remoteFiles'[i].first = remoteFiles[j].first
                  /\ remoteFiles[j].last <= remoteFiles'[i].last
                  /\ i = 1 => remoteFiles'[i].id = remoteFiles[j].id
                  /\ j > 1 => remoteFiles'[i].last = remoteFiles[j].last
                  /\ i > 1 => remoteFiles'[i].last = remoteFiles[j].last
    <3>1. i \in DOMAIN remoteFiles /\ remoteFiles'[i] = remoteFiles[i] /\ i <= i
          /\ remoteFiles[i].last \in Nat
      BY <1>1, <1>7
    <3> WITNESS i \in DOMAIN remoteFiles
    <3> QED
      BY <3>1
  <2>2. /\ written <= written' /\ firsts \subseteq firsts'
        /\ \A t \in firsts' \ firsts : written < t
        /\ written < remoteFiles'[1].first /\ remoteFiles'[1].first <= written + 1
    BY <1>1, <1>2, <1>7
  <2>3. \A i \in DOMAIN remoteFiles' : i = 1 \/ i \in 2 .. n
    BY <1>6, <1>7
  <2> QED
    BY <2>1, <2>2, <2>3 DEF HostGrows
<1>10. HostTrue'
  <2>1. firsts' \subseteq 1 .. written' /\ 1 \in firsts' /\ written' \in 2 .. MaxRecord
    BY <1>1, <1>2, <1>8
  <2>2. \A t \in firsts : t <= written
    BY <1>1, <1>8
  <2>3. ASSUME NEW i \in 1 .. n
        PROVE  /\ remoteFiles'[i].first \in firsts'
               /\ remoteFiles'[i].first <= remoteFiles'[i].last
               /\ \A t \in firsts' : t <= remoteFiles'[i].first \/ remoteFiles'[i].last < t
               /\ i > 1 => remoteFiles'[i].last + 1 \in firsts'
    <3>1. CASE i = 1
      BY <3>1, <2>2, <1>1, <1>2, <1>7
    <3>2. CASE i \in 2 .. n
      <4>1. /\ remoteFiles[i].first \in firsts
            /\ remoteFiles[i].first <= remoteFiles[i].last
            /\ \A t \in firsts : t <= remoteFiles[i].first \/ remoteFiles[i].last < t
            /\ i > 1 => remoteFiles[i].last + 1 \in firsts
        BY <3>2, <1>1, <1>7 DEF HostTrue
      <4> QED
        BY <3>2, <4>1, <1>1, <1>2, <1>7
    <3> QED
      BY <3>1, <3>2, <1>7
  <2>4. ASSUME NEW i \in 1 .. n, NEW j \in 1 .. n, i < j
        PROVE  remoteFiles'[j].last < remoteFiles'[i].first
    <3>1. remoteFiles[j].last < remoteFiles[i].first
      BY <2>4, <1>1 DEF HostTrue
    <3>2. j \in 2 .. n /\ (i = 1 \/ i \in 2 .. n)
      BY <2>4, <1>1
    <3> QED
      BY <3>1, <3>2, <1>1, <1>7
  <2>5. Len(remoteFiles') \in 1 .. MaxFiles /\ remoteFiles'[1].last = written'
    BY <1>2, <1>6, <1>7 DEF HostTrue
  <2>6. InodesTrue'
    <3>1. \A i \in 1 .. n : remoteFiles'[i].id = remoteFiles[i].id
      <4> TAKE i \in 1 .. n
      <4>1. CASE i = 1
        BY <4>1, <1>1, <1>4, <1>5
      <4>2. CASE i \in 2 .. n
        BY <4>2, <1>7
      <4> QED
        BY <4>1, <4>2, <1>7
    <3>2. remoteFiles'[1].gz = remoteFiles[1].gz
      BY <1>1, <1>4, <1>5
    <3>3. copy' = copy
      BY DEF Truncate
    <3> QED
      BY <3>1, <3>2, <3>3, <1>1, <1>6 DEF HostTrue, InodesTrue
  <2> QED
    BY <1>6, <2>1, <2>3, <2>4, <2>5, <2>6 DEF HostTrue
<1> QED
  BY <1>9, <1>10

HostStep ==
    \/ WriteRecord \/ Rotate \/ FinishCompress \/ DeleteOldest \/ Truncate
    \/ \E i \in DOMAIN remoteFiles : StartCompress(i)

LEMMA HostStepGrows ==
  ASSUME Headed, HostTrue, HostStep
  PROVE  /\ HostTrue' /\ HostGrows /\ UNCHANGED savedVars
         /\ (WriteRecord /\ pass' = pass) \/ MovesFiles
<1>1. HostTrue' /\ HostGrows
  BY WriteRecordGrows, RotateGrows, DeleteOldestGrows, TruncateGrows, StartCompressGrows,
     FinishCompressGrows DEF HostStep
<1>2. UNCHANGED savedVars /\ ((WriteRecord /\ pass' = pass) \/ MovesFiles)
  BY DEF HostStep, WriteRecord, Rotate, DeleteOldest, Truncate, StartCompress, FinishCompress
<1> QED
  BY <1>1, <1>2

-----------------------------------------------------------------------------
(* What stays true whatever the host does.                                 *)

LEMMA ShapeStays ==
  ASSUME HostTrue'
  PROVE  /\ written' \in Nat /\ firsts' \subseteq Nat
         /\ 1 \in DOMAIN remoteFiles' /\ DOMAIN remoteFiles' \subseteq Nat \ {0}
<1>1. /\ written' \in 2 .. MaxRecord /\ MaxRecord \in Nat /\ firsts' \subseteq 1 .. written'
      /\ remoteFiles' \in Seq(Files) /\ Len(remoteFiles') \in 1 .. MaxFiles /\ MaxFiles \in Nat
  BY RemoteLogAssumption DEF HostTrue
<1>2. written' \in Nat /\ firsts' \subseteq Nat
  BY <1>1
<1>3. DOMAIN remoteFiles' = 1 .. Len(remoteFiles') /\ Len(remoteFiles') \in Nat \ {0}
  BY <1>1
<1> QED
  BY <1>2, <1>3

LEMMA HomeStays ==
  ASSUME HostTrue, HostTrue', HostGrows, NEW h, NEW r \in Nat, r <= written
  PROVE  IsHome(h, r)' <=> IsHome(h, r)
<1>1. written \in Nat /\ firsts \subseteq Nat
  BY FilesShape
<1>2. written' \in Nat /\ firsts' \subseteq Nat /\ firsts \subseteq firsts'
      /\ \A t \in firsts' \ firsts : written < t
  BY ShapeStays DEF HostGrows
<1>3. \A t \in firsts' \ firsts : r < t
  BY <1>1, <1>2
<1>4. h \in firsts' /\ h <= r => h \in firsts
  BY <1>2, <1>3
<1> QED
  BY <1>2, <1>3, <1>4 DEF IsHome

LEMMA SeenStays ==
  ASSUME HostTrue, HostTrue', HostGrows, NEW id, NEW first, NEW last, NEW archived,
         last \in Nat, Seen(id, first, last, archived)
  PROVE  Seen(id, first, last, archived)'
<1>1. written \in Nat /\ firsts \subseteq 1 .. written /\ first \in firsts /\ first <= last
      /\ last <= written /\ first \in Nat /\ first <= written
  <2>1. written \in Nat /\ firsts \subseteq 1 .. written
    BY FilesShape DEF HostTrue
  <2> QED
    BY <2>1 DEF Seen
<1>2. /\ written' \in Nat /\ firsts' \subseteq Nat /\ firsts \subseteq firsts'
      /\ written <= written' /\ \A t \in firsts' \ firsts : written < t
  <2>1. written' \in Nat /\ firsts' \subseteq Nat
    <3>1. written' \in 2 .. MaxRecord /\ firsts' \subseteq 1 .. written' /\ MaxRecord \in Nat
      BY RemoteLogAssumption DEF HostTrue
    <3> QED
      BY <3>1
  <2> QED
    BY <2>1 DEF HostGrows
<1>3. /\ first \in firsts' /\ last <= written'
      /\ \A t \in firsts' : t <= first \/ last < t
      /\ archived => last + 1 \in firsts'
  BY <1>1, <1>2 DEF Seen
<1>4. ASSUME NEW i \in DOMAIN remoteFiles', remoteFiles'[i].first = first
      PROVE  /\ last <= remoteFiles'[i].last
             /\ archived => i > 1 /\ last = remoteFiles'[i].last
             /\ i = 1 => id = remoteFiles'[i].id
  <2>1. ~ (written < remoteFiles'[i].first)
    BY <1>1, <1>4
  <2>2. PICK j \in DOMAIN remoteFiles :
           /\ j <= i /\ remoteFiles'[i].first = remoteFiles[j].first
           /\ remoteFiles[j].last <= remoteFiles'[i].last
           /\ i = 1 => remoteFiles'[i].id = remoteFiles[j].id
           /\ j > 1 => remoteFiles'[i].last = remoteFiles[j].last
           /\ i > 1 => remoteFiles'[i].last = remoteFiles[j].last
    BY <2>1 DEF HostGrows
  <2>3. /\ last <= remoteFiles[j].last
        /\ archived => j > 1 /\ last = remoteFiles[j].last
        /\ j = 1 => id = remoteFiles[j].id
    BY <2>2, <1>4 DEF Seen
  <2>4. /\ i \in Nat \ {0} /\ j \in Nat \ {0} /\ remoteFiles[j].last \in Nat
        /\ remoteFiles'[i].last \in Nat
    <3>1. j \in Nat \ {0} /\ remoteFiles[j].last \in Nat
      BY FilesShape
    <3>2. i \in Nat \ {0} /\ remoteFiles'[i] \in Files
      BY DEF HostTrue
    <3> QED
      BY <3>1, <3>2 DEF Files
  <2> QED
    BY <2>2, <2>3, <2>4
<1> QED
  BY <1>1, <1>3, <1>4 DEF Seen

LEMMA NewerStays ==
  ASSUME HostTrue, HostTrue', HostGrows, NEW path, NEW first \in Nat, path \in Nat,
         Newer(path, first)
  PROVE  Newer(path, first)'
<1>1. written \in Nat /\ first <= written
  BY FilesShape DEF Newer
<1>2. written' \in Nat /\ written <= written'
  BY RemoteLogAssumption DEF HostTrue, HostGrows
<1>3. ASSUME NEW i \in DOMAIN remoteFiles', i <= path
      PROVE  first <= remoteFiles'[i].first
  <2>1. i \in Nat /\ remoteFiles'[i].first \in Nat
    <3>1. i \in Nat /\ remoteFiles'[i] \in Files
      BY DEF HostTrue
    <3> QED
      BY <3>1 DEF Files
  <2>2. CASE written < remoteFiles'[i].first
    BY <2>1, <2>2, <1>1
  <2>3. ASSUME NEW j \in DOMAIN remoteFiles, j <= i,
               remoteFiles'[i].first = remoteFiles[j].first
        PROVE  first <= remoteFiles'[i].first
    <3>1. j \in Nat
      BY FilesShape
    <3>2. j <= path
      BY <3>1, <2>1, <2>3, <1>3
    <3> QED
      BY <3>2, <2>3 DEF Newer
  <2> QED
    BY <2>2, <2>3 DEF HostGrows
<1> QED
  BY <1>1, <1>2, <1>3 DEF Newer

\* A record of a file still there is in it.
LEMMA HomeIsThere ==
  ASSUME HostTrue, NEW i \in DOMAIN remoteFiles, NEW r \in Nat, r <= written
  PROVE  IsHome(remoteFiles[i].first, r) <=>
            remoteFiles[i].first <= r /\ r <= remoteFiles[i].last
<1> PICK f : f = remoteFiles[i]
  OBVIOUS
<1>1. /\ f.first \in Nat /\ f.last \in Nat /\ f.first \in firsts /\ f.first <= f.last
      /\ \A t \in firsts : t <= f.first \/ f.last < t
      /\ i > 1 => f.last + 1 \in firsts
      /\ i = 1 => f.last = written
      /\ i \in Nat \ {0} /\ firsts \subseteq Nat /\ written \in Nat
  BY FilesShape DEF HostTrue
<1>2. ASSUME IsHome(f.first, r)
      PROVE  f.first <= r /\ r <= f.last
  <2>1. f.first <= r /\ \A t \in firsts : t <= f.first \/ r < t
    BY <1>2 DEF IsHome
  <2>2. CASE i = 1
    BY <2>1, <2>2, <1>1
  <2>3. CASE i > 1
    <3>1. f.last + 1 \in firsts /\ ~ (f.last + 1 <= f.first)
      BY <2>3, <1>1
    <3>2. r < f.last + 1
      BY <2>1, <3>1
    <3> QED
      BY <2>1, <3>2, <1>1
  <2> QED
    BY <2>2, <2>3, <1>1
<1>3. ASSUME f.first <= r, r <= f.last
      PROVE  IsHome(f.first, r)
  BY <1>1, <1>3 DEF IsHome
<1> QED
  BY <1>2, <1>3

LEMMA HomeUnique ==
  ASSUME firsts \subseteq Nat, NEW g, NEW h, NEW r \in Nat, IsHome(g, r), IsHome(h, r)
  PROVE  g = h
<1>1. g \in Nat /\ h \in Nat /\ g <= r /\ h <= r /\ (g <= h \/ r < g) /\ (h <= g \/ r < h)
  BY DEF IsHome
<1> QED
  BY <1>1

LEMMA VanishedStays ==
  ASSUME HostTrue, HostTrue', HostGrows, NEW h, NEW lost, Vanished(h, lost)
  PROVE  Vanished(h, lost)'
<1>1. /\ written \in Nat /\ firsts \subseteq 1 .. written /\ h \in firsts /\ h \in Nat
      /\ h <= written
  BY FilesShape DEF HostTrue, Vanished
<1>2. /\ h \in firsts' /\ firsts' \subseteq Nat /\ written' \in Nat
      /\ remoteFiles'[1].first <= written + 1 /\ remoteFiles'[1].last = written'
      /\ 1 \in DOMAIN remoteFiles' /\ remoteFiles'[1].first \in firsts'
  BY <1>1, RemoteLogAssumption DEF HostGrows, HostTrue
<1>3. \A i \in DOMAIN remoteFiles' : remoteFiles'[i].first # h
  <2>1. \A i \in DOMAIN remoteFiles' :
           written < remoteFiles'[i].first
           \/ \E j \in DOMAIN remoteFiles : remoteFiles'[i].first = remoteFiles[j].first
    BY DEF HostGrows
  <2> QED
    BY <2>1, <1>1 DEF Vanished
<1>4. ASSUME NEW r \in 1 .. written', IsHome(h, r)'
      PROVE  r \in lost
  <2>1. CASE r <= written
    <3>1. IsHome(h, r)
      BY <2>1, <1>1, <1>4, HomeStays
    <3> QED
      BY <2>1, <3>1, <1>1 DEF Vanished
  <2>2. CASE r > written
    <3>1. IsHome(remoteFiles[1].first, r)'
      <4>1. r \in Nat /\ r <= written' /\ remoteFiles'[1].first <= r
        <5>1. remoteFiles'[1].first \in Nat
          BY <1>2
        <5>2. r \in Nat /\ r <= written'
          BY <1>2
        <5>3. written + 1 <= r
          BY <2>2, <5>2, <1>1
        <5> QED
          BY <5>1, <5>2, <5>3, <1>1, <1>2
      <4>2. \A t \in firsts' : t <= remoteFiles'[1].first \/ remoteFiles'[1].last < t
        BY <1>2 DEF HostTrue
      <4>3. \A t \in firsts' : t <= remoteFiles'[1].first \/ r < t
        BY <4>1, <4>2, <1>2
      <4> QED
        BY <4>1, <4>3, <1>2 DEF IsHome
    <3>2. remoteFiles'[1].first = h
      <4>1. r \in Nat /\ remoteFiles'[1].first \in Nat
        BY <1>2
      <4>2. /\ remoteFiles'[1].first <= r /\ h <= r
            /\ h <= remoteFiles'[1].first \/ r < h
            /\ remoteFiles'[1].first <= h \/ r < remoteFiles'[1].first
        BY <3>1, <1>2, <1>4 DEF IsHome
      <4> QED
        BY <4>1, <4>2, <1>1
    <3> QED
      BY <3>2, <1>2, <1>3
  <2> QED
    BY <2>1, <2>2, <1>1
<1> QED
  BY <1>2, <1>3, <1>4 DEF Vanished

LEMMA StateStays ==
  ASSUME HostTrue, HostTrue', HostGrows, NEW s, NEW base, NEW kept, StateTrue(s, base, kept),
         \A x \in kept : x.record \in Nat /\ x.record <= written
  PROVE  StateTrue(s, base, kept)'
<1>1. s.stamp[3] \in Nat
  BY DEF StateTrue, FileStates
<1>2. Seen(s.id, s.stamp[2], s.stamp[3], s.done)'
  BY <1>1, SeenStays DEF StateTrue
<1>3. \A x \in kept : IsHome(s.stamp[2], x.record)' <=> IsHome(s.stamp[2], x.record)
  BY HomeStays
<1> QED
  BY <1>2, <1>3 DEF StateTrue

LEMMA RowsBounded ==
  ASSUME LogRowsTrue, HostTrue
  PROVE  \A x \in stored : x.record \in Nat /\ x.record <= written
<1>1. \A x \in LogRecord : x.record \in Nat
  BY RemoteLogAssumption DEF LogRecord
<1> QED
  BY <1>1 DEF LogRowsTrue

LEMMA CursorStays ==
  ASSUME HostTrue, HostTrue', HostGrows, UNCHANGED savedVars, LogRowsTrue, CursorTrue, LossTrue
  PROVE  (LogRowsTrue /\ CursorTrue /\ LossTrue)'
<1>1. /\ cursor' = cursor /\ stored' = stored /\ baseline' = baseline
      /\ listed' = listed /\ gone' = gone /\ told' = told /\ States' = States
  BY DEF savedVars, States
<1>2. \A x \in stored : x.record \in Nat /\ x.record <= written
  BY RowsBounded
<1>3. written \in Nat /\ written' \in Nat /\ written <= written'
  BY FilesShape, ShapeStays DEF HostGrows
<1>4. LogRowsTrue'
  BY <1>1, <1>2, <1>3 DEF LogRowsTrue, NoRecordTwice
<1>5. CursorTrue'
  <2>1. \A k \in DOMAIN States : StateTrue(States[k], baseline, stored)'
    <3> TAKE k \in DOMAIN States
    <3>1. PICK s, base, kept : s = States[k] /\ base = baseline /\ kept = stored
      OBVIOUS
    <3>2. StateTrue(s, base, kept)
      BY <3>1 DEF CursorTrue
    <3>3. StateTrue(s, base, kept)'
      BY <3>1, <3>2, <1>2, StateStays
    <3> QED
      BY <3>1, <3>3, <1>1
  <2>2. ASSUME NEW x \in stored, NEW i \in DOMAIN remoteFiles',
               IsHome(remoteFiles[i].first, x.record)'
        PROVE  \E k \in DOMAIN States : States[k].prefix = remoteFiles'[i].first
    <3>1. PICK h, r : h = remoteFiles'[i].first /\ r = x.record
      OBVIOUS
    <3>2. IsHome(h, r)' /\ r \in Nat /\ r <= written
      BY <3>1, <2>2, <1>2 DEF IsHome
    <3>3. IsHome(h, r)
      BY <3>2, HomeStays
    <3>4. h \in Nat /\ h <= written
      BY <3>2, <3>3, <1>3, FilesShape DEF IsHome
    <3>5. PICK j \in DOMAIN remoteFiles : h = remoteFiles[j].first
      BY <3>1, <3>4, <1>3 DEF HostGrows
    <3> QED
      BY <3>1, <3>3, <3>5 DEF CursorTrue
  <2> QED
    BY <1>1, <2>1, <2>2 DEF CursorTrue
<1>6. LossTrue'
  <2>1. gone \subseteq 1 .. written' /\ gone \subseteq Nat /\ \A r \in gone : r <= written
    BY <1>3 DEF LossTrue
  <2>2. ASSUME NEW h \in listed
        PROVE  (\E k \in DOMAIN States : States[k].stamp[2] = h) \/ Vanished(h, gone)'
    <3>1. PICK lost : lost = gone
      OBVIOUS
    <3>2. Vanished(h, lost) => Vanished(h, lost)'
      BY VanishedStays
    <3> QED
      BY <3>1, <3>2, <1>1, <2>2 DEF LossTrue
  <2>3. ASSUME NEW r \in gone, NEW h \in listed, r >= baseline, IsHome(h, r)'
        PROVE  r \in StoredRecords \cup told
    <3>1. IsHome(h, r)
      BY <2>1, <2>3, HomeStays
    <3> QED
      BY <3>1, <2>3 DEF LossTrue
  <2>4. StoredRecords' = StoredRecords
    BY <1>1 DEF StoredRecords
  <2> QED
    BY <1>1, <2>1, <2>2, <2>3, <2>4 DEF LossTrue
<1> QED
  BY <1>4, <1>5, <1>6

LEMMA ListingStays ==
  ASSUME HostTrue, HostTrue', HostGrows, UNCHANGED savedVars, LogRowsTrue,
         NEW p \in Passes, ListingTrue(p)
  PROVE  ListingTrue(p)'
<1>1. /\ cursor' = cursor /\ stored' = stored /\ listed' = listed /\ States' = States
  BY DEF savedVars, States
<1>2. \A x \in stored : x.record \in Nat /\ x.record <= written
  BY RowsBounded
<1>3. written \in Nat /\ written' \in Nat /\ written <= written'
  BY FilesShape, ShapeStays DEF HostGrows
<1>4. /\ p.files \in Seq(ListedFiles) /\ p.gone \in SUBSET (1 .. MaxRecord) /\ MaxRecord \in Nat
      /\ \A i \in DOMAIN p.files : p.files[i] \in ListedFiles
  <2>1. p.files \in Seq(ListedFiles) /\ p.gone \in SUBSET (1 .. MaxRecord)
    BY DEF Passes
  <2> QED
    BY <2>1, RemoteLogAssumption
<1>5. ASSUME NEW i \in DOMAIN p.files
      PROVE  ListedTrue(p.files[i])' /\ MatchTrue(p.found[i], p.files[i])'
  <2>1. PICK l \in ListedFiles : l = p.files[i]
    BY <1>4
  <2>2. PICK k : k = p.found[i]
    OBVIOUS
  <2>3. ListedTrue(l) /\ MatchTrue(k, l)
    BY <2>1, <2>2 DEF ListingTrue
  <2>4. l.path \in Nat /\ l.file.first \in Nat /\ l.file.last \in Nat
    BY DEF ListedFiles, Files
  <2>5. ListedTrue(l)'
    <3>1. Seen(l.file.id, l.file.first, l.file.last, ~ l.active)'
      BY <2>3, <2>4, SeenStays DEF ListedTrue
    <3>2. Newer(l.path, l.file.first)'
      BY <2>3, <2>4, NewerStays DEF ListedTrue
    <3> QED
      BY <3>1, <3>2, <2>3, <1>1 DEF ListedTrue
  <2>6. MatchTrue(k, l)'
    <3>1. \A x \in stored : IsHome(l.file.first, x.record)' <=> IsHome(l.file.first, x.record)
      BY <1>2, HomeStays
    <3> QED
      BY <3>1, <2>3, <1>1 DEF MatchTrue
  <2> QED
    BY <2>1, <2>2, <2>5, <2>6
<1>6. Gap(p.found)' <=> Gap(p.found)
  BY <1>1 DEF Gap
<1>7. p.gone \subseteq 1 .. written' /\ p.gone \subseteq Nat /\ \A r \in p.gone : r <= written
  BY <1>3 DEF ListingTrue
<1>8. \A r \in p.gone : \A i \in DOMAIN p.files : ~ IsHome(p.files[i].file.first, r)'
  BY <1>7, HomeStays DEF ListingTrue
<1>9. \A h \in listed : (\E i \in DOMAIN p.files : p.files[i].file.first = h)
                        \/ Vanished(h, p.gone)'
  BY VanishedStays DEF ListingTrue
<1>10. ASSUME NEW i \in DOMAIN remoteFiles'
       PROVE  \/ \E j \in DOMAIN p.files : p.files[j].file.first = remoteFiles'[i].first
              \/ \A x \in stored : x.record < remoteFiles'[i].first
  <2>1. remoteFiles'[i].first \in Nat
    <3>1. remoteFiles'[i] \in Files
      BY DEF HostTrue
    <3> QED
      BY <3>1 DEF Files
  <2>2. CASE written < remoteFiles'[i].first
    BY <2>1, <2>2, <1>2, <1>3
  <2>3. CASE \E j \in DOMAIN remoteFiles : remoteFiles'[i].first = remoteFiles[j].first
    BY <2>3 DEF ListingTrue
  <2> QED
    BY <2>2, <2>3 DEF HostGrows
<1> QED
  BY <1>1, <1>5, <1>6, <1>7, <1>8, <1>9, <1>10 DEF ListingTrue

LEMMA MadeStays ==
  ASSUME HostTrue, HostTrue', HostGrows, UNCHANGED savedVars, LogRowsTrue,
         NEW p \in Passes, MadeTrue(p)
  PROVE  MadeTrue(p)'
<1>1. /\ cursor' = cursor /\ stored' = stored /\ States' = States /\ baseline' = baseline
      /\ PassBase(p)' = PassBase(p)
  BY DEF savedVars, States, PassBase
<1>2. \A x \in stored : x.record \in Nat /\ x.record <= written
  BY RowsBounded
<1>3. written \in Nat /\ written' \in Nat /\ written <= written'
  BY FilesShape, ShapeStays DEF HostGrows
<1>4. \A x \in p.logs : x.record \in Nat /\ x.record <= written
  <2>1. p.logs \subseteq LogRecord /\ \A x \in LogRecord : x.record \in Nat
    BY RemoteLogAssumption DEF Passes, LogRecord
  <2> QED
    BY <2>1 DEF MadeTrue
<1>5. ASSUME NEW i \in DOMAIN p.states
      PROVE  StateTrue(p.states[i], PassBase(p), stored \cup p.logs)'
  <2>1. PICK s, base, kept : s = p.states[i] /\ base = PassBase(p) /\ kept = stored \cup p.logs
    OBVIOUS
  <2>2. StateTrue(s, base, kept)
    BY <2>1 DEF MadeTrue
  <2>3. \A x \in kept : x.record \in Nat /\ x.record <= written
    BY <2>1, <1>2, <1>4
  <2>4. StateTrue(s, base, kept)'
    BY <2>2, <2>3, StateStays
  <2> QED
    BY <2>1, <2>4, <1>1
<1>6. \A x \in p.logs : \A h : IsHome(h, x.record)' <=> IsHome(h, x.record)
  BY <1>4, HomeStays
<1>7. \A x \in p.logs : x.record <= written'
  BY <1>3, <1>4
<1> QED
  BY <1>1, <1>5, <1>6, <1>7 DEF MadeTrue

LEMMA StatesShape ==
  ASSUME CursorTrue
  PROVE  /\ States \in Seq(FileStates) /\ DOMAIN States \subseteq Nat \ {0}
         /\ \A k \in DOMAIN States : States[k] \in FileStates
<1>1. States \in Seq(FileStates)
  <2>1. CASE cursor = NoCursor
    BY <2>1 DEF States
  <2>2. CASE cursor # NoCursor
    BY <2>2 DEF CursorTrue, States
  <2> QED
    BY <2>1, <2>2
<1> QED
  BY <1>1

\* A host that did nothing has grown, too.
LEMMA StillGrows ==
  ASSUME HostTrue, UNCHANGED hostVars
  PROVE  HostTrue' /\ HostGrows
<1>1. remoteFiles' = remoteFiles /\ written' = written /\ firsts' = firsts /\ copy' = copy
  BY DEF hostVars
<1>2. HostTrue'
  BY <1>1 DEF HostTrue, InodesTrue
<1>3. \A i \in DOMAIN remoteFiles :
         \E j \in DOMAIN remoteFiles :
            /\ j <= i /\ remoteFiles[i].first = remoteFiles[j].first
            /\ remoteFiles[j].last <= remoteFiles[i].last
            /\ i = 1 => remoteFiles[i].id = remoteFiles[j].id
            /\ j > 1 => remoteFiles[i].last = remoteFiles[j].last
            /\ i > 1 => remoteFiles[i].last = remoteFiles[j].last
  <2> TAKE i \in DOMAIN remoteFiles
  <2>1. i <= i /\ remoteFiles[i].last <= remoteFiles[i].last
    BY FilesShape
  <2> WITNESS i \in DOMAIN remoteFiles
  <2> QED
    BY <2>1
<1>4. written \in Nat /\ remoteFiles[1].first <= written + 1
  <2>1. /\ remoteFiles[1].first \in Nat /\ remoteFiles[1].first <= remoteFiles[1].last
        /\ remoteFiles[1].last = written /\ written \in Nat
    BY FilesShape DEF HostTrue
  <2> QED
    BY <2>1
<1> QED
  BY <1>1, <1>2, <1>3, <1>4 DEF HostGrows

LEMMA StatesSound ==
  ASSUME SoundRows
  PROVE  /\ States \in Seq(FileStates) /\ DOMAIN States \subseteq Nat \ {0}
         /\ \A k \in DOMAIN States : States[k] \in FileStates
<1>1. States \in Seq(FileStates)
  <2>1. CASE cursor = NoCursor
    BY <2>1 DEF States
  <2>2. CASE cursor # NoCursor
    BY <2>2 DEF SoundRows, States
  <2> QED
    BY <2>1, <2>2
<1> QED
  BY <1>1

LEMMA SoundStateStays ==
  ASSUME written \in Nat, written' \in Nat, written <= written',
         NEW s, NEW base, NEW kept, SoundState(s, base, kept)
  PROVE  SoundState(s, base, kept)'
<1>1. s.offset <= written' /\ s.prefix <= written'
  <2>1. s.offset \in Nat /\ s.prefix \in Nat /\ s.offset <= written /\ s.prefix <= written
    BY DEF SoundState, FileStates
  <2> QED
    BY <2>1
<1> QED
  BY <1>1 DEF SoundState

LEMMA SoundCursorStays ==
  ASSUME HostTrue, HostTrue', HostGrows, UNCHANGED savedVars, SoundRows, SoundCursor
  PROVE  (SoundRows /\ SoundCursor)'
<1>1. /\ cursor' = cursor /\ stored' = stored /\ baseline' = baseline /\ blurred' = blurred
      /\ listed' = listed /\ gone' = gone /\ States' = States
  BY DEF savedVars, States
<1>2. written \in Nat /\ written' \in Nat /\ written <= written'
  BY FilesShape, ShapeStays DEF HostGrows
<1>3. \A x \in stored : x.record <= written'
  <2>1. \A x \in LogRecord : x.record \in Nat
    BY RemoteLogAssumption DEF LogRecord
  <2> QED
    BY <2>1, <1>2 DEF SoundRows
<1>4. SoundRows'
  BY <1>1, <1>3 DEF SoundRows
<1>5. \A k \in DOMAIN States : SoundState(States[k], baseline, stored)'
  <2> TAKE k \in DOMAIN States
  <2>1. PICK s, base, kept : s = States[k] /\ base = baseline /\ kept = stored
    OBVIOUS
  <2>2. SoundState(s, base, kept)
    BY <2>1 DEF SoundCursor
  <2>3. SoundState(s, base, kept)'
    BY <2>2, <1>2, SoundStateStays
  <2> QED
    BY <2>1, <2>3, <1>1
<1> QED
  BY <1>1, <1>4, <1>5 DEF SoundCursor

LEMMA SoundListingStays ==
  ASSUME HostTrue, HostTrue', HostGrows, UNCHANGED savedVars, NEW p \in Passes, SoundListing(p)
  PROVE  SoundListing(p)'
<1>1. cursor' = cursor /\ States' = States
  BY DEF savedVars, States
<1>2. written \in Nat /\ written' \in Nat /\ written <= written'
  BY FilesShape, ShapeStays DEF HostGrows
<1>3. /\ p.seen \in Seq(Entries) /\ p.files \in Seq(ListedFiles) /\ p.size \in Nat
      /\ \A j \in DOMAIN p.seen : p.seen[j] \in Entries
      /\ \A i \in DOMAIN p.files : p.files[i] \in ListedFiles
  BY DEF Passes
<1>4. ASSUME NEW j \in DOMAIN p.seen
      PROVE  SoundEntry(p.seen[j])'
  <2>1. PICK e \in Entries : e = p.seen[j]
    BY <1>3
  <2>2. e.file.last \in Nat
    BY DEF Entries, Files
  <2>3. SoundEntry(e)
    BY <2>1 DEF SoundListing
  <2> QED
    BY <2>1, <2>2, <2>3, <1>2 DEF SoundEntry
<1>5. ASSUME NEW i \in DOMAIN p.files
      PROVE  SoundListed(p.files[i])'
  <2>1. PICK l \in ListedFiles : l = p.files[i]
    BY <1>3
  <2>2. l.size \in Nat /\ l.prefix \in Nat /\ l.path \in Nat
    BY DEF ListedFiles
  <2>3. SoundListed(l)
    BY <2>1 DEF SoundListing
  <2>4. ~ l.meta => Newer(l.path, l.prefix)'
    BY <2>2, <2>3, NewerStays DEF SoundListed
  <2> QED
    BY <2>1, <2>2, <2>3, <2>4, <1>1, <1>2 DEF SoundListed
<1>6. \A e : MetadataOnly(e)' <=> MetadataOnly(e)
  BY <1>1 DEF MetadataOnly
<1>7. p.pc = "sized" => /\ p.size # 0 /\ p.size <= written'
                        /\ ~ MetadataOnly(Head(p.seen))'
  BY <1>2, <1>3, <1>6 DEF SoundListing
<1> QED
  BY <1>4, <1>5, <1>7 DEF SoundListing

LEMMA SoundMatchesStays ==
  ASSUME UNCHANGED savedVars, NEW p, SoundMatches(p)
  PROVE  SoundMatches(p)'
<1>1. States' = States
  BY DEF savedVars, States
<1> QED
  BY <1>1 DEF SoundMatches

LEMMA SoundMadeStays ==
  ASSUME HostTrue, HostTrue', HostGrows, UNCHANGED savedVars, NEW p \in Passes, SoundMade(p)
  PROVE  SoundMade(p)'
<1>1. /\ cursor' = cursor /\ stored' = stored /\ States' = States /\ baseline' = baseline
      /\ PassBase(p)' = PassBase(p)
  BY DEF savedVars, States, PassBase
<1>2. written \in Nat /\ written' \in Nat /\ written <= written'
  BY FilesShape, ShapeStays DEF HostGrows
<1>3. \A x \in p.logs : x.record <= written'
  <2>1. p.logs \subseteq LogRecord /\ \A x \in LogRecord : x.record \in Nat
    BY RemoteLogAssumption DEF Passes, LogRecord
  <2>2. \A x \in p.logs : x.record <= written
    BY DEF SoundMade
  <2> QED
    BY <2>1, <2>2, <1>2
<1>4. ASSUME NEW i \in DOMAIN p.states
      PROVE  SoundState(p.states[i], PassBase(p), stored \cup p.logs)'
  <2>1. PICK s, base, kept : s = p.states[i] /\ base = PassBase(p) /\ kept = stored \cup p.logs
    OBVIOUS
  <2>2. SoundState(s, base, kept)
    BY <2>1 DEF SoundMade
  <2>3. SoundState(s, base, kept)'
    BY <2>2, <1>2, SoundStateStays
  <2> QED
    BY <2>1, <2>3, <1>1
<1> QED
  BY <1>1, <1>3, <1>4 DEF SoundMade

LEMMA SoundDataStays ==
  ASSUME HostTrue, HostTrue', HostGrows, UNCHANGED <<savedVars, pass>>,
         pass \in Passes, SoundData(pass)
  PROVE  SoundData(pass)'
<1>1. pass' = pass /\ Current' = Current /\ StateOf(Current)' = StateOf(Current)
  BY DEF savedVars, Current, StateOf, CurrentMatch, States, NewState, NewGeneration, LogGenerations, Tail1
<1>2. CASE pass.pc # "check"
  BY <1>1, <1>2 DEF SoundData
<1>3. CASE pass.pc = "check"
  <2>1. PICK s, l : s = StateOf(Current) /\ l = Current
    OBVIOUS
  <2>2. PICK a \in 0 .. written, n \in 0 .. written :
           /\ pass.data = a + s.offset .. a + s.offset + n - 1
           /\ s.offset + n <= l.size
           /\ n # 0 => a + s.offset + n <= written + 1
           /\ l.prefix <= a /\ Newer(l.path, a)
    BY <2>1, <1>3 DEF SoundData
  <2>3. Len(pass.states) < Len(pass.files) /\ ~ s.done /\ s.offset \in Nat
    BY <2>1, <1>3 DEF SoundData
  <2>4. l \in ListedFiles
    <3>1. pass.files \in Seq(ListedFiles) /\ Len(pass.states) \in Nat
      BY DEF Passes
    <3>2. Len(pass.states) + 1 \in 1 .. Len(pass.files)
      BY <2>3, <3>1
    <3> QED
      BY <2>1, <3>1, <3>2 DEF Current
  <2>5. written \in Nat /\ written' \in Nat /\ written <= written'
    BY FilesShape, ShapeStays DEF HostGrows
  <2>6. Newer(l.path, a)'
    <3>1. l.path \in Nat /\ a \in Nat
      BY <2>4, <2>5 DEF ListedFiles
    <3> QED
      BY <3>1, <2>2, NewerStays
  <2>7. a \in 0 .. written' /\ n \in 0 .. written'
    BY <2>5
  <2>8. ASSUME n # 0
        PROVE  a + s.offset + n <= written' + 1
    <3>1. a + s.offset + n <= written + 1
      BY <2>2, <2>8
    <3>2. a \in Nat /\ n \in Nat /\ s.offset \in Nat
      BY <2>3, <2>5
    <3> QED
      BY <3>1, <3>2, <2>5
  <2> QED
    BY <2>1, <2>2, <2>3, <2>6, <2>7, <2>8, <1>1 DEF SoundData
<1> QED
  BY <1>2, <1>3

\* A pass that only learns that files moved has made what it had made.
LEMMA SameSound ==
  ASSUME NEW p, NEW q, q.pc = p.pc, q.names = p.names, q.seen = p.seen, q.size = p.size,
         q.files = p.files, q.found = p.found, q.states = p.states, q.logs = p.logs
  PROVE  /\ SoundListing(p) => SoundListing(q)
         /\ SoundMatches(p) => SoundMatches(q)
         /\ SoundMade(p) => SoundMade(q)
<1>1. ActiveOnce(p) => ActiveOnce(q)
  BY DEF ActiveOnce
<1>2. SoundListing(p) => SoundListing(q)
  BY <1>1 DEF SoundListing
<1>3. SoundMatches(p) => SoundMatches(q)
  BY DEF SoundMatches
<1>4. PassBase(p) = PassBase(q)
  BY DEF PassBase
<1>5. ASSUME SoundMade(p)
      PROVE  SoundMade(q)
  <2>1. \A i \in DOMAIN q.states : SoundState(q.states[i], PassBase(q), stored \cup q.logs)
    <3>1. PICK states, base, kept :
             states = q.states /\ base = PassBase(q) /\ kept = stored \cup q.logs
      OBVIOUS
    <3>2. \A i \in DOMAIN states : SoundState(states[i], base, kept)
      BY <3>1, <1>4, <1>5 DEF SoundMade
    <3> QED
      BY <3>1, <3>2
  <2>2. ASSUME NEW i \in DOMAIN q.states
        PROVE  IF q.found[i] # 0 THEN q.states[i].gen = States[q.found[i]].gen
               ELSE /\ \A k \in DOMAIN States : q.states[i].gen # States[k].gen
                    /\ \A x \in stored : q.states[i].gen # x.gen
    BY <1>5 DEF SoundMade
  <2>3. /\ q.pc \in Listing => q.states = <<>> /\ q.logs = {}
        /\ Len(q.states) <= Len(q.files) /\ IsFiniteSet(q.logs)
        /\ \A i, j \in DOMAIN q.states : i # j => q.states[i].gen # q.states[j].gen
        /\ \A x \in q.logs :
              x.record <= written /\ \E i \in DOMAIN q.states : x.gen = q.states[i].gen
    BY <1>5 DEF SoundMade
  <2> QED
    BY <2>1, <2>2, <2>3 DEF SoundMade
<1> QED
  BY <1>2, <1>3, <1>5

LEMMA HostSound ==
  ASSUME Headed, HostTrue, Sound, HostStep
  PROVE  HostTrue' /\ Sound'
<1>1. /\ HostTrue' /\ HostGrows /\ UNCHANGED savedVars
      /\ pass' = pass \/ MovesFiles
  BY HostStepGrows
<1>2. SoundRows' /\ SoundCursor'
  BY <1>1, SoundCursorStays DEF Sound
<1>3. ASSUME pass' = pass
      PROVE  SoundPass'
  <2>1. CASE pass = NoPass
    BY <2>1, <1>3 DEF SoundPass
  <2>2. CASE pass # NoPass
    <3>1. PICK p : p = pass
      OBVIOUS
    <3>2. p \in Passes /\ SoundListing(p) /\ SoundMatches(p) /\ SoundMade(p) /\ SoundData(pass)
      BY <3>1, <2>2 DEF Sound, SoundPass
    <3>3. SoundListing(p)' /\ SoundMatches(p)' /\ SoundMade(p)'
      BY <3>2, <1>1, SoundListingStays, SoundMatchesStays, SoundMadeStays
    <3>4. SoundData(pass)'
      BY <3>1, <3>2, <1>1, <1>3, SoundDataStays
    <3> QED
      BY <3>1, <3>2, <3>3, <3>4, <1>3 DEF SoundPass
  <2> QED
    BY <2>1, <2>2
<1>4. ASSUME pass' # pass
      PROVE  SoundPass'
  <2>1. pass' = [pass EXCEPT !.moved = TRUE] /\ pass.pc \in Listing
    BY <1>1, <1>4 DEF MovesFiles, Listing
  <2>2. pass # NoPass
    BY <2>1 DEF NoPass, Listing
  <2>3. pass \in Passes /\ SoundListing(pass) /\ SoundMatches(pass) /\ SoundMade(pass)
    BY <2>2 DEF Sound, SoundPass
  <2>4. PICK q : q = [pass EXCEPT !.moved = TRUE]
    OBVIOUS
  <2>5. /\ q \in Passes
        /\ q.pc = pass.pc /\ q.names = pass.names /\ q.seen = pass.seen /\ q.size = pass.size
        /\ q.files = pass.files /\ q.found = pass.found /\ q.states = pass.states
        /\ q.logs = pass.logs
    BY <2>3, <2>4 DEF Passes
  <2>6. SoundListing(q) /\ SoundMatches(q) /\ SoundMade(q)
    BY <2>3, <2>5, SameSound
  <2>7. SoundListing(q)' /\ SoundMatches(q)' /\ SoundMade(q)'
    BY <2>5, <2>6, <1>1, SoundListingStays, SoundMatchesStays, SoundMadeStays
  <2>8. pass' = q /\ q.pc # "check"
    BY <2>1, <2>4, <2>5 DEF Listing
  <2>9. SoundData(pass)'
    BY <2>8 DEF SoundData
  <2> QED
    BY <2>5, <2>7, <2>8, <2>9 DEF SoundPass
<1> QED
  BY <1>1, <1>2, <1>3, <1>4 DEF Sound

-----------------------------------------------------------------------------
(* Sequences and paths.                                                    *)

LEMMA Joined ==
  ASSUME NEW S, NEW s \in Seq(S), NEW e \in S, NEW t, t = s \o <<e>>
  PROVE  /\ t \in Seq(S) /\ Len(t) = Len(s) + 1 /\ DOMAIN t = 1 .. Len(s) + 1
         /\ Len(s) \in Nat /\ DOMAIN s = 1 .. Len(s)
         /\ t[Len(s) + 1] = e /\ \A i \in DOMAIN s : t[i] = s[i]
<1>1. Append(s, e) = t
  BY AppendIsConcat
<1>2. /\ t \in Seq(S) /\ Len(t) = Len(s) + 1
      /\ \A i \in 1 .. Len(s) : t[i] = s[i]
      /\ t[Len(s) + 1] = e
  BY <1>1, AppendProperties
<1> QED
  BY <1>2, LenProperties

\* An element put at a place of a sequence.
PutAt(t, s, m, e) ==
    /\ Len(t) = Len(s) + 1 /\ DOMAIN t = 1 .. Len(s) + 1
    /\ t[m] = e
    /\ \A i \in 1 .. m - 1 : t[i] = s[i]
    /\ \A i \in m + 1 .. Len(s) + 1 : t[i] = s[i - 1]

LEMMA Put ==
  ASSUME NEW S, NEW s \in Seq(S), NEW e \in S, NEW m, m \in 1 .. Len(s) + 1,
         NEW t, t = InsertAt(s, m, e)
  PROVE  t \in Seq(S) /\ PutAt(t, s, m, e)
<1>1. PICK n \in Nat : n = Len(s)
  OBVIOUS
<1>0. PICK k \in Nat : m = k + 1 /\ k = m - 1
  OBVIOUS
<1>2. k \in Nat /\ k <= n /\ \A i \in 1 .. n : s[i] \in S
  BY <1>0, <1>1
<1>3. PICK a, b : a = SubSeq(s, 1, k) /\ b = SubSeq(s, k + 1, n)
  OBVIOUS
<1>4. a \in Seq(S) /\ Len(a) = k /\ \A i \in 1 .. k : a[i] = s[i]
  <2>1. 1 \in Int /\ k \in Int /\ \A i \in 1 .. k : s[i] \in S
    BY <1>2
  <2>2. /\ a \in Seq(S) /\ Len(a) = IF 1 <= k THEN k - 1 + 1 ELSE 0
        /\ \A i \in 1 .. k - 1 + 1 : a[i] = s[1 + i - 1]
    BY <2>1, <1>3, SubSeqProperties
  <2>3. k - 1 + 1 = k /\ \A i \in 1 .. k : 1 + i - 1 = i
    BY <1>2
  <2>4. Len(a) = k
    BY <2>2, <1>2
  <2> QED
    BY <2>2, <2>3, <2>4
<1>5. b \in Seq(S) /\ Len(b) = n - k /\ \A i \in 1 .. n - k : b[i] = s[k + i]
  <2>1. k + 1 \in Int /\ n \in Int /\ \A i \in k + 1 .. n : s[i] \in S
    BY <1>2
  <2>2. /\ b \in Seq(S) /\ Len(b) = IF k + 1 <= n THEN n - (k + 1) + 1 ELSE 0
        /\ \A i \in 1 .. n - (k + 1) + 1 : b[i] = s[k + 1 + i - 1]
    BY <2>1, <1>3, SubSeqProperties
  <2>3. n - (k + 1) + 1 = n - k /\ \A i \in 1 .. n - k : k + 1 + i - 1 = k + i
    BY <1>2
  <2>4. Len(b) = n - k
    BY <2>2, <1>2
  <2> QED
    BY <2>2, <2>3, <2>4
<1>6. PICK c : c = a \o <<e>>
  OBVIOUS
<1>7. c \in Seq(S) /\ Len(c) = k + 1 /\ c[k + 1] = e /\ \A i \in 1 .. k : c[i] = s[i]
  <2>1. /\ c \in Seq(S) /\ Len(c) = Len(a) + 1 /\ c[Len(a) + 1] = e /\ DOMAIN a = 1 .. Len(a)
        /\ \A i \in DOMAIN a : c[i] = a[i]
    BY <1>4, <1>6, Joined, SMTT(30), ZenonT(30)
  <2> QED
    BY <2>1, <1>4
<1>8. t = c \o b
  <2>1. t = (SubSeq(s, 1, m - 1) \o <<e>>) \o SubSeq(s, m, Len(s))
    BY Zenon DEF InsertAt
  <2> QED
    BY <2>1, <1>0, <1>1, <1>3, <1>6
<1>9. /\ t \in Seq(S) /\ Len(t) = k + 1 + (n - k)
      /\ \A i \in 1 .. k + 1 + (n - k) : t[i] = IF i <= k + 1 THEN c[i] ELSE b[i - (k + 1)]
  <2>1. /\ c \o b \in Seq(S) /\ Len(c \o b) = Len(c) + Len(b)
        /\ \A i \in 1 .. Len(c) + Len(b) :
              (c \o b)[i] = IF i <= Len(c) THEN c[i] ELSE b[i - Len(c)]
    <3> c \in Seq(S) /\ b \in Seq(S)
      BY <1>5, <1>7
    <3> HIDE <1>3, <1>6
    <3> QED
      BY ConcatProperties
  <2> QED
    BY <2>1, <1>5, <1>7, <1>8
<1>10. k + 1 + (n - k) = n + 1
  BY <1>2
<1>11. \A i \in 1 .. k + 1 : i \in 1 .. n + 1 /\ t[i] = c[i]
  BY <1>2, <1>9, <1>10
<1>12. k + 1 \in 1 .. k + 1 /\ \A i \in 1 .. k : i \in 1 .. k + 1
  BY <1>2
<1>13. ASSUME NEW i \in k + 2 .. n + 1
       PROVE  t[i] = s[i - 1]
  <2>1. i \in 1 .. n + 1 /\ ~ (i <= k + 1) /\ i - (k + 1) \in 1 .. n - k
        /\ k + (i - (k + 1)) = i - 1
    BY <1>2
  <2>2. t[i] = b[i - (k + 1)]
    BY <2>1, <1>9, <1>10
  <2> QED
    BY <2>1, <2>2, <1>5
<1>14. DOMAIN t = 1 .. n + 1 /\ Len(t) = n + 1
  BY <1>9, <1>10, LenProperties
<1> QED
  <2>1. t[m] = e /\ \A i \in 1 .. m - 1 : t[i] = s[i]
    BY <1>0, <1>7, <1>11, <1>12
  <2>2. \A i \in m + 1 .. Len(s) + 1 : t[i] = s[i - 1]
    BY <1>0, <1>1, <1>13
  <2> QED
    BY <2>1, <2>2, <1>1, <1>9, <1>14 DEF PutAt

LEMMA LeastOf ==
  ASSUME NEW K, K \subseteq Nat, K # {}
  PROVE  \E k \in K : \A j \in K : k <= j
<1>1. PICK k \in K : \A j \in K : <<j, k>> \notin OpToRel(<, Nat)
  BY WFMin, NatLessThanWellFounded
<1>2. \A j \in K : ~ (j < k)
  BY <1>1 DEF OpToRel
<1> QED
  BY <1>2

\* Of a sequence without its first element.
LEMMA Rest ==
  ASSUME NEW S, NEW s \in Seq(S), s # <<>>
  PROVE  /\ Head(s) \in S /\ Head(s) = s[1] /\ Len(s) \in Nat \ {0} /\ 1 \in DOMAIN s
         /\ DOMAIN s = 1 .. Len(s)
         /\ Tail(s) \in Seq(S) /\ Len(Tail(s)) = Len(s) - 1 /\ DOMAIN Tail(s) = 1 .. Len(s) - 1
         /\ \A i \in DOMAIN Tail(s) : i + 1 \in DOMAIN s /\ Tail(s)[i] = s[i + 1]
         /\ Len(s) = 1 <=> Tail(s) = <<>>
<1>1. /\ Head(s) \in S /\ Tail(s) \in Seq(S) /\ Len(Tail(s)) = Len(s) - 1
      /\ \A i \in 1 .. Len(Tail(s)) : Tail(s)[i] = s[i + 1]
  BY HeadTailProperties
<1>2. Len(s) \in Nat \ {0} /\ DOMAIN s = 1 .. Len(s) /\ DOMAIN Tail(s) = 1 .. Len(s) - 1
  BY <1>1, EmptySeq, LenProperties
<1>3. Len(s) = 1 <=> Tail(s) = <<>>
  <2>1. Tail(s) # <<>> => Len(Tail(s)) \in Nat \ {0}
    BY <1>1, EmptySeq
  <2>2. Tail(s) = <<>> => Len(Tail(s)) = 0
    BY EmptySeq
  <2> QED
    BY <2>1, <2>2, <1>1, <1>2
<1>4. \A i \in 1 .. Len(s) - 1 : i + 1 \in 1 .. Len(s)
  BY <1>2
<1> QED
  BY <1>1, <1>2, <1>3, <1>4 DEF Head

\* What is at a path: the file at its place, or the archive that is made of it.
LEMMA FileFacts ==
  ASSUME HostTrue, NEW place, NEW gz \in BOOLEAN, Exists(place, gz), NEW f, f = FileAt(place, gz)
  PROVE  /\ place \in DOMAIN remoteFiles /\ place \in Nat \ {0} /\ f \in Files /\ f.gz = gz
         /\ f.first = remoteFiles[place].first /\ f.last = remoteFiles[place].last
         /\ f.first \in Nat /\ f.last \in Nat /\ written \in Nat
         /\ 1 <= f.first /\ f.first <= f.last /\ f.last <= written
         /\ FirstRecord(f) = f.first /\ Length(f) = f.last - f.first + 1
         /\ Newer(place, f.first)
         /\ place = 1 => f = remoteFiles[1] /\ ~ gz
         /\ copy = NoCopy => f = remoteFiles[place]
<1>1. PICK r : r = remoteFiles[place]
  OBVIOUS
<1>2. place \in DOMAIN remoteFiles /\ place \in Nat \ {0} /\ r \in Files
      /\ r.first \in Nat /\ r.last \in Nat /\ r.last <= written /\ written \in Nat
  BY <1>1, FilesShape DEF Exists
<1>3. r.first \in firsts /\ r.first <= r.last /\ r.first \in 1 .. written
  BY <1>1, <1>2 DEF HostTrue
<1>4. /\ copy # NoCopy => copy.id \in Inodes /\ copy.of > 1
      /\ copy = NoCopy => copy.of = 0
  BY DEF HostTrue, InodesTrue, NoCopy
<1>5. f \in Files /\ f.gz = gz /\ f.first = r.first /\ f.last = r.last
  <2>1. CASE r.gz = gz
    BY <2>1, <1>1, <1>2 DEF FileAt
  <2>2. CASE r.gz # gz
    <3>1. gz = TRUE /\ copy.of = place
      BY <2>2, <1>1 DEF Exists
    <3>2. copy.id \in Inodes
      BY <3>1, <1>2, <1>4
    <3>3. PICK g : g = [r EXCEPT !.id = copy.id]
      OBVIOUS
    <3>4. g \in Files /\ g.first = r.first /\ g.last = r.last
      BY <3>2, <3>3, <1>2 DEF Files
    <3>5. f = [g EXCEPT !.gz = TRUE]
      BY <2>2, <3>3, <1>1 DEF FileAt
    <3> QED
      BY <3>1, <3>4, <3>5 DEF Files
  <2> QED
    BY <2>1, <2>2
<1>6. /\ place = 1 => r.gz = gz
      /\ copy = NoCopy => r.gz = gz
  <2>1. copy.of # 1
    BY <1>4
  <2>2. copy = NoCopy => copy.of # place
    BY <1>2, <1>4
  <2>3. r.gz = gz \/ (gz /\ copy.of = place)
    BY <1>1 DEF Exists
  <2> QED
    BY <2>1, <2>2, <2>3
<1>7. Newer(place, r.first)
  <2>1. ASSUME NEW j \in DOMAIN remoteFiles, j <= place
        PROVE  r.first <= remoteFiles[j].first
    <3>1. j \in Nat /\ remoteFiles[j].first \in Nat /\ remoteFiles[j].last \in Nat
      BY FilesShape
    <3>2. CASE j < place
      <4>1. r.last < remoteFiles[j].first
        BY <3>2, <1>1, <1>2 DEF HostTrue
      <4> QED
        BY <4>1, <3>1, <1>2, <1>3
    <3>3. CASE j = place
      BY <3>1, <3>3, <1>1
    <3> QED
      BY <2>1, <3>1, <3>2, <3>3, <1>2
  <2> QED
    BY <2>1, <1>2, <1>3 DEF Newer
<1>8. FirstRecord(f) = f.first /\ Length(f) = f.last - f.first + 1
  BY <1>2, <1>3, <1>5 DEF FirstRecord, Length
<1>9. r.gz = gz => f = r
  BY <1>1 DEF FileAt
<1>10. place = 1 => ~ gz
  BY <1>1, <1>6 DEF HostTrue, InodesTrue
<1> QED
  BY <1>1, <1>2, <1>3, <1>5, <1>6, <1>7, <1>8, <1>9, <1>10

-----------------------------------------------------------------------------
(* What is sound stays so: listing and matching.                           *)

LEMMA NextSound ==
  ASSUME HostTrue, Sound, UNCHANGED <<hostVars, savedVars>>, NEW q \in Passes, pass' = q,
         SoundListing(q), SoundMatches(q), SoundMade(q),
         q.pc = "check" => SoundData(pass)'
  PROVE  HostTrue' /\ Sound'
<1>1. HostTrue' /\ HostGrows
  BY StillGrows
<1>2. UNCHANGED savedVars
  OBVIOUS
<1>3. (SoundRows /\ SoundCursor)'
  BY <1>1, <1>2, SoundCursorStays DEF Sound
<1>4. SoundListing(q)' /\ SoundMatches(q)' /\ SoundMade(q)'
  BY <1>1, <1>2, SoundListingStays, SoundMatchesStays, SoundMadeStays
<1>5. SoundData(pass)'
  BY DEF SoundData
<1>6. SoundPass'
  BY <1>4, <1>5 DEF SoundPass
<1> QED
  BY <1>1, <1>3, <1>6 DEF Sound

LEMMA NoneSound ==
  ASSUME HostTrue, Sound, UNCHANGED <<hostVars, savedVars>>, pass' = NoPass
  PROVE  HostTrue' /\ Sound'
<1>1. HostTrue' /\ HostGrows
  BY StillGrows
<1>2. (SoundRows /\ SoundCursor)'
  BY <1>1, SoundCursorStays DEF Sound
<1> QED
  BY <1>1, <1>2 DEF Sound, SoundPass

LEMMA NothingMade ==
  ASSUME NEW q \in Passes, q.states = <<>>, q.logs = {}
  PROVE  SoundMade(q)
<1>1. Len(q.states) <= Len(q.files) /\ DOMAIN q.states = {}
  <2>1. q.files \in Seq(ListedFiles)
    BY DEF Passes
  <2>2. Len(q.files) \in Nat
    BY <2>1
  <2> QED
    BY <2>2
<1>2. IsFiniteSet(q.logs)
  BY FS_EmptySet
<1> QED
  BY <1>1, <1>2 DEF SoundMade

\* The active file is there under its one name.
LEMMA LogNamesFacts ==
  ASSUME HostTrue
  PROVE  /\ LogNames \in SUBSET ((Nat \ {0}) \X BOOLEAN)
         /\ <<1, FALSE>> \in LogNames
         /\ \A n \in LogNames : n[1] = 1 => ~ n[2]
<1>1. /\ DOMAIN remoteFiles \subseteq Nat \ {0} /\ 1 \in DOMAIN remoteFiles
      /\ ~ remoteFiles[1].gz /\ remoteFiles[1].gz \in BOOLEAN
  <2>1. remoteFiles[1] \in Files
    BY FilesShape
  <2>2. remoteFiles[1].gz \in BOOLEAN
    BY <2>1 DEF Files
  <2> QED
    BY <2>2, FilesShape DEF HostTrue, InodesTrue
<1>2. copy.of # 1
  BY DEF HostTrue, InodesTrue, NoCopy
<1>3. Exists(1, FALSE) /\ ~ Exists(1, TRUE)
  BY <1>1, <1>2 DEF Exists
<1>4. LogNames \subseteq (DOMAIN remoteFiles) \X BOOLEAN
  BY DEF LogNames
<1>5. <<1, FALSE>> \in LogNames
  BY <1>1, <1>3 DEF LogNames
<1>6. ASSUME NEW n \in LogNames, n[1] = 1
      PROVE  ~ n[2]
  <2>1. n \in (DOMAIN remoteFiles) \X BOOLEAN /\ Exists(n[1], n[2])
    BY DEF LogNames
  <2>2. n[2] \in BOOLEAN
    BY <2>1
  <2>3. Exists(1, n[2])
    BY <2>1, <1>6
  <2>4. n[2] # TRUE
    BY <2>3, <1>3
  <2> QED
    BY <2>2, <2>4
<1> QED
  BY <1>1, <1>4, <1>5, <1>6

LEMMA BeginSound ==
  ASSUME HostTrue, Sound, UNCHANGED <<hostVars, savedVars>>,
         NEW budget \in Nat, NEW attempt \in Nat, Begin(budget, attempt)
  PROVE  HostTrue' /\ Sound'
<1>1. PICK names, left, moved :
         /\ names = LogNames /\ left = (1 .. written) \ Present /\ moved = (copy # NoCopy)
         /\ moved \in BOOLEAN
  OBVIOUS
<1>2. PICK q : q = [pc |-> "list", names |-> names,
            seen |-> <<>>, size |-> 0, files |-> <<>>, found |-> <<>>, gap |-> FALSE,
            states |-> <<>>, logs |-> {}, data |-> {}, left |-> budget,
            budget |-> budget, attempt |-> attempt,
            gone |-> left, moved |-> moved]
  OBVIOUS
<1>3. pass' = q
  BY <1>1, <1>2 DEF Begin, PassIs
<1>4. names \in SUBSET ((Nat \ {0}) \X BOOLEAN) /\ left \in SUBSET (1 .. MaxRecord)
  <2>1. written \in 2 .. MaxRecord /\ MaxRecord \in Nat
    BY RemoteLogAssumption DEF HostTrue
  <2>2. 1 .. written \subseteq 1 .. MaxRecord
    BY <2>1
  <2> QED
    BY <2>2, <1>1, LogNamesFacts
<1>5. q \in Passes
  <2>1. /\ <<>> \in Seq(Entries) /\ <<>> \in Seq(ListedFiles) /\ <<>> \in Seq(Nat)
        /\ <<>> \in Seq(FileStates)
    OBVIOUS
  <2> QED
    BY <2>1, <1>1, <1>2, <1>4 DEF Passes
<1>6. /\ q.pc = "list" /\ q.names = names /\ q.seen = <<>> /\ q.files = <<>> /\ q.found = <<>>
      /\ q.states = <<>> /\ q.logs = {}
  BY <1>2
<1>7. ActiveOnce(q)
  <2>1. <<1, FALSE>> \in names /\ \A n \in names : n[1] = 1 => ~ n[2]
    BY <1>1, LogNamesFacts
  <2>2. DOMAIN q.seen = {} /\ DOMAIN q.files = {}
    BY <1>6
  <2> QED
    BY <2>1, <2>2, <1>6 DEF ActiveOnce
<1>8. SoundListing(q) /\ SoundMatches(q) /\ SoundMade(q)
  BY <1>5, <1>6, <1>7, NothingMade DEF SoundListing, SoundMatches, Listing
<1> QED
  BY <1>3, <1>5, <1>6, <1>8, NextSound

\* What the pass under way is, when there is one.
LEMMA PassSound ==
  ASSUME Sound, pass.pc # "idle"
  PROVE  /\ pass \in Passes /\ SoundListing(pass) /\ SoundMatches(pass) /\ SoundMade(pass)
         /\ SoundData(pass) /\ ActiveOnce(pass) /\ SoundRows /\ SoundCursor
  BY DEF Sound, SoundPass, NoPass, SoundListing
\* What a stat adds: nothing, or the file that is at the path.
LEMMA StatFacts ==
  ASSUME HostTrue, NEW place \in Nat \ {0}, NEW gz \in BOOLEAN, NEW new, new = Stat(<<place, gz>>)
  PROVE  \/ new = <<>> /\ (Exists(place, gz) => pass.seen # <<>>)
         \/ /\ Exists(place, gz)
            /\ \E e \in Entries : /\ new = <<e>> /\ e.path = place /\ e.file = FileAt(place, gz)
                                  /\ SoundEntry(e)
<1>1. PICK n : n = <<place, gz>>
  OBVIOUS
<1>2. n[1] = place /\ n[2] = gz /\ new = Stat(n)
  BY <1>1
<1>3. CASE new = <<>>
  <2>1. ASSUME Exists(place, gz), pass.seen = <<>>
        PROVE  FALSE
    <3>1. Range(pass.seen) = {}
      BY <2>1 DEF Range
    <3>2. new = <<[path |-> n[1], file |-> FileAt(n[1], n[2])]>>
      BY <3>1, <2>1, <1>2 DEF Stat
    <3> QED
      BY <3>2, <1>3
  <2> QED
    BY <2>1, <1>3
<1>4. CASE new # <<>>
  <2>1. Exists(place, gz) /\ new = <<[path |-> place, file |-> FileAt(place, gz)]>>
    BY <1>2, <1>4 DEF Stat
  <2>2. PICK f : f = FileAt(place, gz)
    OBVIOUS
  <2>3. f \in Files /\ 1 <= f.first /\ f.first <= f.last /\ f.last <= written
    BY <2>1, <2>2, FileFacts
  <2>4. PICK e : e = [path |-> place, file |-> f]
    OBVIOUS
  <2>5. e \in Entries /\ e.path = place /\ e.file = f /\ SoundEntry(e) /\ new = <<e>>
    BY <2>1, <2>2, <2>3, <2>4 DEF Entries, SoundEntry
  <2> QED
    BY <2>1, <2>2, <2>5
<1> QED
  BY <1>3, <1>4

LEMMA StatNextSound ==
  ASSUME HostTrue, Sound, StatNext
  PROVE  HostTrue' /\ Sound'
<1>1. pass.pc = "list" /\ UNCHANGED <<hostVars, savedVars>>
  BY DEF StatNext
<1>2. /\ pass \in Passes /\ SoundListing(pass) /\ SoundMatches(pass) /\ SoundMade(pass)
      /\ ActiveOnce(pass)
  BY <1>1, PassSound
<1>3. PICK name \in pass.names :
         /\ \A other \in pass.names \ {name} : NameBefore(name, other)
         /\ PassIs([pass EXCEPT !.names = @ \ {name}, !.seen = @ \o Stat(name),
                                !.pc = IF pass.names = {name} THEN "look" ELSE @])
  BY DEF StatNext
<1>4. /\ pass.names \in SUBSET ((Nat \ {0}) \X BOOLEAN) /\ pass.seen \in Seq(Entries)
      /\ pass.pc \in {"list", "look"}
  BY <1>1, <1>2 DEF Passes
<1>5. PICK place \in Nat \ {0}, gz \in BOOLEAN : name = <<place, gz>>
  BY <1>4
<1>6. PICK new : new = Stat(<<place, gz>>)
  OBVIOUS
<1>7. /\ pass.files = <<>>
      /\ <<1, FALSE>> \in pass.names <=> pass.seen = <<>>
      /\ \A n \in pass.names : n[1] = 1 => ~ n[2]
      /\ \A j \in DOMAIN pass.seen : pass.seen[j].path = 1 <=> j = 1
      /\ pass.found = <<>> /\ pass.states = <<>> /\ pass.logs = {}
      /\ \A j \in DOMAIN pass.seen : SoundEntry(pass.seen[j])
  BY <1>1, <1>2 DEF ActiveOnce, SoundListing, SoundMatches, SoundMade, Listing
<1>8. /\ pass.seen = <<>> => place = 1 /\ ~ gz
      /\ place = 1 => pass.seen = <<>>
  <2>1. ASSUME pass.seen = <<>>, <<place, gz>> # <<1, FALSE>>
        PROVE  FALSE
    <3>1. <<1, FALSE>> \in pass.names \ {name}
      BY <2>1, <1>5, <1>7
    <3>2. NameBefore(<<place, gz>>, <<1, FALSE>>)
      BY <3>1, <1>3, <1>5
    <3> QED
      BY <3>2 DEF NameBefore
  <2>2. ASSUME place = 1
        PROVE  pass.seen = <<>>
    <3>1. ~ gz
      BY <2>2, <1>5, <1>7
    <3>2. <<place, gz>> = <<1, FALSE>>
      BY <3>1, <2>2
    <3> QED
      BY <3>2, <1>5, <1>7
  <2> QED
    BY <2>1, <2>2
<1>9. PICK seen : seen = pass.seen \o new
  OBVIOUS
<1>10. /\ seen \in Seq(Entries) /\ seen # <<>>
       /\ \A j \in DOMAIN seen : SoundEntry(seen[j]) /\ (seen[j].path = 1 <=> j = 1)
  <2>1. CASE new = <<>>
    <3>1. seen = pass.seen
      BY <2>1, <1>4, <1>9, ConcatEmptySeq
    <3>2. pass.seen # <<>>
      <4>1. ASSUME pass.seen = <<>>
            PROVE  Exists(place, gz)
        <5>1. place = 1 /\ gz = FALSE
          BY <4>1, <1>8
        <5>2. ~ remoteFiles[1].gz /\ remoteFiles[1] \in Files /\ 1 \in DOMAIN remoteFiles
          BY FilesShape DEF HostTrue, InodesTrue
        <5> QED
          BY <5>1, <5>2 DEF Exists, Files
      <4> QED
        BY <4>1, <2>1, <1>6, StatFacts
    <3> QED
      BY <3>1, <3>2, <1>4, <1>7
  <2>2. CASE new # <<>>
    <3>1. PICK e \in Entries : new = <<e>> /\ e.path = place /\ SoundEntry(e)
      BY <2>2, <1>6, StatFacts
    <3>2. /\ seen \in Seq(Entries) /\ DOMAIN seen = 1 .. Len(pass.seen) + 1
          /\ Len(pass.seen) \in Nat /\ DOMAIN pass.seen = 1 .. Len(pass.seen)
          /\ seen[Len(pass.seen) + 1] = e /\ \A i \in DOMAIN pass.seen : seen[i] = pass.seen[i]
      BY <3>1, <1>4, <1>9, Joined
    <3>3. \A j \in DOMAIN seen : j \in DOMAIN pass.seen \/ j = Len(pass.seen) + 1
      BY <3>2
    <3>4. Len(pass.seen) = 0 <=> pass.seen = <<>>
      BY <1>4, EmptySeq
    <3>5. ASSUME NEW j \in DOMAIN seen
          PROVE  SoundEntry(seen[j]) /\ (seen[j].path = 1 <=> j = 1)
      <4>1. CASE j \in DOMAIN pass.seen
        BY <4>1, <3>2, <1>7
      <4>2. CASE j = Len(pass.seen) + 1
        <5>1. place = 1 <=> j = 1
          BY <4>2, <3>2, <3>4, <1>8
        <5> QED
          BY <4>2, <5>1, <3>1, <3>2
      <4> QED
        BY <4>1, <4>2, <3>3
    <3>6. seen # <<>>
      <4>1. 1 \in DOMAIN seen
        BY <3>2
      <4> QED
        BY <4>1
    <3> QED
      BY <3>2, <3>5, <3>6
  <2> QED
    BY <2>1, <2>2
<1>11. PICK q : q = [pass EXCEPT !.names = @ \ {name}, !.seen = seen,
                                 !.pc = IF pass.names = {name} THEN "look" ELSE @]
  OBVIOUS
<1>12. pass' = q
  BY <1>3, <1>5, <1>6, <1>9, <1>11 DEF PassIs
<1>13. /\ q.pc = (IF pass.names = {name} THEN "look" ELSE "list")
       /\ q.names = pass.names \ {name} /\ q.seen = seen
       /\ q.files = pass.files /\ q.found = pass.found /\ q.states = pass.states
       /\ q.logs = pass.logs
  BY <1>1, <1>2, <1>11 DEF Passes
<1>14. q \in Passes
  <2>1. q.names \in SUBSET ((Nat \ {0}) \X BOOLEAN) /\ q.seen \in Seq(Entries)
        /\ q.pc \in {"list", "look"}
    BY <1>4, <1>10, <1>13
  <2> QED
    BY <2>1, <1>2, <1>11, <1>13 DEF Passes
<1>15. ActiveOnce(q)
  <2>1. q.pc = "list" => q.names # {}
    BY <1>13
  <2>2. <<1, FALSE>> \notin q.names
    <3>1. CASE pass.seen = <<>>
      <4>1. name = <<1, FALSE>>
        BY <3>1, <1>5, <1>8
      <4> QED
        BY <4>1, <1>13
    <3>2. CASE pass.seen # <<>>
      BY <3>2, <1>7, <1>13
    <3> QED
      BY <3>1, <3>2
  <2>3. \A n \in q.names : n[1] = 1 => ~ n[2]
    BY <1>7, <1>13
  <2>4. \A j \in DOMAIN q.seen : q.seen[j].path = 1 <=> j = 1
    BY <1>10, <1>13
  <2>5. DOMAIN q.files = {} /\ q.files = <<>> /\ q.seen # <<>> /\ q.pc \in {"list", "look"}
    BY <1>7, <1>10, <1>13
  <2> QED
    BY <2>1, <2>2, <2>3, <2>4, <2>5 DEF ActiveOnce
<1>16. SoundListing(q) /\ SoundMatches(q)
  <2>1. DOMAIN q.files = {} /\ DOMAIN q.found = {} /\ q.pc \in {"list", "look"} /\ q.found = <<>>
    BY <1>7, <1>13
  <2>2. \A j \in DOMAIN q.seen : SoundEntry(q.seen[j])
    BY <1>10, <1>13
  <2> QED
    BY <2>1, <2>2, <1>15 DEF SoundListing, SoundMatches
<1>17. SoundMade(q)
  BY <1>7, <1>13, <1>14, NothingMade DEF Listing
<1> QED
  BY <1>1, <1>12, <1>13, <1>14, <1>16, <1>17, NextSound
\* A file that was looked at takes its place: the active one stays the last.
LEMMA EnterSound ==
  ASSUME HostTrue, Sound, UNCHANGED <<hostVars, savedVars>>, pass.pc \in {"look", "sized"},
         NEW meta, NEW size, NEW prefix, Enter(meta, size, prefix),
         NEW l \in ListedFiles, SoundListed(l),
         l = [path |-> Head(pass.seen).path, file |-> Head(pass.seen).file,
              active |-> Head(pass.seen).path = 1, meta |-> meta, size |-> size,
              prefix |-> prefix]
  PROVE  HostTrue' /\ Sound'
<1>1. /\ pass \in Passes /\ SoundListing(pass) /\ SoundMatches(pass) /\ SoundMade(pass)
      /\ ActiveOnce(pass)
  BY PassSound
<1>2. pass.seen \in Seq(Entries) /\ pass.files \in Seq(ListedFiles)
  BY <1>1 DEF Passes
<1>3. /\ pass.seen # <<>> /\ pass.found = <<>> /\ pass.states = <<>> /\ pass.logs = {}
      /\ pass.files = <<>> => \A j \in DOMAIN pass.seen : pass.seen[j].path = 1 <=> j = 1
      /\ pass.files # <<>> => \A j \in DOMAIN pass.seen : pass.seen[j].path # 1
      /\ \A i \in DOMAIN pass.files : pass.files[i].active <=> i = Len(pass.files)
      /\ \A j \in DOMAIN pass.seen : SoundEntry(pass.seen[j])
      /\ \A i \in DOMAIN pass.files : SoundListed(pass.files[i])
  BY <1>1 DEF ActiveOnce, SoundListing, SoundMatches, SoundMade, Listing
<1>4. PICK k \in 0 .. Len(pass.files) :
          /\ \A i \in 1 .. k : SortsBefore(pass.files[i], l)
          /\ \A i \in k + 1 .. Len(pass.files) : SortsBefore(l, pass.files[i])
          /\ PassIs([pass EXCEPT !.files = InsertAt(@, k + 1, l), !.seen = Tail(@), !.size = 0,
                                 !.pc = IF Len(pass.seen) = 1 THEN "match" ELSE "look"])
  BY DEF Enter
<1>5. PICK n, files, seen, pc :
         /\ n = Len(pass.files) /\ files = InsertAt(pass.files, k + 1, l)
         /\ seen = Tail(pass.seen) /\ pc = IF Len(pass.seen) = 1 THEN "match" ELSE "look"
  OBVIOUS
<1>6. /\ n \in Nat /\ k \in 0 .. n /\ DOMAIN pass.files = 1 .. n
      /\ pass.files = <<>> <=> n = 0
  BY <1>2, <1>5, EmptySeq
<1>7. /\ files \in Seq(ListedFiles) /\ Len(files) = n + 1 /\ DOMAIN files = 1 .. n + 1
      /\ files[k + 1] = l
      /\ \A i \in 1 .. k : files[i] = pass.files[i]
      /\ \A i \in k + 2 .. n + 1 : files[i] = pass.files[i - 1]
  <2>1. PICK old : old = pass.files
    OBVIOUS
  <2>2. k + 1 \in 1 .. Len(old) + 1 /\ old \in Seq(ListedFiles) /\ files = InsertAt(old, k + 1, l)
    BY <2>1, <1>2, <1>5
  <2>3. files \in Seq(ListedFiles) /\ PutAt(files, old, k + 1, l)
    BY <2>2, Put
  <2>4. (k + 1) - 1 = k /\ (k + 1) + 1 = k + 2
    BY <1>6
  <2> QED
    BY <2>1, <2>3, <2>4, <1>5 DEF PutAt
<1>8. /\ Head(pass.seen) = pass.seen[1] /\ 1 \in DOMAIN pass.seen
      /\ seen \in Seq(Entries)
      /\ \A i \in DOMAIN seen : /\ i + 1 \in DOMAIN pass.seen /\ seen[i] = pass.seen[i + 1]
                                /\ i \in Nat \ {0}
      /\ Len(pass.seen) = 1 <=> seen = <<>>
  <2>1. /\ Head(pass.seen) = pass.seen[1] /\ 1 \in DOMAIN pass.seen
        /\ seen \in Seq(Entries)
        /\ \A i \in DOMAIN seen : i + 1 \in DOMAIN pass.seen /\ seen[i] = pass.seen[i + 1]
        /\ Len(pass.seen) = 1 <=> seen = <<>>
    BY <1>2, <1>3, <1>5, Rest
  <2>2. DOMAIN seen \subseteq Nat \ {0}
    BY <2>1
  <2> QED
    BY <2>1, <2>2
<1>9. l.active <=> pass.seen[1].path = 1
  BY <1>8
<1>10. ASSUME NEW i \in 1 .. n + 1
       PROVE  SoundListed(files[i]) /\ (files[i].active <=> i = n + 1)
  <2>1. CASE n = 0
    <3>1. k = 0 /\ i = 1
      BY <2>1, <1>6
    <3>2. l.active /\ files[i] = l
      BY <2>1, <3>1, <1>3, <1>6, <1>7, <1>8, <1>9
    <3> QED
      BY <2>1, <3>1, <3>2
  <2>2. CASE n # 0
    <3>1. ~ l.active
      BY <2>2, <1>3, <1>6, <1>8, <1>9
    <3>2. pass.files[n].active
      BY <2>2, <1>3, <1>5, <1>6
    <3>3. k # n
      <4>1. ~ SortsBefore(pass.files[n], l)
        BY <3>1, <3>2 DEF SortsBefore
      <4> QED
        BY <4>1, <2>2, <1>4, <1>6
    <3>4. CASE i \in 1 .. k
      <4>1. i \in DOMAIN pass.files /\ i # n /\ i # n + 1
        BY <3>3, <3>4, <1>6
      <4> QED
        BY <3>4, <4>1, <1>3, <1>5, <1>7
    <3>5. CASE i = k + 1
      <4>1. i # n + 1
        BY <3>3, <3>5, <1>6
      <4> QED
        BY <3>1, <3>5, <4>1, <1>7
    <3>6. CASE i \in k + 2 .. n + 1
      <4>1. i - 1 \in DOMAIN pass.files /\ (i - 1 = n <=> i = n + 1)
        BY <3>6, <1>6
      <4> QED
        BY <3>6, <4>1, <1>3, <1>5, <1>7
    <3>7. i \in 1 .. k \/ i = k + 1 \/ i \in k + 2 .. n + 1
      BY <1>6
    <3> QED
      BY <3>4, <3>5, <3>6, <3>7
  <2> QED
    BY <2>1, <2>2
<1>11. PICK q : q = [pass EXCEPT !.files = files, !.seen = seen, !.size = 0, !.pc = pc]
  OBVIOUS
<1>12. pass' = q
  BY <1>4, <1>5, <1>11 DEF PassIs
<1>13. /\ q.pc = pc /\ q.seen = seen /\ q.files = files /\ q.found = pass.found
       /\ q.states = pass.states /\ q.logs = pass.logs
  BY <1>1, <1>11 DEF Passes
<1>14. q \in Passes
  <2>1. q.pc \in {"look", "match"} /\ files \in Seq(ListedFiles) /\ seen \in Seq(Entries)
    BY <1>5, <1>7, <1>8, <1>13
  <2> QED
    BY <2>1, <1>1, <1>11, <1>13 DEF Passes
<1>15. files # <<>>
  BY <1>6, <1>7, EmptySeq
<1>16. ActiveOnce(q)
  <2>1. \A j \in DOMAIN seen : seen[j].path # 1
    <3> TAKE j \in DOMAIN seen
    <3>1. j + 1 # 1 /\ j + 1 \in DOMAIN pass.seen /\ seen[j] = pass.seen[j + 1]
      BY <1>8
    <3> QED
      BY <3>1, <1>3
  <2>2. pc = "look" => seen # <<>>
    BY <1>5, <1>8
  <2>3. \A i \in DOMAIN files : files[i].active <=> i = Len(files)
    BY <1>7, <1>10
  <2>4. pc \in {"look", "match"}
    BY <1>5
  <2> QED
    BY <2>1, <2>2, <2>3, <2>4, <1>13, <1>15 DEF ActiveOnce
<1>17. SoundListing(q) /\ SoundMatches(q)
  <2>1. /\ DOMAIN q.found = {} /\ q.pc \in {"look", "match"} /\ q.found = <<>>
        /\ Len(q.found) = 0
    BY <1>3, <1>5, <1>13
  <2>2. \A j \in DOMAIN q.seen : SoundEntry(q.seen[j])
    BY <1>3, <1>8, <1>13
  <2>3. \A i \in DOMAIN q.files : SoundListed(q.files[i])
    BY <1>7, <1>10, <1>13
  <2>4. Len(q.found) < Len(q.files)
    BY <2>1, <1>6, <1>7, <1>13
  <2> QED
    BY <2>1, <2>2, <2>3, <2>4, <1>16 DEF SoundListing, SoundMatches
<1>18. SoundMade(q)
  BY <1>3, <1>5, <1>13, <1>14, NothingMade DEF Listing
<1>19. q.pc # "check"
  BY <1>5, <1>13
<1> QED
  BY <1>12, <1>14, <1>17, <1>18, <1>19, NextSound

LEMMA EnterUnreadSound ==
  ASSUME HostTrue, Sound, EnterUnread
  PROVE  HostTrue' /\ Sound'
<1>1. /\ pass.pc = "look" /\ MetadataOnly(Head(pass.seen)) /\ Enter(TRUE, 0, 0)
      /\ UNCHANGED <<hostVars, savedVars>>
  BY DEF EnterUnread
<1>2. pass \in Passes /\ pass.seen # <<>>
  BY <1>1, PassSound DEF ActiveOnce
<1>3. PICK e : e = Head(pass.seen)
  OBVIOUS
<1>4. e \in Entries
  <2>1. pass.seen \in Seq(Entries)
    BY <1>2 DEF Passes
  <2> QED
    BY <2>1, <1>2, <1>3, Rest
<1>5. PICK l : l = [path |-> e.path, file |-> e.file, active |-> e.path = 1, meta |-> TRUE,
                    size |-> 0, prefix |-> 0]
  OBVIOUS
<1>6. e.path > 1 /\ e.path \in Nat
  BY <1>1, <1>3, <1>4 DEF MetadataOnly, Entries
<1>7. l \in ListedFiles
  BY <1>4, <1>5 DEF ListedFiles, Entries
<1>8. SoundListed(l)
  <2>0. l.path = e.path /\ (l.active <=> e.path = 1) /\ l.meta /\ l.size = 0 /\ l.prefix = 0
    BY <1>5
  <2>1. l.path # 1 /\ ~ l.active /\ l.meta /\ l.size = 0 /\ l.prefix = 0
    BY <2>0, <1>6
  <2>2. 0 <= written
    BY FilesShape
  <2> QED
    BY <2>1, <2>2 DEF SoundListed
<1> QED
  BY <1>1, <1>3, <1>5, <1>7, <1>8, EnterSound

LEMMA MeasureArchiveSound ==
  ASSUME HostTrue, Sound, MeasureArchive
  PROVE  HostTrue' /\ Sound'
<1>1. /\ pass.pc = "look" /\ ~ MetadataOnly(Head(pass.seen)) /\ Head(pass.seen).file.gz = TRUE
      /\ PathExists(Head(pass.seen))
      /\ PassIs([pass EXCEPT !.pc = "sized", !.size = Length(AtPath(Head(pass.seen)))])
      /\ UNCHANGED <<hostVars, savedVars>>
  BY DEF MeasureArchive, LooksInto
<1>2. /\ pass \in Passes /\ SoundListing(pass) /\ SoundMatches(pass) /\ SoundMade(pass)
      /\ ActiveOnce(pass) /\ pass.seen # <<>>
  BY <1>1, PassSound DEF ActiveOnce
<1>3. PICK e, size : e = Head(pass.seen) /\ size = Length(AtPath(e))
  OBVIOUS
<1>4. e \in Entries
  <2>1. pass.seen \in Seq(Entries)
    BY <1>2 DEF Passes
  <2> QED
    BY <2>1, <1>2, <1>3, Rest
<1>5. size \in Nat \ {0} /\ size <= written
  <2>2. PICK f : f = AtPath(e)
    OBVIOUS
  <2>1. Exists(e.path, e.file.gz) /\ f = FileAt(e.path, e.file.gz) /\ e.file.gz \in BOOLEAN
    BY <2>2, <1>1, <1>3, <1>4 DEF PathExists, AtPath, Entries, Files
  <2>3. /\ Length(f) = f.last - f.first + 1 /\ f.first \in Nat /\ f.last \in Nat
        /\ 1 <= f.first /\ f.first <= f.last /\ f.last <= written /\ written \in Nat
    BY <2>1, FileFacts
  <2> QED
    BY <2>2, <2>3, <1>3
<1>6. PICK q : q = [pass EXCEPT !.pc = "sized", !.size = size]
  OBVIOUS
<1>7. pass' = q
  BY <1>1, <1>3, <1>6 DEF PassIs
<1>8. /\ q \in Passes /\ q.pc = "sized" /\ q.size = size /\ q.seen = pass.seen
      /\ q.files = pass.files /\ q.found = pass.found
      /\ q.states = pass.states /\ q.logs = pass.logs
  BY <1>2, <1>5, <1>6 DEF Passes
<1>9. ActiveOnce(q)
  BY <1>1, <1>2, <1>8 DEF ActiveOnce
<1>10. SoundListing(q) /\ SoundMatches(q)
  BY <1>1, <1>2, <1>3, <1>5, <1>8, <1>9 DEF SoundListing, SoundMatches
<1>11. SoundMade(q)
  <2>1. pass.states = <<>> /\ pass.logs = {}
    BY <1>1, <1>2 DEF SoundMade, Listing
  <2> QED
    BY <2>1, <1>8, NothingMade DEF Listing
<1> QED
  BY <1>1, <1>7, <1>8, <1>10, <1>11, NextSound

LEMMA ReadPrefixSound ==
  ASSUME HostTrue, Sound, ReadPrefix
  PROVE  HostTrue' /\ Sound'
<1>1. PICK e, size, prefix :
         /\ e = Head(pass.seen)
         /\ size = IF e.file.gz THEN pass.size ELSE Length(e.file)
         /\ prefix = IF size = 0 THEN 0 ELSE FirstRecord(AtPath(e))
  OBVIOUS
<1>2. /\ LooksInto(FALSE) \/ pass.pc = "sized"
      /\ PathExists(e) /\ Enter(FALSE, size, prefix)
      /\ UNCHANGED <<hostVars, savedVars>>
  BY <1>1 DEF ReadPrefix
<1>3. /\ pass.pc \in {"look", "sized"}
      /\ pass.pc = "look" => e.file.gz = FALSE
  BY <1>1, <1>2 DEF LooksInto
<1>4. /\ pass \in Passes /\ SoundListing(pass) /\ ActiveOnce(pass) /\ pass.seen # <<>>
  BY <1>3, PassSound DEF ActiveOnce
<1>5. ~ MetadataOnly(e)
  BY <1>1, <1>2, <1>4 DEF LooksInto, SoundListing
<1>6. e \in Entries /\ SoundEntry(e)
  <2>1. pass.seen \in Seq(Entries)
    BY <1>4 DEF Passes
  <2>2. e \in Entries /\ e = pass.seen[1] /\ 1 \in DOMAIN pass.seen
    BY <2>1, <1>1, <1>4, Rest
  <2> QED
    BY <2>2, <1>4 DEF SoundListing
<1>7. PICK f : f = AtPath(e)
  OBVIOUS
<1>8. /\ FirstRecord(f) = f.first /\ f.first \in Nat \ {0} /\ Newer(e.path, f.first)
      /\ e.path \in Nat \ {0} /\ written \in Nat
  <2>1. Exists(e.path, e.file.gz) /\ f = FileAt(e.path, e.file.gz) /\ e.file.gz \in BOOLEAN
    BY <1>2, <1>6, <1>7 DEF PathExists, AtPath, Entries, Files
  <2>2. /\ FirstRecord(f) = f.first /\ f.first \in Nat /\ 1 <= f.first /\ Newer(e.path, f.first)
        /\ e.path \in Nat \ {0} /\ written \in Nat
    BY <2>1, FileFacts
  <2> QED
    BY <2>2
<1>9. size \in Nat \ {0} /\ size <= written
  <2>1. CASE e.file.gz = FALSE
    <3>1. size = Length(e.file)
      BY <2>1, <1>1
    <3>2. e.file.first \in Nat /\ e.file.last \in Nat
      BY <1>6 DEF Entries, Files
    <3> QED
      BY <3>1, <3>2, <1>6, <1>8 DEF SoundEntry, Length
  <2>2. CASE e.file.gz # FALSE
    <3>1. pass.pc = "sized"
      BY <2>2, <1>3
    <3>2. e.file.gz = TRUE
      BY <2>2, <1>6 DEF Entries, Files
    <3>3. pass.size \in Nat
      BY <1>4 DEF Passes
    <3> QED
      BY <3>1, <3>2, <3>3, <1>1, <1>4 DEF SoundListing
  <2> QED
    BY <2>1, <2>2
<1>10. PICK l : l = [path |-> e.path, file |-> e.file, active |-> e.path = 1, meta |-> FALSE,
                     size |-> size, prefix |-> prefix]
  OBVIOUS
<1>11. prefix = f.first
  BY <1>1, <1>7, <1>8, <1>9
<1>12. l \in ListedFiles
  BY <1>6, <1>8, <1>9, <1>10, <1>11 DEF ListedFiles, Entries
<1>13. SoundListed(l)
  <2>1. /\ l.path = e.path /\ ~ l.meta /\ l.size = size /\ l.prefix = f.first
        /\ l.active <=> e.path = 1
    BY <1>10, <1>11
  <2>2. ASSUME cursor = NoCursor
        PROVE  e.path = 1
    <3>1. ~ e.path > 1
      BY <2>2, <1>5 DEF MetadataOnly
    <3> QED
      BY <3>1, <1>8
  <2> QED
    BY <2>1, <2>2, <1>8, <1>9 DEF SoundListed
<1> QED
  BY <1>1, <1>2, <1>3, <1>10, <1>12, <1>13, EnterSound
\* The state a file is matched with is one that was free and a candidate.
LEMMA MatchOfFacts ==
  ASSUME DOMAIN States \subseteq Nat \ {0}, NEW l, NEW taken, NEW k, k = MatchOf(l, taken), k # 0
  PROVE  /\ k \in DOMAIN States \ taken /\ Candidate(States[k], l)
         /\ l.meta \/ CheckpointHolds(States[k], l)
<1> DEFINE fit == {j \in DOMAIN States \ taken :
                      Candidate(States[j], l) /\ (l.meta \/ CheckpointHolds(States[j], l))}
           same == {j \in fit : States[j].id = l.file.id}
<1>1. ASSUME NEW K, K \subseteq fit, K # {}
      PROVE  (CHOOSE j \in K : \A i \in K : j <= i) \in fit
  <2>1. K \subseteq Nat
    BY <1>1
  <2>2. \E j \in K : \A i \in K : j <= i
    BY <2>1, <1>1, LeastOf
  <2> QED
    BY <2>2, <1>1
<1>2. k = IF same # {} THEN CHOOSE j \in same : \A i \in same : j <= i
          ELSE IF fit = {} THEN 0 ELSE CHOOSE j \in fit : \A i \in fit : j <= i
  BY DEF MatchOf
<1>3. k \in fit
  <2>1. CASE same # {}
    <3>1. same \subseteq fit
      OBVIOUS
    <3> QED
      BY <2>1, <3>1, <1>1, <1>2
  <2>2. CASE same = {}
    <3>1. fit # {} /\ k = CHOOSE j \in fit : \A i \in fit : j <= i
      BY <2>2, <1>2
    <3> QED
      BY <3>1, <1>1
  <2> QED
    BY <2>1, <2>2
<1> QED
  BY <1>3

LEMMA MatchNextSound ==
  ASSUME HostTrue, Sound, MatchNext
  PROVE  HostTrue' /\ Sound'
<1>1. pass.pc = "match" /\ UNCHANGED <<hostVars, savedVars>>
  BY DEF MatchNext
<1>2. /\ pass \in Passes /\ SoundListing(pass) /\ SoundMatches(pass) /\ SoundMade(pass)
      /\ ActiveOnce(pass) /\ SoundRows
  BY <1>1, PassSound
<1>3. PICK l, taken, k : /\ l = ToMatch /\ taken = Range(pass.found) /\ k = MatchOf(l, taken)
  OBVIOUS
<1>4. PICK found : found = Append(pass.found, k)
  OBVIOUS
<1>5. PICK gap \in BOOLEAN : gap = (Len(found) = Len(pass.files) /\ Gap(found))
  OBVIOUS
<1>6. PICK pc : pc = IF Len(found) = Len(pass.files) THEN "next" ELSE "match"
  OBVIOUS
<1>7. PICK q : q = [pass EXCEPT !.found = found, !.gap = gap, !.pc = pc]
  OBVIOUS
<1>8. pass' = q
  BY <1>1, <1>3, <1>4, <1>5, <1>6, <1>7 DEF MatchNext, PassIs
<1>9. /\ pass.found \in Seq(Nat) /\ Len(pass.found) \in Nat /\ Len(pass.files) \in Nat
      /\ DOMAIN pass.found = 1 .. Len(pass.found) /\ Len(pass.found) < Len(pass.files)
  <2>1. pass.found \in Seq(Nat) /\ pass.files \in Seq(ListedFiles)
    BY <1>2 DEF Passes
  <2> QED
    BY <2>1, <1>1, <1>2 DEF SoundMatches
<1>10. DOMAIN States \subseteq Nat \ {0}
  BY <1>2, StatesSound
<1>11. /\ k \in Nat
       /\ k # 0 => k \in DOMAIN States \ taken /\ Candidate(States[k], l)
  BY <1>3, <1>10, MatchOfFacts
<1>12. /\ found \in Seq(Nat) /\ Len(found) = Len(pass.found) + 1
       /\ found[Len(pass.found) + 1] = k
       /\ DOMAIN found = 1 .. Len(pass.found) + 1
       /\ \A i \in DOMAIN pass.found : found[i] = pass.found[i]
  <2>1. found = pass.found \o <<k>>
    BY <1>4, <1>9, <1>11, AppendIsConcat
  <2> QED
    BY <2>1, <1>9, <1>11, Joined
<1>13. /\ q.pc = pc /\ q.found = found /\ q.files = pass.files /\ q.seen = pass.seen
       /\ q.states = pass.states /\ q.logs = pass.logs
  BY <1>2, <1>7 DEF Passes
<1>14. q \in Passes
  <2>1. pc \in {"match", "next"}
    BY <1>6
  <2> QED
    BY <2>1, <1>2, <1>5, <1>7, <1>12, <1>13 DEF Passes
<1>15. pass.files # <<>> /\ pc \in {"match", "next"}
  BY <1>1, <1>2, <1>6 DEF ActiveOnce
<1>16. SoundListing(q)
  <2>1. ActiveOnce(q)
    BY <1>2, <1>13, <1>15 DEF ActiveOnce
  <2> QED
    BY <2>1, <1>2, <1>13, <1>15 DEF SoundListing
<1>17. SoundMatches(q)
  <2>1. ASSUME NEW i \in DOMAIN found, found[i] # 0
        PROVE  /\ found[i] \in DOMAIN States /\ Candidate(States[found[i]], pass.files[i])
               /\ \A j \in DOMAIN found : found[j] = found[i] => j = i
    <3>1. CASE i \in DOMAIN pass.found
      <4>1. /\ found[i] = pass.found[i] /\ found[i] \in taken
        BY <3>1, <1>3, <1>12 DEF Range
      <4>2. ASSUME NEW j \in DOMAIN found, found[j] = found[i]
            PROVE  j = i
        <5>1. CASE j \in DOMAIN pass.found
          BY <3>1, <4>1, <4>2, <5>1, <2>1, <1>2, <1>12 DEF SoundMatches
        <5>2. CASE j = Len(pass.found) + 1
          BY <4>1, <4>2, <5>2, <2>1, <1>11, <1>12
        <5> QED
          BY <5>1, <5>2, <1>9, <1>12
      <4> QED
        BY <3>1, <4>1, <4>2, <2>1, <1>2 DEF SoundMatches
    <3>2. CASE i = Len(pass.found) + 1
      <4>1. found[i] = k /\ k # 0 /\ pass.files[i] = l
        BY <3>2, <2>1, <1>3, <1>12 DEF ToMatch
      <4>2. \A j \in DOMAIN pass.found : found[j] # k
        BY <4>1, <1>3, <1>11, <1>12 DEF Range
      <4>3. \A j \in DOMAIN found : found[j] = k => j = i
        BY <4>2, <3>2, <1>9, <1>12
      <4> QED
        BY <4>1, <4>3, <1>11
    <3> QED
      BY <3>1, <3>2, <1>9, <1>12
  <2>2. /\ pc = "match" => Len(found) < Len(pass.files)
        /\ pc = "next" => Len(found) = Len(pass.files)
    BY <1>6, <1>9, <1>12
  <2> QED
    BY <2>1, <2>2, <1>13, <1>15 DEF SoundMatches
<1>18. SoundMade(q)
  <2>1. pass.states = <<>> /\ pass.logs = {}
    BY <1>1, <1>2 DEF SoundMade, Listing
  <2> QED
    BY <2>1, <1>13, <1>14, NothingMade
<1>19. q.pc # "check"
  BY <1>13, <1>15
<1> QED
  BY <1>1, <1>8, <1>14, <1>16, <1>17, <1>18, <1>19, NextSound
-----------------------------------------------------------------------------
(* Generations and states.                                                 *)

LEMMA RangeFinite ==
  ASSUME NEW S, NEW q \in Seq(S)
  PROVE  IsFiniteSet(Range(q))
<1>1. Len(q) \in Nat /\ DOMAIN q = 1 .. Len(q) /\ q \in [DOMAIN q -> Range(q)]
  BY DEF Range
<1>2. q \in Surjection(DOMAIN q, Range(q))
  BY <1>1 DEF Surjection, Range
<1>3. IsFiniteSet(DOMAIN q)
  <2>1. \A n \in Nat : IsFiniteSet(1 .. n)
    BY FS_Interval
  <2> QED
    BY <1>1, <2>1
<1> QED
  BY <1>2, <1>3, FS_Surjection

\* A generation has a number that no state and no row has.
LEMMA NewGenerationNew ==
  ASSUME SoundRows, pass \in Passes
  PROVE  NewGeneration \in Nat /\ NewGeneration \notin LogGenerations
<1> DEFINE U == Range(States) \cup Range(pass.states) \cup stored
           f == [s \in U |-> s.gen]
           c == Cardinality(LogGenerations)
<1>1. IsFiniteSet(U)
  <2>1. pass.states \in Seq(FileStates)
    BY DEF Passes
  <2>2. IsFiniteSet(Range(States)) /\ IsFiniteSet(Range(pass.states)) /\ IsFiniteSet(stored)
    BY <2>1, RangeFinite, StatesSound DEF SoundRows
  <2> QED
    BY <2>2, FS_Union
<1>2. f \in Surjection(U, LogGenerations)
  BY DEF Surjection, LogGenerations
<1>3. IsFiniteSet(LogGenerations) /\ c \in Nat
  <2> HIDE DEF U, f
  <2> QED
    BY <1>1, <1>2, FS_Surjection, FS_CardinalityType
<1>4. \E g \in 1 .. c + 1 : g \notin LogGenerations
  <2>1. SUFFICES ASSUME 1 .. c + 1 \in SUBSET LogGenerations
                 PROVE  FALSE
    OBVIOUS
  <2>2. Cardinality(1 .. c + 1) = c + 1
    BY <1>3, FS_Interval
  <2>3. Cardinality(1 .. c + 1) <= c
    BY <2>1, <1>3, FS_Subset
  <2> HIDE DEF c
  <2> QED
    BY <2>2, <2>3, <1>3
<1>5. NewGeneration \in 1 .. c + 1 /\ NewGeneration \notin LogGenerations
  BY <1>4 DEF NewGeneration
<1> HIDE DEF c
<1> QED
  BY <1>3, <1>5

\* The state s with what was listed of its file.
WithFile(s, l) ==
    [s EXCEPT !.id = l.file.id, !.stamp = FileStamp(l.file), !.meta = l.meta,
              !.done = @ /\ ~ l.active]

LEMMA Refreshed ==
  ASSUME NEW s \in FileStates, NEW l \in ListedFiles, NEW t, t = WithFile(s, l)
  PROVE  /\ t \in FileStates
         /\ t.id = l.file.id /\ t.stamp = FileStamp(l.file) /\ (t.meta <=> l.meta)
         /\ (t.done <=> s.done /\ ~ l.active)
         /\ t.gen = s.gen /\ t.offset = s.offset /\ t.prefix = s.prefix
         /\ t.stamp[2] = l.file.first /\ t.stamp[3] = l.file.last
<1>1. PICK f \in Files : f = l.file
  BY DEF ListedFiles
<1>2. FileStamp(f) \in BOOLEAN \X Nat \X Nat /\ f.id \in Inodes /\ f.first \in Nat /\ f.last \in Nat
      /\ FileStamp(f)[2] = f.first /\ FileStamp(f)[3] = f.last
  BY DEF Files, FileStamp
<1>3. l.meta \in BOOLEAN /\ l.active \in BOOLEAN
  BY DEF ListedFiles
<1>4. PICK stamp, done : stamp = FileStamp(f) /\ done = (s.done /\ ~ l.active)
  OBVIOUS
<1>5. done \in BOOLEAN
  BY <1>4
<1>6. PICK t1 : t1 = [s EXCEPT !.id = f.id]
  OBVIOUS
<1>7. t1 \in FileStates /\ t1.id = f.id /\ t1.done = s.done
      /\ t1.gen = s.gen /\ t1.offset = s.offset /\ t1.prefix = s.prefix
  BY <1>2, <1>6 DEF FileStates
<1>8. PICK t2 : t2 = [t1 EXCEPT !.stamp = stamp]
  OBVIOUS
<1>9. t2 \in FileStates /\ t2.id = f.id /\ t2.stamp = stamp /\ t2.done = s.done
      /\ t2.gen = s.gen /\ t2.offset = s.offset /\ t2.prefix = s.prefix
  BY <1>2, <1>4, <1>7, <1>8 DEF FileStates
<1>10. PICK t3 : t3 = [t2 EXCEPT !.meta = l.meta]
  OBVIOUS
<1>11. t3 \in FileStates /\ t3.id = f.id /\ t3.stamp = stamp /\ t3.meta = l.meta
       /\ t3.gen = s.gen /\ t3.offset = s.offset /\ t3.prefix = s.prefix
  BY <1>3, <1>9, <1>10 DEF FileStates
<1>12. t = [t3 EXCEPT !.done = done]
  BY <1>1, <1>4, <1>6, <1>8, <1>10 DEF WithFile
<1>13. t \in FileStates /\ t.id = f.id /\ t.stamp = stamp /\ t.meta = l.meta /\ t.done = done
       /\ t.gen = s.gen /\ t.offset = s.offset /\ t.prefix = s.prefix
  BY <1>5, <1>11, <1>12 DEF FileStates
<1> QED
  BY <1>1, <1>2, <1>4, <1>13

LEMMA TailShort ==
  ASSUME NEW l \in ListedFiles
  PROVE  Tail1(l) \in Nat /\ Tail1(l) <= l.size /\ l.size \in Nat
<1>1. l.size \in Nat /\ TailLength \in Nat
  BY RemoteLogAssumption DEF ListedFiles
<1> QED
  BY <1>1 DEF Tail1

\* The state of a file that continues none of the cursor.
FirstState(g, l) ==
    [gen |-> g, id |-> l.file.id,
     offset |-> IF cursor = NoCursor /\ l.active THEN Tail1(l) ELSE 0,
     prefix |-> l.prefix, done |-> cursor = NoCursor /\ ~ l.active,
     stamp |-> FileStamp(l.file), meta |-> l.meta]

LEMMA FirstStateShape ==
  ASSUME NEW l \in ListedFiles, NEW g \in Nat, NEW t, t = FirstState(g, l)
  PROVE  /\ t \in FileStates /\ t.gen = g /\ t.id = l.file.id /\ t.stamp = FileStamp(l.file)
         /\ t.meta = l.meta /\ t.prefix = l.prefix
         /\ t.offset = (IF cursor = NoCursor /\ l.active THEN Tail1(l) ELSE 0)
         /\ (t.done <=> cursor = NoCursor /\ ~ l.active)
<1>1. PICK f \in Files : f = l.file
  BY DEF ListedFiles
<1>2. FileStamp(f) \in BOOLEAN \X Nat \X Nat /\ f.id \in Inodes
  BY DEF Files, FileStamp
<1>3. l.meta \in BOOLEAN /\ l.active \in BOOLEAN /\ l.prefix \in Nat
  BY DEF ListedFiles
<1>4. PICK n, done, stamp :
         /\ n = IF cursor = NoCursor /\ l.active THEN Tail1(l) ELSE 0
         /\ done = (cursor = NoCursor /\ ~ l.active)
         /\ stamp = FileStamp(f)
  OBVIOUS
<1>5. n \in Nat /\ done \in BOOLEAN
  BY <1>4, TailShort
<1>6. t = [gen |-> g, id |-> f.id, offset |-> n, prefix |-> l.prefix, done |-> done,
           stamp |-> stamp, meta |-> l.meta]
  BY <1>1, <1>4 DEF FirstState
<1>7. /\ t \in FileStates /\ t.gen = g /\ t.id = f.id /\ t.offset = n
      /\ t.prefix = l.prefix /\ t.done = done /\ t.stamp = stamp /\ t.meta = l.meta
  BY <1>2, <1>3, <1>4, <1>5, <1>6 DEF FileStates
<1> QED
  BY <1>1, <1>4, <1>7

\* The state a file is read from continues that of the cursor, or is a first one.
LEMMA StateOfIs ==
  ASSUME NEW l \in ListedFiles, SoundListed(l), NEW m, m = CurrentMatch,
         NEW g, g = NewGeneration, NEW s, s = StateOf(l)
  PROVE  IF m # 0 THEN s = WithFile(States[m], l) ELSE s = FirstState(g, l)
<1>1. CASE m # 0
  BY <1>1 DEF StateOf, WithFile
<1>2. CASE m = 0
  <2>1. l.size = 0 \/ cursor # NoCursor \/ l.active
    BY DEF SoundListed
  <2>2. l.active \in BOOLEAN
    BY DEF ListedFiles
  <2>3. PICK n, done, stamp :
           /\ n = IF cursor = NoCursor /\ l.active THEN Tail1(l) ELSE 0
           /\ done = (cursor = NoCursor /\ ~ l.active)
           /\ stamp = FileStamp(l.file)
    OBVIOUS
  <2>4. PICK u : u = [gen |-> g, id |-> l.file.id, offset |-> n, prefix |-> l.prefix,
                      done |-> done, stamp |-> stamp, meta |-> l.meta]
    OBVIOUS
  <2>5. FirstState(g, l) = u
    BY <2>3, <2>4 DEF FirstState
  <2>6. PICK v : v = [gen |-> g, id |-> l.file.id, offset |-> n, prefix |-> l.prefix,
                      done |-> FALSE, stamp |-> stamp, meta |-> l.meta]
    OBVIOUS
  <2>7. CASE cursor # NoCursor \/ l.active
    <3>1. done = FALSE /\ v = u
      BY <2>3, <2>4, <2>6, <2>7
    <3>2. s = WithFile(u, l)
      BY <3>1, <2>3, <2>6, <2>7, <1>2 DEF StateOf, WithFile, NewState
    <3>3. s = [u EXCEPT !.id = l.file.id, !.stamp = stamp, !.meta = l.meta, !.done = FALSE]
      BY <3>1, <3>2, <2>3, <2>4 DEF WithFile
    <3>4. s = u
      BY <3>1, <3>3, <2>4
    <3> QED
      BY <3>4, <2>5, <1>2
  <2>8. CASE cursor = NoCursor /\ ~ l.active
    <3>1. done = TRUE /\ n = 0 /\ l.size = 0
      BY <2>1, <2>3, <2>8
    <3>2. s = WithFile([v EXCEPT !.done = TRUE], l)
      BY <3>1, <2>3, <2>6, <2>8, <1>2 DEF StateOf, WithFile, NewState
    <3>3. [v EXCEPT !.done = TRUE] = u
      <4>1. [v EXCEPT !.done = done] = u
        BY <2>4, <2>6
      <4> QED
        BY <3>1, <4>1
    <3>4. s = [u EXCEPT !.id = l.file.id, !.stamp = stamp, !.meta = l.meta, !.done = TRUE]
      BY <3>1, <3>2, <3>3, <2>3, <2>4, <2>8 DEF WithFile
    <3>5. s = u
      BY <3>1, <3>4, <2>4
    <3> QED
      BY <3>5, <2>5, <1>2
  <2> QED
    BY <2>7, <2>8
<1> QED
  BY <1>1, <1>2

\* The file that is read next, and what is matched with it.
LEMMA CurrentFacts ==
  ASSUME Sound, pass.pc \in {"next", "check"}, MoreFiles,
         NEW i, i = Len(pass.states) + 1, NEW l, l = Current, NEW m, m = CurrentMatch
  PROVE  /\ pass \in Passes /\ pass.files \in Seq(ListedFiles) /\ pass.states \in Seq(FileStates)
         /\ pass.found \in Seq(Nat) /\ Len(pass.states) \in Nat
         /\ DOMAIN pass.states = 1 .. Len(pass.states)
         /\ DOMAIN pass.files = 1 .. Len(pass.files) /\ DOMAIN pass.found = DOMAIN pass.files
         /\ DOMAIN pass.states \subseteq DOMAIN pass.files
         /\ i \in DOMAIN pass.files /\ i \notin DOMAIN pass.states
         /\ l = pass.files[i] /\ m = pass.found[i] /\ l \in ListedFiles /\ SoundListed(l)
         /\ l.active => l = Last(pass.files)
         /\ m # 0 => m \in DOMAIN States /\ Candidate(States[m], l)
         /\ \A j \in DOMAIN pass.states :
               pass.found[j] # 0 => pass.found[j] \in DOMAIN States /\ pass.found[j] # m
<1>1. /\ pass \in Passes /\ SoundListing(pass) /\ SoundMatches(pass) /\ ActiveOnce(pass)
  BY PassSound
<1>2. pass.files \in Seq(ListedFiles) /\ pass.states \in Seq(FileStates) /\ pass.found \in Seq(Nat)
  BY <1>1 DEF Passes
<1>3. /\ Len(pass.states) \in Nat /\ Len(pass.files) \in Nat
      /\ Len(pass.states) < Len(pass.files) /\ Len(pass.found) = Len(pass.files)
      /\ DOMAIN pass.states = 1 .. Len(pass.states)
      /\ DOMAIN pass.files = 1 .. Len(pass.files) /\ DOMAIN pass.found = DOMAIN pass.files
  BY <1>1, <1>2 DEF MoreFiles, SoundMatches
<1>4. i \in DOMAIN pass.files /\ i \notin DOMAIN pass.states
      /\ DOMAIN pass.states \subseteq DOMAIN pass.files
  BY <1>3
<1>5. l = pass.files[i] /\ m = pass.found[i] /\ l \in ListedFiles
  BY <1>2, <1>4 DEF Current, CurrentMatch
<1>6. SoundListed(l) /\ (l.active <=> i = Len(pass.files))
  BY <1>1, <1>4, <1>5 DEF SoundListing, ActiveOnce
<1>7. l.active => l = Last(pass.files)
  BY <1>5, <1>6 DEF Last
<1>8. /\ m # 0 => m \in DOMAIN States /\ Candidate(States[m], l)
      /\ \A j \in DOMAIN pass.states :
            pass.found[j] # 0 => pass.found[j] \in DOMAIN States /\ pass.found[j] # m
  <2>1. \A j \in DOMAIN pass.found : pass.found[j] # 0 =>
           /\ pass.found[j] \in DOMAIN States /\ Candidate(States[pass.found[j]], pass.files[j])
           /\ \A h \in DOMAIN pass.found : pass.found[h] = pass.found[j] => h = j
    BY <1>1 DEF SoundMatches
  <2> QED
    BY <2>1, <1>3, <1>4, <1>5
<1> QED
  BY <1>1, <1>2, <1>3, <1>4, <1>5, <1>6, <1>7, <1>8

\* The state a file is read from is sound, under a generation of its own.
LEMMA StateOfSound ==
  ASSUME HostTrue, Sound, pass.pc \in {"next", "check"}, MoreFiles,
         NEW l, l = Current, NEW m, m = CurrentMatch, NEW s, s = StateOf(l)
  PROVE  /\ s \in FileStates /\ s.offset \in Nat
         /\ s.id = l.file.id /\ s.stamp = FileStamp(l.file) /\ s.meta = l.meta
         /\ SoundState(s, PassBase(pass), stored \cup pass.logs)
         /\ IF m # 0 THEN s.gen = States[m].gen
            ELSE /\ \A k \in DOMAIN States : s.gen # States[k].gen
                 /\ \A x \in stored : s.gen # x.gen
         /\ \A j \in DOMAIN pass.states : s.gen # pass.states[j].gen
         /\ \A x \in pass.logs : s.gen # x.gen
         /\ ~ l.meta => s.prefix # 0
         /\ m # 0 => s = WithFile(States[m], l)
         /\ m = 0 => \E g \in Nat : s = FirstState(g, l)
<1>1. PICK i : i = Len(pass.states) + 1
  OBVIOUS
<1>2. /\ pass \in Passes /\ DOMAIN pass.states \subseteq DOMAIN pass.files
      /\ l \in ListedFiles /\ SoundListed(l)
      /\ l.active => l = Last(pass.files)
  BY <1>1, CurrentFacts
<1>3. /\ m # 0 => m \in DOMAIN States /\ Candidate(States[m], l)
      /\ \A j \in DOMAIN pass.states :
            pass.found[j] # 0 => pass.found[j] \in DOMAIN States /\ pass.found[j] # m
  BY <1>1, CurrentFacts
<1>4. SoundRows /\ SoundCursor /\ SoundMade(pass)
  BY PassSound
<1>5. PICK g \in Nat : g = NewGeneration /\ g \notin LogGenerations
  BY <1>2, <1>4, NewGenerationNew
<1>6. IF m # 0 THEN s = WithFile(States[m], l) ELSE s = FirstState(g, l)
  BY <1>2, <1>5, StateOfIs
<1>7. \A k \in DOMAIN States : States[k] \in FileStates
  BY <1>4, StatesSound
<1>8. \A x \in pass.logs : \E j \in DOMAIN pass.states : x.gen = pass.states[j].gen
  BY <1>4 DEF SoundMade
<1>9. written \in Nat /\ l.size \in Nat /\ l.prefix \in Nat /\ l.meta \in BOOLEAN
  BY <1>2, FilesShape DEF ListedFiles
<1>10. CASE m # 0
  <2>1. PICK old \in FileStates : old = States[m]
    BY <1>3, <1>7, <1>10
  <2>2. /\ s \in FileStates
        /\ s.id = l.file.id /\ s.stamp = FileStamp(l.file) /\ (s.meta <=> l.meta)
        /\ s.gen = old.gen /\ s.offset = old.offset /\ s.prefix = old.prefix
    BY <2>1, <1>2, <1>6, <1>10, Refreshed
  <2>3. s.meta = l.meta
    BY <2>2, <1>9 DEF FileStates
  <2>4. SoundState(old, baseline, stored) /\ Candidate(old, l)
    BY <2>1, <1>3, <1>4, <1>10 DEF SoundCursor
  <2>5. PassBase(pass) = baseline
    BY <1>3, <1>10 DEF PassBase, States
  <2>6. ASSUME NEW j \in DOMAIN pass.states
        PROVE  s.gen # pass.states[j].gen
    <3>1. PICK h : h = pass.found[j]
      OBVIOUS
    <3>2. /\ h # 0 => pass.states[j].gen = States[h].gen /\ h \in DOMAIN States /\ h # m
          /\ h = 0 => \A k \in DOMAIN States : pass.states[j].gen # States[k].gen
      BY <3>1, <1>3, <1>4 DEF SoundMade
    <3>3. h # 0 => States[h].gen # States[m].gen
      BY <3>2, <1>3, <1>4, <1>10 DEF SoundCursor
    <3> QED
      BY <3>2, <3>3, <2>1, <2>2, <1>3, <1>10
  <2>7. \A x \in pass.logs : s.gen # x.gen
    BY <2>6, <1>8
  <2>8. s.prefix = 0 => l.meta
    BY <2>2, <2>4 DEF SoundState, Candidate
  <2>9. PICK rows, kept, base : rows = stored /\ kept = stored \cup pass.logs /\ base = baseline
    OBVIOUS
  <2>10. SoundState(old, base, rows) /\ rows \subseteq kept
         /\ \A x \in kept : x \in rows \/ x.gen # s.gen
    BY <2>4, <2>7, <2>9
  <2>11. SoundState(s, base, kept)
    BY <2>2, <2>8, <2>10 DEF SoundState
  <2>12. SoundState(s, PassBase(pass), stored \cup pass.logs)
    BY <2>5, <2>9, <2>11
  <2>13. s.offset \in Nat
    BY <2>2 DEF FileStates
  <2> QED
    BY <2>1, <2>2, <2>3, <2>6, <2>7, <2>8, <2>12, <2>13, <1>6, <1>10
<1>11. CASE m = 0
  <2>1. /\ s \in FileStates /\ s.gen = g /\ s.id = l.file.id /\ s.stamp = FileStamp(l.file)
        /\ s.meta = l.meta /\ s.prefix = l.prefix
        /\ s.offset = (IF cursor = NoCursor /\ l.active THEN Tail1(l) ELSE 0)
    BY <1>2, <1>6, <1>11, FirstStateShape
  <2>2. /\ \A k \in DOMAIN States : s.gen # States[k].gen
        /\ \A x \in stored : s.gen # x.gen
        /\ \A j \in DOMAIN pass.states : s.gen # pass.states[j].gen
    BY <2>1, <1>5 DEF LogGenerations, Range
  <2>3. \A x \in pass.logs : s.gen # x.gen
    BY <2>2, <1>8
  <2>4. s.offset \in Nat /\ s.offset <= written
    BY <2>1, <1>2, <1>9, TailShort DEF SoundListed
  <2>5. s.prefix = 0 <=> l.meta
    BY <2>1, <1>2 DEF SoundListed
  <2>6. s.prefix <= written
    BY <2>1, <1>2, <1>9 DEF SoundListed, Newer
  <2>7. l.meta => s.offset = 0
    BY <2>1, <1>2 DEF SoundListed
  <2>8. ASSUME NEW r \in s.prefix .. s.prefix + s.offset - 1, r >= PassBase(pass)
        PROVE  FALSE
    <3>1. s.prefix \in Nat /\ r \in Int
      BY <2>1, <2>8, <1>9
    <3>2. s.offset # 0
      BY <3>1, <2>4, <2>8
    <3>3. cursor = NoCursor /\ l.active /\ s.offset = Tail1(l)
      BY <3>2, <2>1
    <3>4. PassBase(pass) = s.prefix + s.offset
      BY <3>3, <2>1, <1>2 DEF PassBase
    <3> QED
      BY <3>1, <3>4, <2>4, <2>8
  <2>9. PICK kept : kept = stored \cup pass.logs
    OBVIOUS
  <2>10. PICK base : base = PassBase(pass)
    OBVIOUS
  <2>11. SoundState(s, base, kept)
    <3>1. \A x \in kept : s.gen # x.gen
      BY <2>2, <2>3, <2>9
    <3>2. \A r \in s.prefix .. s.prefix + s.offset - 1 : ~ (r >= base)
      BY <2>8, <2>10
    <3> QED
      BY <3>1, <3>2, <2>1, <2>4, <2>5, <2>6, <2>7 DEF SoundState
  <2> QED
    BY <2>1, <2>2, <2>3, <2>4, <2>5, <2>9, <2>10, <2>11, <1>6, <1>11
<1> QED
  BY <1>10, <1>11

-----------------------------------------------------------------------------
(* What is sound stays so: reading and committing.                         *)

\* One more file is through: its state, and the rows that were read of it.
ThroughWith(q, s, rows) ==
    /\ q \in Passes /\ q.pc = "next" /\ q.files = pass.files /\ q.found = pass.found
    /\ q.seen = pass.seen /\ q.states = pass.states \o <<s>> /\ q.logs = pass.logs \cup rows

LEMMA ThroughSound ==
  ASSUME HostTrue, Sound, UNCHANGED <<hostVars, savedVars>>,
         pass.pc \in {"next", "check"}, MoreFiles,
         NEW s \in FileStates, NEW rows, IsFiniteSet(rows),
         s.gen = StateOf(Current).gen,
         SoundState(s, PassBase(pass), stored \cup pass.logs \cup rows),
         \A x \in rows : x.gen = s.gen /\ x.record <= written,
         NEW q, pass' = q, ThroughWith(q, s, rows)
  PROVE  HostTrue' /\ Sound'
<1>1. PICK i, l, m, t : /\ i = Len(pass.states) + 1 /\ l = Current /\ m = CurrentMatch
                        /\ t = StateOf(l)
  OBVIOUS
<1>2. /\ pass \in Passes /\ SoundListing(pass) /\ SoundMatches(pass) /\ SoundMade(pass)
      /\ ActiveOnce(pass)
  BY PassSound
<1>3. /\ pass.states \in Seq(FileStates) /\ Len(pass.states) \in Nat
      /\ DOMAIN pass.states = 1 .. Len(pass.states)
      /\ DOMAIN pass.files = 1 .. Len(pass.files) /\ DOMAIN pass.found = DOMAIN pass.files
      /\ i \in DOMAIN pass.files /\ m = pass.found[i] /\ Len(pass.files) \in Nat
  <2>1. pass.files \in Seq(ListedFiles)
    BY <1>1, CurrentFacts
  <2> QED
    BY <2>1, <1>1, CurrentFacts
<1>4. /\ IF m # 0 THEN s.gen = States[m].gen
         ELSE /\ \A k \in DOMAIN States : s.gen # States[k].gen
              /\ \A x \in stored : s.gen # x.gen
      /\ \A j \in DOMAIN pass.states : s.gen # pass.states[j].gen
  <2>1. s.gen = t.gen
    BY <1>1
  <2>2. /\ IF m # 0 THEN t.gen = States[m].gen
           ELSE /\ \A k \in DOMAIN States : t.gen # States[k].gen
                /\ \A x \in stored : t.gen # x.gen
        /\ \A j \in DOMAIN pass.states : t.gen # pass.states[j].gen
    BY <1>1, StateOfSound
  <2> QED
    BY <2>1, <2>2
<1>5. /\ q \in Passes /\ q.pc = "next" /\ q.files = pass.files /\ q.found = pass.found
      /\ q.seen = pass.seen /\ q.states = pass.states \o <<s>> /\ q.logs = pass.logs \cup rows
  BY DEF ThroughWith
<1>6. PICK states : states = q.states
  OBVIOUS
<1>7. /\ states \in Seq(FileStates) /\ Len(states) = i /\ DOMAIN states = 1 .. i
      /\ states[i] = s /\ \A j \in DOMAIN pass.states : states[j] = pass.states[j]
      /\ \A j \in DOMAIN states : j \in DOMAIN pass.states \/ j = i
      /\ i \notin DOMAIN pass.states
  <2>1. states = pass.states \o <<s>>
    BY <1>5, <1>6
  <2>2. /\ states \in Seq(FileStates) /\ Len(states) = Len(pass.states) + 1
        /\ DOMAIN states = 1 .. Len(pass.states) + 1
        /\ states[Len(pass.states) + 1] = s
        /\ \A j \in DOMAIN pass.states : states[j] = pass.states[j]
    BY <2>1, <1>3, Joined
  <2> QED
    BY <2>2, <1>1, <1>3
<1>8. SoundListing(q) /\ SoundMatches(q)
  <2>1. pass.files # <<>> /\ Len(pass.found) = Len(pass.files)
    BY <1>2 DEF ActiveOnce, SoundMatches
  <2>2. ActiveOnce(q)
    BY <2>1, <1>2, <1>5 DEF ActiveOnce
  <2>3. SoundListing(q)
    BY <2>2, <1>2, <1>5 DEF SoundListing
  <2>4. SoundMatches(q)
    BY <2>1, <1>2, <1>5 DEF SoundMatches
  <2> QED
    BY <2>3, <2>4
<1>9. PICK old, kept, base : old = stored \cup pass.logs /\ kept = stored \cup pass.logs \cup rows
                             /\ base = PassBase(pass)
  OBVIOUS
<1>10. \A j \in DOMAIN states : SoundState(states[j], base, kept)
  <2> TAKE j \in DOMAIN states
  <2>1. CASE j = i
    BY <2>1, <1>7, <1>9
  <2>2. CASE j \in DOMAIN pass.states
    <3>1. PICK u : u = pass.states[j]
      OBVIOUS
    <3>2. SoundState(u, base, old)
      BY <2>2, <3>1, <1>2, <1>9 DEF SoundMade
    <3>3. u.gen # s.gen
      BY <2>2, <3>1, <1>4
    <3>4. old \subseteq kept /\ \A x \in kept : x \in old \/ x.gen # u.gen
      BY <3>3, <1>9
    <3>5. SoundState(u, base, kept)
      BY <3>2, <3>4 DEF SoundState
    <3> QED
      BY <2>2, <3>1, <3>5, <1>7
  <2> QED
    BY <2>1, <2>2, <1>7
<1>11. \A j \in DOMAIN states :
          IF q.found[j] # 0 THEN states[j].gen = States[q.found[j]].gen
          ELSE /\ \A k \in DOMAIN States : states[j].gen # States[k].gen
               /\ \A x \in stored : states[j].gen # x.gen
  <2> TAKE j \in DOMAIN states
  <2>1. CASE j = i
    BY <2>1, <1>3, <1>4, <1>5, <1>7
  <2>2. CASE j \in DOMAIN pass.states
    BY <2>2, <1>2, <1>5, <1>7 DEF SoundMade
  <2> QED
    BY <2>1, <2>2, <1>7
<1>12. \A j, k \in DOMAIN states : j # k => states[j].gen # states[k].gen
  <2> TAKE j, k \in DOMAIN states
  <2>1. CASE j \in DOMAIN pass.states /\ k \in DOMAIN pass.states
    BY <2>1, <1>2, <1>7 DEF SoundMade
  <2>2. CASE j = i \/ k = i
    BY <2>2, <1>4, <1>7
  <2> QED
    BY <2>1, <2>2, <1>7
<1>13. IsFiniteSet(q.logs)
  <2>1. IsFiniteSet(pass.logs)
    BY <1>2 DEF SoundMade
  <2> QED
    BY <2>1, <1>5, FS_Union
<1>14. \A x \in q.logs :
          x.record <= written /\ \E j \in DOMAIN states : x.gen = states[j].gen
  <2> TAKE x \in q.logs
  <2>1. CASE x \in rows
    BY <2>1, <1>3, <1>7
  <2>2. CASE x \in pass.logs
    <3>1. x.record <= written
      BY <2>2, <1>2 DEF SoundMade
    <3>2. PICK j \in DOMAIN pass.states : x.gen = pass.states[j].gen
      BY <2>2, <1>2 DEF SoundMade
    <3>3. j \in DOMAIN states /\ x.gen = states[j].gen
      BY <3>2, <1>1, <1>3, <1>7
    <3> QED
      BY <3>1, <3>3
  <2> QED
    BY <2>1, <2>2, <1>5
<1>15. SoundMade(q)
  <2>1. PassBase(q) = base
    BY <1>5, <1>9 DEF PassBase
  <2>2. stored \cup q.logs = kept
    BY <1>5, <1>9
  <2>3. \A j \in DOMAIN q.states : SoundState(q.states[j], PassBase(q), stored \cup q.logs)
    BY <2>1, <2>2, <1>6, <1>10
  <2>4. Len(q.states) <= Len(q.files)
    BY <1>3, <1>5, <1>6, <1>7
  <2> QED
    BY <2>3, <2>4, <1>5, <1>6, <1>11, <1>12, <1>13, <1>14 DEF SoundMade, Listing
<1> QED
  BY <1>5, <1>8, <1>15, NextSound

LEMMA SkipFileSound ==
  ASSUME HostTrue, Sound, SkipFile
  PROVE  HostTrue' /\ Sound'
<1>1. /\ pass.pc = "next" /\ MoreFiles /\ UNCHANGED <<hostVars, savedVars>>
      /\ pass' = [pass EXCEPT !.states = Append(@, StateOf(Current))]
  BY DEF SkipFile, PassIs
<1>2. PICK i, l, m, s : /\ i = Len(pass.states) + 1 /\ l = Current /\ m = CurrentMatch
                        /\ s = StateOf(l)
  OBVIOUS
<1>3. s \in FileStates /\ SoundState(s, PassBase(pass), stored \cup pass.logs)
  BY <1>1, <1>2, StateOfSound
<1>4. pass \in Passes /\ pass.states \in Seq(FileStates)
  BY <1>1, <1>2, CurrentFacts
<1>5. PICK states : states = pass.states \o <<s>>
  OBVIOUS
<1>6. states \in Seq(FileStates) /\ states = Append(pass.states, s)
  BY <1>3, <1>4, <1>5, Joined, AppendIsConcat
<1>7. PICK q : q = [pass EXCEPT !.states = states]
  OBVIOUS
<1>8. pass' = q
  BY <1>1, <1>2, <1>6, <1>7
<1>9. ThroughWith(q, s, {})
  <2>1. /\ q \in Passes /\ q.pc = "next" /\ q.files = pass.files /\ q.found = pass.found
        /\ q.seen = pass.seen /\ q.states = states /\ q.logs = pass.logs
    BY <1>1, <1>4, <1>6, <1>7 DEF Passes
  <2> QED
    BY <2>1, <1>5 DEF ThroughWith
<1>10. PICK rows : rows = {}
  OBVIOUS
<1>11. SoundState(s, PassBase(pass), stored \cup pass.logs \cup rows)
  <2>1. stored \cup pass.logs \cup rows = stored \cup pass.logs
    BY <1>10
  <2> QED
    BY <2>1, <1>3
<1>12. /\ IsFiniteSet(rows) /\ s.gen = StateOf(Current).gen
       /\ \A x \in rows : x.gen = s.gen /\ x.record <= written
       /\ ThroughWith(q, s, rows)
  BY <1>2, <1>9, <1>10, FS_EmptySet
<1> QED
  BY <1>1, <1>3, <1>8, <1>11, <1>12, ThroughSound

LEMMA RetrySound ==
  ASSUME HostTrue, Sound, UNCHANGED <<hostVars, savedVars>>, pass.pc # "idle",
         NEW left \in Int, Retry(left)
  PROVE  HostTrue' /\ Sound'
<1>1. CASE pass.attempt < Attempts /\ left > 0
  <2>1. PICK attempt : attempt = pass.attempt + 1
    OBVIOUS
  <2>2. left \in Nat /\ attempt \in Nat
    BY <2>1, <1>1, PassSound DEF Passes
  <2>3. Begin(left, attempt)
    BY <2>1, <1>1 DEF Retry
  <2> QED
    BY <2>2, <2>3, BeginSound
<1>2. CASE ~ (pass.attempt < Attempts /\ left > 0)
  <2>1. pass' = NoPass
    BY <1>2 DEF Retry, PassIs
  <2> QED
    BY <2>1, NoneSound
<1> QED
  BY <1>1, <1>2

\* What is read of a file lies within what was listed of it.
LEMMA WithinListed ==
  ASSUME HostTrue, Sound, pass.pc \in {"next", "check"}, MoreFiles,
         NEW l, l = Current, NEW s, s = StateOf(l), ~ s.done
  PROVE  s.offset <= l.size /\ (l.meta => l.size = 0)
<1>1. PICK i, m : i = Len(pass.states) + 1 /\ m = CurrentMatch
  OBVIOUS
<1>2. /\ l \in ListedFiles /\ SoundListed(l)
      /\ m # 0 => m \in DOMAIN States /\ Candidate(States[m], l)
  BY <1>1, CurrentFacts
<1>3. /\ m # 0 => s = WithFile(States[m], l)
      /\ m = 0 => \E g \in Nat : s = FirstState(g, l)
  BY <1>1, StateOfSound
<1>4. l.meta => l.size = 0 /\ ~ l.active
  BY <1>2 DEF SoundListed
<1>5. CASE m # 0
  <2>1. PICK old : old = States[m]
    OBVIOUS
  <2>2. old \in FileStates
    <3>1. SoundRows
      BY PassSound
    <3> QED
      BY <3>1, <2>1, <1>2, <1>5, StatesSound
  <2>3. (s.done <=> old.done /\ ~ l.active) /\ s.offset = old.offset
    BY <2>1, <2>2, <1>2, <1>3, <1>5, Refreshed
  <2>4. Candidate(old, l)
    BY <2>1, <1>2, <1>5
  <2>5. ~ l.meta
    BY <2>3, <2>4, <1>4 DEF Candidate, SameArchivedFile
  <2>6. l.size >= old.offset /\ l.size \in Nat /\ old.offset \in Nat
    BY <2>2, <2>4, <2>5, <1>2 DEF Candidate, ListedFiles, FileStates
  <2> QED
    BY <2>3, <2>5, <2>6
<1>6. CASE m = 0
  <2>1. PICK g \in Nat : s = FirstState(g, l)
    BY <1>3, <1>6
  <2>2. s.offset = (IF cursor = NoCursor /\ l.active THEN Tail1(l) ELSE 0)
    BY <2>1, <1>2, FirstStateShape
  <2> QED
    BY <2>2, <1>2, <1>4, TailShort
<1> QED
  BY <1>5, <1>6

LEMMA ReadFileSound ==
  ASSUME HostTrue, Sound, ReadFile
  PROVE  HostTrue' /\ Sound'
<1>1. /\ pass.pc = "next" /\ MoreFiles /\ ~ StateOf(Current).done /\ pass.left > 0
      /\ PathExists(Current) /\ UNCHANGED <<hostVars, savedVars>>
  BY DEF ReadFile, Reads
<1>2. PICK l, s, f, i, m : /\ l = Current /\ s = StateOf(l) /\ f = AtPath(l)
                           /\ i = Len(pass.states) + 1 /\ m = CurrentMatch
  OBVIOUS
<1>3. /\ pass \in Passes /\ SoundListing(pass) /\ SoundMatches(pass) /\ SoundMade(pass)
      /\ ActiveOnce(pass)
  BY <1>1, PassSound
<1>4. l \in ListedFiles /\ SoundListed(l)
  BY <1>1, <1>2, CurrentFacts
<1>5. s.offset \in Nat /\ s.offset <= l.size
  BY <1>1, <1>2, StateOfSound, WithinListed
<1>6. l.size \in Nat /\ l.path \in Nat /\ l.prefix \in Nat /\ pass.left \in Nat
  BY <1>3, <1>4 DEF ListedFiles, Passes
<1>7. /\ l.path \in DOMAIN remoteFiles /\ f.first = remoteFiles[l.path].first
      /\ f.first \in Nat /\ f.last \in Nat
      /\ f.first <= f.last /\ f.last <= written /\ written \in Nat /\ Newer(l.path, f.first)
  <2>1. Exists(l.path, l.file.gz) /\ f = FileAt(l.path, l.file.gz) /\ l.file.gz \in BOOLEAN
    BY <1>1, <1>2, <1>4 DEF PathExists, AtPath, ListedFiles, Files
  <2> QED
    BY <2>1, FileFacts
<1>8. PICK n : n = Wanted
  OBVIOUS
<1>9. n \in Nat /\ n <= pass.left /\ s.offset + n <= l.size
  BY <1>2, <1>5, <1>6, <1>8 DEF Wanted
<1>10. PICK data : data = f.first + s.offset .. f.first + s.offset + n - 1
  OBVIOUS
<1>11. \/ data \subseteq Records(f)
          /\ pass' = [pass EXCEPT !.pc = "check", !.data = data, !.left = @ - n]
       \/ Retry(pass.left - Cardinality(data \cap Records(f)))
  BY <1>2, <1>8, <1>10 DEF ReadFile, PassIs
<1>12. CASE /\ data \subseteq Records(f)
            /\ pass' = [pass EXCEPT !.pc = "check", !.data = data, !.left = @ - n]
  <2>1. PICK left : left = pass.left - n
    OBVIOUS
  <2>2. left \in Nat /\ data \in SUBSET Nat
    <3>1. left \in Nat
      BY <2>1, <1>6, <1>9
    <3>2. f.first + s.offset \in Nat
      BY <1>5, <1>7
    <3>3. \A r \in data : r \in Nat
      BY <3>2, <1>10
    <3> QED
      BY <3>1, <3>3
  <2>3. PICK q : q = [pass EXCEPT !.pc = "check", !.data = data, !.left = left]
    OBVIOUS
  <2>4. pass' = q
    BY <2>1, <2>3, <1>12
  <2>5. /\ q \in Passes /\ q.states = pass.states /\ q.pc = "check" /\ q.files = pass.files
        /\ q.found = pass.found /\ q.seen = pass.seen /\ q.logs = pass.logs /\ q.data = data
    BY <2>2, <2>3, <1>3 DEF Passes
  <2>6. SoundListing(q) /\ SoundMatches(q)
    <3>1. pass.files # <<>> /\ Len(pass.found) = Len(pass.files)
      BY <1>1, <1>3 DEF ActiveOnce, SoundMatches
    <3>2. ActiveOnce(q)
      BY <3>1, <2>5, <1>3 DEF ActiveOnce
    <3>3. SoundListing(q)
      BY <3>2, <2>5, <1>3 DEF SoundListing
    <3>4. SoundMatches(q)
      BY <3>1, <2>5, <1>3 DEF SoundMatches
    <3> QED
      BY <3>3, <3>4
  <2>7. SoundMade(q)
    <3>1. PassBase(q) = PassBase(pass)
      BY <2>5 DEF PassBase
    <3>3. \A j \in DOMAIN q.states : SoundState(q.states[j], PassBase(q), stored \cup q.logs)
      <4>1. PICK states, base, kept :
               states = q.states /\ base = PassBase(q) /\ kept = stored \cup q.logs
        OBVIOUS
      <4>2. \A j \in DOMAIN states : SoundState(states[j], base, kept)
        BY <4>1, <3>1, <2>5, <1>3 DEF SoundMade
      <4> QED
        BY <4>1, <4>2
    <3>4. \A j \in DOMAIN q.states :
             IF q.found[j] # 0 THEN q.states[j].gen = States[q.found[j]].gen
             ELSE /\ \A k \in DOMAIN States : q.states[j].gen # States[k].gen
                  /\ \A x \in stored : q.states[j].gen # x.gen
      BY <2>5, <1>3 DEF SoundMade
    <3>5. /\ Len(q.states) <= Len(q.files) /\ IsFiniteSet(q.logs)
          /\ \A j, k \in DOMAIN q.states : j # k => q.states[j].gen # q.states[k].gen
          /\ \A x \in q.logs :
                x.record <= written /\ \E j \in DOMAIN q.states : x.gen = q.states[j].gen
      BY <2>5, <1>3 DEF SoundMade
    <3> QED
      BY <3>3, <3>4, <3>5, <2>5 DEF SoundMade, Listing
  <2>8. Current' = l /\ StateOf(Current)' = s
    BY <2>4, <2>5, <1>1, <1>2 DEF savedVars, Current, StateOf, CurrentMatch, States, NewState,
       NewGeneration, LogGenerations, Tail1
  <2>9. \E a, k \in 0 .. written :
           /\ data = a + s.offset .. a + s.offset + k - 1
           /\ s.offset + k <= l.size
           /\ k # 0 => a + s.offset + k <= written + 1
           /\ l.prefix <= a /\ Newer(l.path, a)
    <3>1. PICK a : a = f.first
      OBVIOUS
    <3>2. l.prefix <= a
      <4>1. CASE l.meta
        BY <4>1, <3>1, <1>4, <1>7 DEF SoundListed
      <4>2. CASE ~ l.meta
        <5>1. Newer(l.path, l.prefix)
          BY <4>2, <1>4 DEF SoundListed
        <5> QED
          BY <5>1, <3>1, <1>6, <1>7 DEF Newer
      <4> QED
        BY <4>1, <4>2
    <3>3. n # 0 => a + s.offset + n <= written + 1
      <4>1. ASSUME n # 0
            PROVE  a + s.offset + n <= written + 1
        <5>1. a + s.offset + n - 1 \in data
          BY <4>1, <3>1, <1>5, <1>7, <1>9, <1>10
        <5>2. a + s.offset + n - 1 \in f.first .. f.last
          BY <5>1, <1>12 DEF Records
        <5> QED
          BY <5>2, <3>1, <1>5, <1>7, <1>9
      <4> QED
        BY <4>1
    <3>4. l.size <= written
      BY <1>4 DEF SoundListed
    <3>5. a \in 0 .. written /\ n \in 0 .. written
      BY <3>1, <3>4, <1>5, <1>6, <1>7, <1>9
    <3>6. /\ data = a + s.offset .. a + s.offset + n - 1
          /\ s.offset + n <= l.size /\ Newer(l.path, a)
      BY <3>1, <1>7, <1>9, <1>10
    <3> QED
      BY <3>2, <3>3, <3>5, <3>6
  <2>10. SoundData(pass)'
    <3>1. written' = written /\ remoteFiles' = remoteFiles
      BY <1>1 DEF hostVars
    <3>2. \A path, a : Newer(path, a)' <=> Newer(path, a)
      BY <3>1 DEF Newer
    <3>3. Len(pass'.states) < Len(pass'.files) /\ pass'.data = data
      BY <2>4, <2>5, <1>1 DEF MoreFiles
    <3> QED
      BY <2>8, <2>9, <3>1, <3>2, <3>3, <1>1, <1>2, <1>5 DEF SoundData
  <2> QED
    BY <2>4, <2>5, <2>6, <2>7, <2>10, <1>1, NextSound
<1>13. CASE Retry(pass.left - Cardinality(data \cap Records(f)))
  <2>1. IsFiniteSet(data \cap Records(f))
    <3>1. IsFiniteSet(data)
      <4>1. f.first + s.offset \in Int /\ f.first + s.offset + n - 1 \in Int
        BY <1>5, <1>7, <1>9
      <4> QED
        BY <4>1, <1>10, FS_Interval
    <3> QED
      BY <3>1, FS_Intersection
  <2>2. Cardinality(data \cap Records(f)) \in Nat
    BY <2>1, FS_CardinalityType
  <2>3. PICK left : left = pass.left - Cardinality(data \cap Records(f))
    OBVIOUS
  <2>4. left \in Int /\ pass.pc # "idle"
    BY <2>2, <2>3, <1>1, <1>6
  <2> QED
    BY <2>3, <2>4, <1>1, <1>13, RetrySound
<1> QED
  BY <1>11, <1>12, <1>13

\* What is complete of an interval read is its start, and at the end of a file all.
LEMMA CompleteIs ==
  ASSUME NEW b \in Nat, NEW n \in Nat, pass.data = b .. b + n - 1
  PROVE  /\ Cardinality(pass.data) = n
         /\ \E m \in 0 .. n : /\ Complete = b .. b + m - 1 /\ Cardinality(Complete) = m
                              /\ AtEnd => m = n
<1>1. \A k \in Nat : Cardinality(b .. b + k - 1) = k
  <2> TAKE k \in Nat
  <2>1. b \in Int /\ b + k - 1 \in Int
    OBVIOUS
  <2>2. Cardinality(b .. b + k - 1) = IF b > b + k - 1 THEN 0 ELSE (b + k - 1) - b + 1
    BY <2>1, FS_Interval
  <2> QED
    BY <2>2
<1>2. CASE AtEnd
  <2>1. Complete = b .. b + n - 1
    BY <1>2 DEF Complete
  <2> QED
    BY <2>1, <1>1, <1>2
<1>3. CASE ~ AtEnd
  <2>1. Complete = {r \in b .. b + n - 1 : \E later \in b .. b + n - 1 : r < later}
    BY <1>3 DEF Complete
  <2>2. CASE n = 0
    <3>1. \A r \in b .. b + n - 1 : FALSE
      BY <2>2
    <3>2. Complete = b .. b + 0 - 1
      BY <3>1, <2>1, <2>2
    <3>3. 0 \in 0 .. n /\ Cardinality(Complete) = 0
      BY <3>2, <1>1
    <3> QED
      BY <3>2, <3>3, <1>1, <1>3
  <2>3. CASE n > 0
    <3>1. PICK m \in Nat : m = n - 1
      BY <2>3
    <3>2. \A r : r \in Complete <=> r \in b .. b + m - 1
      <4>1. ASSUME NEW r \in b .. b + m - 1
            PROVE  r \in Complete
        <5>1. r \in b .. b + n - 1 /\ b + n - 1 \in b .. b + n - 1 /\ r < b + n - 1
          BY <4>1, <3>1
        <5> QED
          BY <5>1, <2>1
      <4>2. ASSUME NEW r \in Complete
            PROVE  r \in b .. b + m - 1
        <5>1. PICK later \in b .. b + n - 1 : r < later /\ r \in b .. b + n - 1
          BY <2>1
        <5> QED
          BY <5>1, <3>1
      <4> QED
        BY <4>1, <4>2
    <3>3. Complete = b .. b + m - 1
      BY <3>2
    <3>4. m \in 0 .. n
      BY <3>1
    <3> QED
      BY <3>3, <3>4, <1>1, <1>3
  <2> QED
    BY <2>2, <2>3
<1> QED
  BY <1>1, <1>2, <1>3


\* The first so many of what is complete, and their rows.
LEMMA TakenIs ==
  ASSUME NEW b \in Nat, NEW m \in Nat, Complete = b .. b + m - 1, NEW c \in 0 .. m
  PROVE  Taken(c) = b .. b + c - 1
<1>1. ASSUME NEW r \in b .. b + m - 1
      PROVE  Cardinality({x \in Complete : x <= r}) = r - b + 1
  <2>1. {x \in Complete : x <= r} = b .. r
    OBVIOUS
  <2>2. b \in Int /\ r \in Int /\ b <= r
    OBVIOUS
  <2>3. Cardinality(b .. r) = r - b + 1
    BY <2>2, FS_Interval
  <2> QED
    BY <2>1, <2>3
<1>2. Taken(c) = {r \in b .. b + m - 1 : r - b + 1 <= c}
  BY <1>1 DEF Taken
<1>3. \A r : r \in Taken(c) <=> r \in b .. b + c - 1
  BY <1>2
<1> QED
  BY <1>3

\* A state read on by c records, with their rows.
ReadBy(s, c, done) == [s EXCEPT !.offset = s.offset + c, !.done = done]
RowsBy(s, b, c) ==
    {[gen |-> s.gen, offset |-> s.offset + r - b, record |-> r] : r \in b .. b + c - 1}

LEMMA RowsAre ==
  ASSUME NEW s, NEW b \in Nat, NEW m \in Nat, Complete = b .. b + m - 1, NEW c \in 0 .. m
  PROVE  (IF c = 0 THEN {} ELSE Rows(s, c)) = RowsBy(s, b, c)
<1>1. CASE c = 0
  <2>1. \A r \in b .. b + c - 1 : FALSE
    BY <1>1
  <2>2. RowsBy(s, b, c) = {}
    BY <2>1 DEF RowsBy
  <2> QED
    BY <2>2, <1>1
<1>2. CASE c > 0
  <2>1. b \in Complete /\ \A x \in Complete : b <= x
    BY <1>2
  <2>2. \A r \in Complete : (\A x \in Complete : r <= x) => r = b
    BY <2>1
  <2>3. (CHOOSE r \in Complete : \A x \in Complete : r <= x) = b
    BY <2>1, <2>2
  <2>4. Taken(c) = b .. b + c - 1
    BY TakenIs
  <2>5. c # 0
    BY <1>2
  <2> QED
    BY <2>3, <2>4, <2>5 DEF Rows, RowsBy
<1>3. c = 0 \/ c > 0
  OBVIOUS
<1> QED
  BY <1>1, <1>2, <1>3

\* What a file that is still the same gives: its next c records.
CheckedBy(l, s, c, done) ==
    /\ s.offset + c <= l.size
    /\ done => ~ l.active /\ s.offset + c = l.size
    /\ c # 0 => ~ l.meta /\ l.prefix + s.offset + c <= written + 1
    /\ pass' = [pass EXCEPT !.pc = "next", !.data = {},
                            !.states = Append(@, ReadBy(s, c, done)),
                            !.logs = @ \cup RowsBy(s, l.prefix + s.offset, c)]

\* A state that is read on counts from what was listed as the prefix of its file.
LEMMA SamePrefix ==
  ASSUME HostTrue, Sound, pass.pc \in {"next", "check"}, MoreFiles,
         NEW l, l = Current, NEW s, s = StateOf(l), ~ s.done
  PROVE  s.prefix = l.prefix
<1>1. PICK i, m : i = Len(pass.states) + 1 /\ m = CurrentMatch
  OBVIOUS
<1>2. /\ l \in ListedFiles /\ SoundListed(l)
      /\ m # 0 => m \in DOMAIN States /\ Candidate(States[m], l)
  BY <1>1, CurrentFacts
<1>3. /\ m # 0 => s = WithFile(States[m], l)
      /\ m = 0 => \E g \in Nat : s = FirstState(g, l)
  BY <1>1, StateOfSound
<1>4. CASE m # 0
  <2>1. SoundRows /\ SoundCursor
    BY PassSound
  <2>2. PICK old : old = States[m]
    OBVIOUS
  <2>3. old \in FileStates /\ SoundState(old, baseline, stored)
    BY <2>1, <2>2, <1>2, <1>4, StatesSound DEF SoundCursor
  <2>4. (s.done <=> old.done /\ ~ l.active) /\ s.prefix = old.prefix
    BY <2>2, <2>3, <1>2, <1>3, <1>4, Refreshed
  <2>5. Candidate(old, l)
    BY <2>2, <1>2, <1>4
  <2>6. ~ l.meta
    BY <2>4, <2>5, <1>2 DEF Candidate, SameArchivedFile, SoundListed
  <2> QED
    BY <2>3, <2>4, <2>5, <2>6 DEF Candidate, SoundState
<1>5. CASE m = 0
  BY <1>2, <1>3, <1>5, FirstStateShape
<1> QED
  BY <1>4, <1>5

\* The check of a file fails, begins the pass again or gives its next records.
LEMMA CheckGives ==
  ASSUME HostTrue, Sound, CheckFile, NEW l, l = Current, NEW s, s = StateOf(l)
  PROVE  \/ pass' = NoPass
         \/ Retry(pass.left)
         \/ \E c \in Nat, done \in BOOLEAN : CheckedBy(l, s, c, done)
<1>1. pass.pc = "check" /\ PathExists(l)
  BY DEF CheckFile
<1>2. SoundData(pass) /\ pass.pc \in {"next", "check"}
  BY <1>1, PassSound
<1>3. /\ MoreFiles /\ ~ s.done /\ s.offset \in Nat
      /\ \E a, n \in 0 .. written :
            /\ pass.data = a + s.offset .. a + s.offset + n - 1
            /\ s.offset + n <= l.size
            /\ n # 0 => a + s.offset + n <= written + 1
            /\ l.prefix <= a /\ Newer(l.path, a)
  BY <1>1, <1>2 DEF SoundData, MoreFiles
<1>4. PICK a, n \in 0 .. written :
         /\ pass.data = a + s.offset .. a + s.offset + n - 1
         /\ s.offset + n <= l.size
         /\ n # 0 => a + s.offset + n <= written + 1
         /\ l.prefix <= a /\ Newer(l.path, a)
  BY <1>3
<1>a. MoreFiles /\ ~ s.done /\ s.offset \in Nat
  BY <1>3
<1>b. s.offset + n <= l.size /\ (n # 0 => a + s.offset + n <= written + 1)
  BY <1>4
<1>5. PICK i, m : i = Len(pass.states) + 1 /\ m = CurrentMatch
  OBVIOUS
<1>6. l \in ListedFiles /\ SoundListed(l)
  BY <1>2, <1>3, <1>5, CurrentFacts
<1>7. /\ s \in FileStates /\ (l.meta => l.size = 0) /\ s.prefix = l.prefix
  <2>1. s \in FileStates
    BY <1>2, <1>3, <1>5, StateOfSound
  <2>2. l.meta => l.size = 0
    BY <1>2, <1>3, WithinListed
  <2>3. s.prefix = l.prefix
    BY <1>2, <1>3, SamePrefix
  <2> QED
    BY <2>1, <2>2, <2>3
<1>8. /\ written \in Nat /\ l.size \in Nat /\ l.path \in Nat /\ l.prefix \in Nat
      /\ a \in Nat /\ n \in Nat /\ l.file.gz \in BOOLEAN /\ l.meta \in BOOLEAN
  BY <1>6, FilesShape DEF ListedFiles, Files
<1>9. PICK b \in Nat : b = a + s.offset
  BY <1>3, <1>8
<1>10. pass.data = b .. b + n - 1
  BY <1>4, <1>9
<1>11. Cardinality(pass.data) = n
  BY <1>8, <1>9, <1>10, CompleteIs
<1>12. PICK k \in 0 .. n : /\ Complete = b .. b + k - 1 /\ Cardinality(Complete) = k
                           /\ AtEnd => k = n
  BY <1>8, <1>9, <1>10, CompleteIs
<1>13. k \in Nat
  BY <1>8, <1>12
<1>14. PICK c \in Carried :
          \/ pass' = NoPass
          \/ Retry(pass.left)
          \/ /\ StillTheSame(l)
             /\ pass' = [pass EXCEPT !.pc = "next", !.data = {},
                                     !.states = Append(@, ReadOn(s, c)),
                                     !.logs = @ \cup (IF c = 0 THEN {} ELSE Rows(s, c))]
  BY DEF CheckFile, PassIs
<1>15. c \in 0 .. k
  BY <1>12, <1>14 DEF Carried
<1>16. CASE /\ StillTheSame(l)
            /\ pass' = [pass EXCEPT !.pc = "next", !.data = {},
                                    !.states = Append(@, ReadOn(s, c)),
                                    !.logs = @ \cup (IF c = 0 THEN {} ELSE Rows(s, c))]
  <2>1. ~ l.meta => a = l.prefix
    <3>1. PICK f : f = AtPath(l)
      OBVIOUS
    <3>2. /\ f.first \in Nat /\ f.last \in Nat /\ f.first <= f.last
          /\ f.first = remoteFiles[l.path].first /\ l.path \in DOMAIN remoteFiles
      <4>1. Exists(l.path, l.file.gz) /\ f = FileAt(l.path, l.file.gz) /\ l.file.gz \in BOOLEAN
        BY <3>1, <1>1, <1>8 DEF PathExists, AtPath
      <4> QED
        BY <4>1, FileFacts
    <3>3. FirstRecord(f) = f.first
      BY <3>2 DEF FirstRecord, Length
    <3>4. ASSUME ~ l.meta
          PROVE  a = l.prefix
      <4>1. f.first = l.prefix
        BY <3>1, <3>3, <3>4, <1>6, <1>16 DEF StillTheSame, SoundListed
      <4>2. a <= f.first
        BY <3>2, <1>4, <1>8 DEF Newer
      <4> QED
        BY <4>1, <4>2, <1>4, <1>8
    <3> QED
      BY <3>4
  <2>2. l.meta => n = 0
    BY <1>3, <1>4, <1>7, <1>8
  <2>3. (IF c = 0 THEN {} ELSE Rows(s, c)) = RowsBy(s, b, c)
    BY <1>9, <1>12, <1>13, <1>15, RowsAre
  <2>4. RowsBy(s, b, c) = RowsBy(s, l.prefix + s.offset, c)
    <3>1. CASE l.meta
      <4>1. c = 0
        BY <3>1, <2>2, <1>12, <1>15
      <4>2. (b .. b + c - 1) = {}
        BY <4>1, <1>9
      <4>3. (l.prefix + s.offset .. l.prefix + s.offset + c - 1) = {}
        BY <4>1, <1>3, <1>8
      <4>4. RowsBy(s, b, c) = {}
        BY <4>2 DEF RowsBy
      <4>5. RowsBy(s, l.prefix + s.offset, c) = {}
        BY <4>3 DEF RowsBy
      <4> QED
        BY <4>4, <4>5
    <3>2. CASE ~ l.meta
      <4>1. b = l.prefix + s.offset
        BY <3>2, <2>1, <1>9
      <4> QED
        BY <4>1
    <3> QED
      BY <3>1, <3>2
  <2>5. PICK done : done = (AtEnd /\ c = Cardinality(Complete))
    OBVIOUS
  <2>6. done \in BOOLEAN /\ (done => ~ l.active /\ s.offset + c = l.size)
    <3>1. done \in BOOLEAN /\ (done => AtEnd /\ c = n)
      BY <2>5, <1>12
    <3>2. AtEnd => ~ l.active /\ s.offset + n >= l.size
      BY <1>11 DEF AtEnd
    <3> QED
      BY <3>1, <3>2, <1>a, <1>b, <1>8
  <2>7. ReadOn(s, c) = ReadBy(s, c, done)
    <3>1. PICK prefix : prefix = IF s.prefix = 0 THEN Current.prefix ELSE s.prefix
      OBVIOUS
    <3>2. prefix = s.prefix
      BY <3>1, <1>7
    <3>3. ReadOn(s, c) = [s EXCEPT !.offset = s.offset + c, !.done = done, !.prefix = prefix]
      BY <3>1, <2>5 DEF ReadOn
    <3>4. ReadOn(s, c) = [[s EXCEPT !.offset = s.offset + c, !.done = done]
                            EXCEPT !.prefix = s.prefix]
      BY <3>2, <3>3
    <3>5. DOMAIN s = {"gen", "id", "offset", "prefix", "done", "stamp", "meta"}
      BY <1>7 DEF FileStates
    <3> QED
      BY <3>4, <3>5 DEF ReadBy
  <2>8. pass' = [pass EXCEPT !.pc = "next", !.data = {},
                             !.states = Append(@, ReadBy(s, c, done)),
                             !.logs = @ \cup RowsBy(s, l.prefix + s.offset, c)]
    <3>1. PICK t, rows : t = ReadOn(s, c) /\ rows = (IF c = 0 THEN {} ELSE Rows(s, c))
      OBVIOUS
    <3>2. pass' = [pass EXCEPT !.pc = "next", !.data = {}, !.states = Append(@, t),
                               !.logs = @ \cup rows]
      BY <3>1, <1>16
    <3>3. t = ReadBy(s, c, done) /\ rows = RowsBy(s, l.prefix + s.offset, c)
      BY <3>1, <2>3, <2>4, <2>7
    <3> QED
      BY <3>2, <3>3
  <2>9. c \in Nat /\ c <= n /\ s.offset + c <= l.size
    <3>1. c \in Nat /\ c <= n
      BY <1>8, <1>13, <1>12, <1>15
    <3> QED
      BY <3>1, <1>a, <1>b, <1>8
  <2>10. c # 0 => ~ l.meta /\ l.prefix + s.offset + c <= written + 1
    <3>1. ASSUME c # 0
          PROVE  ~ l.meta /\ l.prefix + s.offset + c <= written + 1
      <4>1. n # 0 /\ c <= n
        BY <3>1, <1>8, <1>12, <1>15
      <4>2. ~ l.meta
        BY <4>1, <2>2
      <4> QED
        BY <4>1, <4>2, <2>1, <2>9, <1>a, <1>b, <1>8
    <3> QED
      BY <3>1
  <2> QED
    BY <2>6, <2>8, <2>9, <2>10 DEF CheckedBy
<1> QED
  BY <1>14, <1>16

\* The rows of the next c records of a file.
LEMMA RowsByFacts ==
  ASSUME HostTrue, NEW s \in FileStates, s.prefix # 0, NEW c \in Nat,
         s.prefix + s.offset + c <= written + 1,
         NEW rows, rows = RowsBy(s, s.prefix + s.offset, c)
  PROVE  /\ IsFiniteSet(rows) /\ rows \subseteq LogRecord
         /\ \A x \in rows :
               /\ x.gen = s.gen /\ x.record <= written /\ x.record = s.prefix + x.offset
               /\ s.prefix + s.offset <= x.record /\ x.record < s.prefix + s.offset + c
               /\ s.offset <= x.offset
         /\ \A r \in s.prefix + s.offset .. s.prefix + s.offset + c - 1 :
               \E x \in rows : x.record = r
<1>1. PICK p, o, g : p = s.prefix /\ o = s.offset /\ g = s.gen
  OBVIOUS
<1>2. p \in Nat /\ o \in Nat /\ g \in Nat /\ p # 0 /\ written \in Nat /\ p + o + c <= written + 1
  BY <1>1, FilesShape DEF FileStates
<1>3. PICK b \in Nat : b = p + o
  BY <1>2
<1>4. PICK R : R = b .. b + c - 1
  OBVIOUS
<1>5. rows = {[gen |-> g, offset |-> o + r - b, record |-> r] : r \in R}
  BY <1>1, <1>3, <1>4 DEF RowsBy
<1>6. \A r \in R : /\ r \in Nat /\ o + r - b \in Nat /\ r \in 1 .. MaxRecord /\ r <= written
                   /\ r = p + (o + r - b) /\ b <= r /\ r < b + c /\ o <= o + r - b
  <2>1. written <= MaxRecord /\ MaxRecord \in Nat
    BY RemoteLogAssumption DEF HostTrue
  <2> QED
    BY <2>1, <1>2, <1>3, <1>4
<1>7. \A x \in rows : \E r \in R : x = [gen |-> g, offset |-> o + r - b, record |-> r]
  BY <1>5
<1>8. rows \subseteq LogRecord
  BY <1>2, <1>6, <1>7 DEF LogRecord
<1>9. \A x \in rows :
         /\ x.gen = g /\ x.record <= written /\ x.record = p + x.offset
         /\ b <= x.record /\ x.record < b + c /\ o <= x.offset
  BY <1>6, <1>7
<1>10. \A r \in R : \E x \in rows : x.record = r
  <2> TAKE r \in R
  <2>1. PICK x : x = [gen |-> g, offset |-> o + r - b, record |-> r]
    OBVIOUS
  <2>2. x \in rows /\ x.record = r
    BY <2>1, <1>5
  <2> QED
    BY <2>2
<1>11. IsFiniteSet(rows)
  <2> DEFINE h == [r \in R |-> [gen |-> g, offset |-> o + r - b, record |-> r]]
  <2>1. h \in Surjection(R, rows)
    BY <1>5 DEF Surjection
  <2>2. IsFiniteSet(R)
    <3>1. b \in Int /\ b + c - 1 \in Int
      OBVIOUS
    <3> QED
      BY <3>1, <1>4, FS_Interval
  <2> HIDE DEF h
  <2> QED
    BY <2>1, <2>2, FS_Surjection
<1> QED
  BY <1>1, <1>3, <1>4, <1>8, <1>9, <1>10, <1>11

LEMMA CheckFileSound ==
  ASSUME HostTrue, Sound, CheckFile
  PROVE  HostTrue' /\ Sound'
<1>1. PICK l, s, i, m : l = Current /\ s = StateOf(l) /\ i = Len(pass.states) + 1 /\ m = CurrentMatch
  OBVIOUS
<1>2. pass.pc = "check" /\ pass.pc \in {"next", "check"} /\ UNCHANGED <<hostVars, savedVars>>
  BY DEF CheckFile
<1>3. MoreFiles /\ ~ s.done
  <2>1. SoundData(pass)
    BY <1>2, PassSound
  <2> QED
    BY <2>1, <1>1, <1>2 DEF SoundData, MoreFiles
<1>4. pass \in Passes /\ pass.left \in Int
  BY <1>2, PassSound DEF Passes
<1>5. \/ pass' = NoPass
      \/ Retry(pass.left)
      \/ \E c \in Nat, done \in BOOLEAN : CheckedBy(l, s, c, done)
  BY <1>1, CheckGives
<1>6. CASE pass' = NoPass
  BY <1>2, <1>6, NoneSound
<1>7. CASE Retry(pass.left)
  BY <1>2, <1>4, <1>7, RetrySound
<1>8. CASE \E c \in Nat, done \in BOOLEAN : CheckedBy(l, s, c, done)
  <2>1. PICK c \in Nat, done \in BOOLEAN : CheckedBy(l, s, c, done)
    BY <1>8
  <2>2. /\ s \in FileStates /\ s.offset \in Nat /\ s.prefix = l.prefix /\ s.meta = l.meta
        /\ SoundState(s, PassBase(pass), stored \cup pass.logs)
        /\ \A x \in pass.logs : s.gen # x.gen
        /\ ~ l.meta => s.prefix # 0
    <3>1. s.prefix = l.prefix
      BY <1>1, <1>2, <1>3, SamePrefix
    <3>2. /\ s \in FileStates /\ s.offset \in Nat /\ s.meta = l.meta
          /\ \A x \in pass.logs : s.gen # x.gen
          /\ ~ l.meta => s.prefix # 0
      BY <1>1, <1>2, <1>3, StateOfSound
    <3>3. SoundState(s, PassBase(pass), stored \cup pass.logs)
      BY <1>1, <1>2, <1>3, StateOfSound
    <3> QED
      BY <3>1, <3>2, <3>3
  <2>3. l \in ListedFiles /\ SoundListed(l) /\ pass.states \in Seq(FileStates)
    BY <1>1, <1>2, <1>3, CurrentFacts
  <2>4. /\ s.gen \in Nat /\ s.prefix \in Nat /\ s.offset \in Nat /\ l.size \in Nat /\ written \in Nat
        /\ l.meta \in BOOLEAN
    BY <2>2, <2>3, FilesShape DEF FileStates, ListedFiles
  <2>5. /\ s.offset + c <= written
        /\ c # 0 => s.prefix # 0 /\ s.prefix + s.offset + c <= written + 1
        /\ s.prefix = 0 => s.offset + c = 0
    <3>1. s.offset + c <= l.size /\ l.size <= written
      BY <2>1, <2>3 DEF CheckedBy, SoundListed
    <3>2. c # 0 => ~ l.meta /\ l.prefix + s.offset + c <= written + 1
      BY <2>1 DEF CheckedBy
    <3>3. s.prefix = 0 => s.offset = 0
      BY <2>2 DEF SoundState
    <3> QED
      BY <3>1, <3>2, <3>3, <2>2, <2>4
  <2>6. PICK rows : rows = RowsBy(s, s.prefix + s.offset, c)
    OBVIOUS
  <2>7. /\ IsFiniteSet(rows) /\ rows \subseteq LogRecord
        /\ \A x \in rows : /\ x.gen = s.gen /\ x.record <= written
                           /\ s.prefix # 0 /\ x.record = s.prefix + x.offset
        /\ c # 0 => \A r \in s.prefix + s.offset .. s.prefix + s.offset + c - 1 :
                       \E x \in rows : x.record = r
    <3>1. CASE c = 0
      <4>1. \A r : r \notin s.prefix + s.offset .. s.prefix + s.offset + c - 1
        BY <3>1, <2>4
      <4>2. rows = {}
        BY <4>1, <2>6 DEF RowsBy
      <4> QED
        BY <4>2, <3>1, FS_EmptySet
    <3>2. CASE c # 0
      <4>1. s.prefix # 0 /\ s.prefix + s.offset + c <= written + 1
        BY <3>2, <2>5
      <4> QED
        BY <4>1, <2>2, <2>6, RowsByFacts
    <3> QED
      BY <3>1, <3>2
  <2>8. PICK t : t = ReadBy(s, c, done)
    OBVIOUS
  <2>9. /\ t \in FileStates /\ t.gen = s.gen /\ t.prefix = s.prefix /\ t.offset = s.offset + c
        /\ t.meta = s.meta
    <3>1. PICK o : o = s.offset + c
      OBVIOUS
    <3>2. o \in Nat
      BY <3>1, <2>4
    <3>3. t = [s EXCEPT !.offset = o, !.done = done]
      BY <3>1, <2>8 DEF ReadBy
    <3> QED
      BY <3>1, <3>2, <3>3, <2>1, <2>2 DEF FileStates
  <2>10. PICK base, old, kept :
            base = PassBase(pass) /\ old = stored \cup pass.logs
            /\ kept = stored \cup pass.logs \cup rows
    OBVIOUS
  <2>11. SoundState(t, base, kept)
    <3>1. SoundState(s, base, old) /\ old \subseteq kept /\ rows \subseteq kept
          /\ \A x \in kept : x \in old \/ x \in rows
      BY <2>2, <2>10
    <3>2. /\ t.offset <= written /\ t.prefix <= written
          /\ t.prefix = 0 => t.meta /\ t.offset = 0
      BY <3>1, <2>5, <2>9 DEF SoundState
    <3>3. ASSUME t.prefix # 0, NEW r \in t.prefix .. t.prefix + t.offset - 1, r >= base
          PROVE  \E x \in kept : x.record = r
      <4>1. CASE r \in s.prefix .. s.prefix + s.offset - 1
        BY <4>1, <3>1, <3>3, <2>9 DEF SoundState
      <4>2. CASE r \notin s.prefix .. s.prefix + s.offset - 1
        <5>1. r \in s.prefix + s.offset .. s.prefix + s.offset + c - 1 /\ c # 0
          BY <4>2, <3>3, <2>4, <2>9
        <5> QED
          BY <5>1, <3>1, <2>7
      <4> QED
        BY <4>1, <4>2
    <3>4. \A x \in kept : x.gen = t.gen => t.prefix # 0 /\ x.record = t.prefix + x.offset
      BY <3>1, <2>7, <2>9 DEF SoundState
    <3> QED
      BY <3>2, <3>3, <3>4, <2>9 DEF SoundState
  <2>12. SoundState(t, PassBase(pass), stored \cup pass.logs \cup rows)
    BY <2>10, <2>11
  <2>13. PICK states, logs : states = pass.states \o <<t>> /\ logs = pass.logs \cup rows
    OBVIOUS
  <2>14. states \in Seq(FileStates) /\ states = Append(pass.states, t)
    BY <2>3, <2>9, <2>13, Joined, AppendIsConcat
  <2>15. PICK q : q = [pass EXCEPT !.pc = "next", !.data = {}, !.states = states, !.logs = logs]
    OBVIOUS
  <2>16. pass' = q
    <3>1. pass' = [pass EXCEPT !.pc = "next", !.data = {},
                               !.states = Append(@, t), !.logs = @ \cup rows]
      BY <2>1, <2>2, <2>6, <2>8 DEF CheckedBy
    <3> QED
      BY <3>1, <2>13, <2>14, <2>15
  <2>17. ThroughWith(q, t, rows)
    <3>1. logs \in SUBSET LogRecord
      BY <2>7, <2>13, <1>4 DEF Passes
    <3>2. /\ q \in Passes /\ q.pc = "next" /\ q.files = pass.files /\ q.found = pass.found
          /\ q.seen = pass.seen /\ q.states = states /\ q.logs = logs
      BY <3>1, <2>14, <2>15, <1>4 DEF Passes
    <3> QED
      BY <3>2, <2>13 DEF ThroughWith
  <2>18. t.gen = StateOf(Current).gen /\ \A x \in rows : x.gen = t.gen /\ x.record <= written
    BY <2>7, <2>9, <1>1
  <2> QED
    BY <2>7, <2>9, <2>12, <2>16, <2>17, <2>18, <1>2, <1>3, ThroughSound
<1> QED
  BY <1>5, <1>6, <1>7, <1>8

-----------------------------------------------------------------------------
(* What is sound stays so: beginnings and ends.                            *)

\* What a commit leaves, whatever the listing saw.
LEMMA Committed ==
  ASSUME HostTrue, Sound, CommitPass
  PROVE  /\ pass \in Passes /\ pass.files \in Seq(ListedFiles) /\ pass.files # <<>>
         /\ DOMAIN pass.states = DOMAIN pass.files /\ pass.states \in Seq(FileStates)
         /\ SoundListing(pass) /\ SoundMatches(pass) /\ SoundMade(pass) /\ ActiveOnce(pass)
         /\ stored' = stored \cup Inserted /\ baseline' = PassBase(pass)
         /\ PassBase(pass) \in Nat
         /\ cursor' = pass.states /\ cursor' # NoCursor /\ States' = pass.states
         /\ listed' = listed \cup {l.file.first : l \in Range(pass.files)}
         /\ gone' = pass.gone /\ told \subseteq told' /\ (pass.gap => pass.gone \subseteq told')
         /\ pass' = NoPass /\ HostTrue' /\ UNCHANGED hostVars
         /\ blurred' = IF blurred = 0 /\ ~ pass.moved THEN 0 ELSE blurred + 1
<1>1. pass.pc = "next" /\ ~ MoreFiles /\ pass.pc # "idle"
  BY DEF CommitPass
<1>2. /\ pass \in Passes /\ SoundListing(pass) /\ SoundMatches(pass) /\ SoundMade(pass)
      /\ ActiveOnce(pass) /\ SoundRows
  BY <1>1, PassSound
<1>3. /\ pass.states \in Seq(FileStates) /\ pass.files \in Seq(ListedFiles)
  BY <1>2 DEF Passes
<1>4. pass.files # <<>> /\ DOMAIN pass.states = DOMAIN pass.files
  <2>1. /\ Len(pass.states) \in Nat /\ Len(pass.files) \in Nat
        /\ DOMAIN pass.files = 1 .. Len(pass.files) /\ DOMAIN pass.states = 1 .. Len(pass.states)
    BY <1>3
  <2>2. Len(pass.states) = Len(pass.files)
    BY <2>1, <1>1, <1>2 DEF MoreFiles, SoundMade
  <2>3. pass.files # <<>>
    BY <1>1, <1>2 DEF ActiveOnce
  <2> QED
    BY <2>1, <2>2, <2>3
<1>5. baseline' = PassBase(pass) /\ PassBase(pass) \in Nat
  <2>1. PICK l : l = Last(pass.files)
    OBVIOUS
  <2>2. l \in ListedFiles
    <3>1. Len(pass.files) \in DOMAIN pass.files
      BY <1>3, <1>4
    <3> QED
      BY <3>1, <2>1, <1>3 DEF Last
  <2>3. Tail1(l) \in Nat /\ l.prefix \in Nat
    BY <2>2, TailShort DEF ListedFiles
  <2>4. l.prefix + Tail1(l) \in Nat
    BY <2>3
  <2>5. baseline \in Nat
    BY <1>2 DEF SoundRows
  <2> QED
    BY <2>1, <2>4, <2>5 DEF CommitPass, PassBase
<1>6. cursor' = pass.states /\ cursor' # NoCursor /\ States' = pass.states
  BY <1>3, RemoteLogAssumption DEF CommitPass, States
<1>7. /\ listed' = listed \cup {l.file.first : l \in Range(pass.files)}
      /\ stored' = stored \cup Inserted
      /\ gone' = pass.gone /\ told \subseteq told' /\ (pass.gap => pass.gone \subseteq told')
      /\ pass' = NoPass /\ UNCHANGED hostVars
      /\ blurred' = IF blurred = 0 /\ ~ pass.moved THEN 0 ELSE blurred + 1
  BY DEF CommitPass, PassIs
<1>8. HostTrue'
  BY <1>7, StillGrows
<1> QED
  BY <1>2, <1>3, <1>4, <1>5, <1>6, <1>7, <1>8

\* A row that is not inserted again has a known key, and with it a known record.
LEMMA InsertedAll ==
  ASSUME HostTrue, Sound, pass.pc # "idle"
  PROVE  /\ Inserted \subseteq pass.logs
         /\ \A x \in stored \cup pass.logs : \E y \in stored \cup Inserted : y.record = x.record
<1>1. Inserted \subseteq pass.logs
  BY DEF Inserted
<1>2. ASSUME NEW x \in pass.logs, x \notin Inserted
      PROVE  \E y \in stored : y.record = x.record
  <2>1. PICK y \in stored : y.gen = x.gen /\ y.offset = x.offset
    BY <1>2 DEF Inserted
  <2>2. SoundMade(pass)
    BY PassSound
  <2>3. PICK i \in DOMAIN pass.states : x.gen = pass.states[i].gen
    BY <2>2 DEF SoundMade
  <2>4. PICK s, base, kept :
           s = pass.states[i] /\ base = PassBase(pass) /\ kept = stored \cup pass.logs
    OBVIOUS
  <2>5. SoundState(s, base, kept) /\ x \in kept /\ y \in kept
    BY <2>2, <2>4 DEF SoundMade
  <2>6. x.record = s.prefix + x.offset /\ y.record = s.prefix + y.offset
    BY <2>1, <2>3, <2>4, <2>5 DEF SoundState
  <2> QED
    BY <2>1, <2>6
<1>3. ASSUME NEW x \in stored \cup pass.logs
      PROVE  \E y \in stored \cup Inserted : y.record = x.record
  <2>1. CASE x \in stored \cup Inserted
    BY <2>1
  <2>2. CASE x \notin stored \cup Inserted
    <3>1. x \in pass.logs /\ x \notin Inserted
      BY <2>2
    <3>2. PICK y \in stored : y.record = x.record
      BY <3>1, <1>2
    <3> QED
      BY <3>2
  <2> QED
    BY <2>1, <2>2
<1> QED
  BY <1>1, <1>3

LEMMA CommitSound ==
  ASSUME HostTrue, Sound, CommitPass
  PROVE  HostTrue' /\ Sound'
<1>1. pass.pc # "idle"
  BY DEF CommitPass
<1>2. /\ pass \in Passes /\ SoundMade(pass) /\ SoundRows
  BY <1>1, PassSound
<1>3. /\ pass.states \in Seq(FileStates)
      /\ stored' = stored \cup Inserted /\ baseline' = PassBase(pass) /\ PassBase(pass) \in Nat
      /\ cursor' = pass.states /\ cursor' # NoCursor /\ States' = pass.states
      /\ pass' = NoPass /\ HostTrue' /\ UNCHANGED hostVars
      /\ blurred' = IF blurred = 0 /\ ~ pass.moved THEN 0 ELSE blurred + 1
  BY Committed
<1>4. written' = written
  BY <1>3 DEF hostVars
<1>5. /\ Inserted \subseteq pass.logs
      /\ \A x \in stored \cup pass.logs : \E y \in stored \cup Inserted : y.record = x.record
  BY <1>1, InsertedAll
<1>6. SoundRows'
  <2>1. /\ IsFiniteSet(stored) /\ stored \subseteq LogRecord /\ blurred \in Nat
        /\ \A x \in stored : x.record <= written
    BY <1>2 DEF SoundRows
  <2>2. /\ IsFiniteSet(pass.logs) /\ pass.logs \subseteq LogRecord
        /\ \A x \in pass.logs : x.record <= written
    BY <1>2 DEF SoundMade, Passes
  <2>3. IsFiniteSet(Inserted)
    BY <2>2, <1>5, FS_Subset
  <2>4. IsFiniteSet(stored')
    BY <2>1, <2>3, <1>3, FS_Union
  <2>5. stored' \subseteq LogRecord /\ \A x \in stored' : x.record <= written'
    BY <2>1, <2>2, <1>3, <1>4, <1>5
  <2>6. blurred' \in Nat
    BY <2>1, <1>3
  <2>7. cursor' \in Seq(FileStates) /\ cursor' # NoCursor /\ baseline' \in Nat
    BY <1>3
  <2> QED
    BY <2>4, <2>5, <2>6, <2>7 DEF SoundRows, LogRecord
<1>7. SoundCursor'
  <2>1. PICK states, base, old, new :
           states = pass.states /\ base = PassBase(pass) /\ old = stored \cup pass.logs
           /\ new = stored \cup Inserted
    OBVIOUS
  <2>2. new \subseteq old /\ \A x \in old : \E y \in new : y.record = x.record
    BY <2>1, <1>5
  <2>3. States' = states /\ baseline' = base /\ stored' = new
    BY <2>1, <1>3
  <2>4. \A k \in DOMAIN states : SoundState(states[k], base, old)
    BY <2>1, <1>2 DEF SoundMade
  <2>5. \A k \in DOMAIN States' : SoundState(States[k], baseline, stored)'
    <3> TAKE k \in DOMAIN States'
    <3>1. PICK s : s = states[k]
      OBVIOUS
    <3>2. SoundState(s, base, old)
      BY <3>1, <2>3, <2>4
    <3>3. SoundState(s, base, new)
      BY <3>2, <2>2 DEF SoundState
    <3>4. SoundState(s, base, new)'
      BY <3>3, <1>4 DEF SoundState
    <3> QED
      BY <3>1, <3>4, <2>3
  <2>6. \A j, k \in DOMAIN states : j # k => states[j].gen # states[k].gen
    BY <2>1, <1>2 DEF SoundMade
  <2> QED
    BY <2>3, <2>5, <2>6 DEF SoundCursor
<1>8. SoundPass'
  BY <1>3 DEF SoundPass
<1> QED
  BY <1>3, <1>6, <1>7, <1>8 DEF Sound

LEMMA PassStepSound ==
  ASSUME HostTrue, Sound,
         BeginPass \/ StatNext \/ EnterUnread \/ MeasureArchive \/ ReadPrefix \/ MatchNext
         \/ SkipFile \/ ReadFile \/ CheckFile \/ PathMissing \/ CommitPass \/ BatchLost
  PROVE  HostTrue' /\ Sound'
<1>1. ASSUME BeginPass
      PROVE  HostTrue' /\ Sound'
  <2>1. Budget \in Nat /\ 1 \in Nat
    BY RemoteLogAssumption
  <2>2. Begin(Budget, 1) /\ UNCHANGED <<hostVars, savedVars>>
    BY <1>1 DEF BeginPass
  <2> QED
    BY <2>1, <2>2, BeginSound
<1>2. ASSUME PathMissing \/ BatchLost
      PROVE  HostTrue' /\ Sound'
  <2>1. pass' = NoPass /\ UNCHANGED <<hostVars, savedVars>>
    BY <1>2 DEF PathMissing, BatchLost, PassIs
  <2> QED
    BY <2>1, NoneSound
<1> QED
  BY <1>1, <1>2, StatNextSound, EnterUnreadSound, MeasureArchiveSound, ReadPrefixSound,
     MatchNextSound, SkipFileSound, ReadFileSound, CheckFileSound, CommitSound

\* What is sound is so in the beginning, and stays so.
LEMMA InitSound ==
  ASSUME RemoteLogInit
  PROVE  HostTrue /\ Sound
<1>1. PICK new, old : new = File(2, 2, 2) /\ old = File(1, 1, 1)
  OBVIOUS
<1>2. /\ remoteFiles = <<new, old>> /\ written = 2 /\ copy = NoCopy /\ firsts = {1, 2}
  BY <1>1 DEF RemoteLogInit
<1>3. /\ new \in Files /\ new.id = 2 /\ new.gz = FALSE /\ new.first = 2 /\ new.last = 2
      /\ old \in Files /\ old.id = 1 /\ old.gz = FALSE /\ old.first = 1 /\ old.last = 1
      /\ 2 \in 2 .. MaxRecord /\ 2 \in 1 .. MaxFiles
  <2>1. 1 \in Inodes /\ 2 \in Inodes /\ 2 \in 2 .. MaxRecord /\ 2 \in 1 .. MaxFiles
    BY RemoteLogAssumption DEF Inodes
  <2> QED
    BY <2>1, <1>1 DEF File, Files
<1>4. remoteFiles \in Seq(Files) /\ Len(remoteFiles) = 2 /\ DOMAIN remoteFiles = {1, 2}
      /\ remoteFiles[1] = new /\ remoteFiles[2] = old
  BY <1>2, <1>3
<1>5. InodesTrue
  BY <1>2, <1>3, <1>4 DEF InodesTrue
<1>6. HostTrue
  BY <1>2, <1>3, <1>4, <1>5 DEF HostTrue
<1>7. /\ cursor = NoCursor /\ stored = {} /\ pass = NoPass /\ baseline = 0 /\ blurred = 0
      /\ listed = {} /\ gone = {} /\ States = <<>>
  BY DEF RemoteLogInit, States
<1>8. Sound
  BY <1>7, FS_EmptySet DEF Sound, SoundRows, SoundCursor, SoundPass
<1> QED
  BY <1>6, <1>8

LEMMA StepSound ==
  ASSUME Headed, HostTrue, Sound, [RemoteLogNext]_remoteLogVars
  PROVE  HostTrue' /\ Sound'
<1>1. ASSUME HostStep
      PROVE  HostTrue' /\ Sound'
  BY <1>1, HostSound
<1>2. ASSUME UNCHANGED remoteLogVars
      PROVE  HostTrue' /\ Sound'
  <2>1. CASE pass = NoPass
    <3>1. pass' = NoPass /\ UNCHANGED <<hostVars, savedVars>>
      BY <2>1, <1>2 DEF remoteLogVars
    <3> QED
      BY <3>1, NoneSound
  <2>2. CASE pass # NoPass
    <3>1. /\ pass \in Passes /\ SoundListing(pass) /\ SoundMatches(pass) /\ SoundMade(pass)
          /\ SoundData(pass)
      BY <2>2 DEF Sound, SoundPass
    <3>2. UNCHANGED <<hostVars, savedVars>> /\ pass' = pass
      BY <1>2 DEF remoteLogVars
    <3>3. HostTrue' /\ HostGrows
      BY <3>2, StillGrows
    <3>4. SoundData(pass)'
      BY <3>1, <3>2, <3>3, SoundDataStays
    <3> QED
      BY <3>1, <3>2, <3>4, NextSound
  <2> QED
    BY <2>1, <2>2
<1>3. ASSUME RemoteLogNext, ~ HostStep
      PROVE  HostTrue' /\ Sound'
  BY <1>3, PassStepSound DEF RemoteLogNext, HostStep
<1> QED
  BY <1>1, <1>2, <1>3

-----------------------------------------------------------------------------
(* Listing files that do not move.                                         *)

\* Every file keeps its place and its name, and only the active one grows.
FilesStand ==
    /\ UNCHANGED <<copy, firsts, savedVars>> /\ Len(remoteFiles') = Len(remoteFiles)
    /\ \A i \in DOMAIN remoteFiles :
          /\ remoteFiles'[i].id = remoteFiles[i].id /\ remoteFiles'[i].gz = remoteFiles[i].gz
          /\ remoteFiles'[i].first = remoteFiles[i].first
          /\ remoteFiles[i].last <= remoteFiles'[i].last
          /\ i # 1 => remoteFiles'[i].last = remoteFiles[i].last

LEMMA WriteStands ==
  ASSUME HostTrue, WriteRecord
  PROVE  FilesStand
<1>1. /\ remoteFiles' = [remoteFiles EXCEPT ![1].last = @ + 1]
      /\ UNCHANGED <<copy, firsts, savedVars>>
  BY DEF WriteRecord
<1>2. /\ remoteFiles \in Seq(Files) /\ 1 \in DOMAIN remoteFiles /\ remoteFiles[1] \in Files
      /\ \A i \in DOMAIN remoteFiles : remoteFiles[i].last \in Nat
  BY FilesShape
<1>3. PICK g : g = [remoteFiles[1] EXCEPT !.last = @ + 1]
  OBVIOUS
<1>4. /\ g \in Files /\ g.id = remoteFiles[1].id /\ g.gz = remoteFiles[1].gz
      /\ g.first = remoteFiles[1].first /\ g.last = remoteFiles[1].last + 1
  BY <1>2, <1>3 DEF Files
<1>5. remoteFiles' = [remoteFiles EXCEPT ![1] = g]
  BY <1>1, <1>3
<1>6. Len(remoteFiles') = Len(remoteFiles)
  BY <1>2, <1>4, <1>5, ExceptSeq
<1>7. ASSUME NEW i \in DOMAIN remoteFiles
      PROVE  /\ remoteFiles'[i].id = remoteFiles[i].id /\ remoteFiles'[i].gz = remoteFiles[i].gz
             /\ remoteFiles'[i].first = remoteFiles[i].first
             /\ remoteFiles[i].last <= remoteFiles'[i].last
             /\ i # 1 => remoteFiles'[i].last = remoteFiles[i].last
  <2>1. CASE i = 1
    BY <2>1, <1>2, <1>4, <1>5
  <2>2. CASE i # 1
    BY <2>2, <1>2, <1>5
  <2> QED
    BY <2>1, <2>2
<1> QED
  BY <1>1, <1>6, <1>7 DEF FilesStand

LEMMA SameStands ==
  ASSUME HostTrue, UNCHANGED <<hostVars, savedVars>>
  PROVE  FilesStand
<1>1. \A i \in DOMAIN remoteFiles : remoteFiles[i].last <= remoteFiles[i].last
  BY FilesShape
<1> QED
  BY <1>1 DEF FilesStand, hostVars

\* What was written and is no longer on the host stays the same.
LEMMA GoneStays ==
  ASSUME HostTrue, HostTrue', HostGrows, FilesStand
  PROVE  ((1 .. written) \ Present)' = (1 .. written) \ Present
<1>1. /\ DOMAIN remoteFiles' = DOMAIN remoteFiles /\ 1 \in DOMAIN remoteFiles
      /\ written \in Nat /\ written' \in Nat /\ written <= written'
  <2>1. DOMAIN remoteFiles' = 1 .. Len(remoteFiles') /\ DOMAIN remoteFiles = 1 .. Len(remoteFiles)
    BY DEF HostTrue
  <2> QED
    BY <2>1, FilesShape, ShapeStays DEF FilesStand, HostGrows
<1>2. \A i \in DOMAIN remoteFiles : /\ remoteFiles[i].first \in Nat /\ remoteFiles[i].last \in Nat
                                    /\ remoteFiles'[i].first \in Nat /\ remoteFiles'[i].last \in Nat
  <2>1. \A i \in DOMAIN remoteFiles' : remoteFiles'[i] \in Files
    BY DEF HostTrue
  <2> QED
    BY <2>1, <1>1, FilesShape DEF Files
<1>3. remoteFiles[1].last = written /\ remoteFiles'[1].last = written'
      /\ remoteFiles[1].first <= written
  BY <1>1 DEF HostTrue
<1>4. \A r : r \in Present <=> \E i \in DOMAIN remoteFiles : r \in Records(remoteFiles[i])
  BY DEF Present, Range
<1>5. \A r : r \in Present' <=> \E i \in DOMAIN remoteFiles' : r \in Records(remoteFiles'[i])
  BY DEF Present, Range
<1>6. ASSUME NEW r \in 1 .. written, r \notin Present
      PROVE  r \in 1 .. written' /\ r \notin Present'
  <2>1. ASSUME NEW i \in DOMAIN remoteFiles, r \in Records(remoteFiles'[i])
        PROVE  r \in Records(remoteFiles[i])
    <3>1. CASE i = 1
      BY <3>1, <2>1, <1>1, <1>2, <1>3 DEF Records, FilesStand
    <3>2. CASE i # 1
      BY <3>2, <2>1 DEF Records, FilesStand
    <3> QED
      BY <3>1, <3>2
  <2> QED
    BY <2>1, <1>1, <1>4, <1>5, <1>6
<1>7. ASSUME NEW r \in 1 .. written', r \notin Present'
      PROVE  r \in 1 .. written /\ r \notin Present
  <2>1. r \notin Records(remoteFiles'[1])
    BY <1>1, <1>5, <1>7
  <2>2. r \in 1 .. written
    BY <2>1, <1>1, <1>2, <1>3, <1>7 DEF Records, FilesStand
  <2>3. ASSUME NEW i \in DOMAIN remoteFiles, r \in Records(remoteFiles[i])
        PROVE  r \in Records(remoteFiles'[i])
    BY <2>3, <1>2 DEF Records, FilesStand
  <2> QED
    BY <2>2, <2>3, <1>1, <1>4, <1>5, <1>7
<1> QED
  BY <1>6, <1>7

LEMMA UnmovedStays ==
  ASSUME HostTrue, HostTrue', HostGrows, FilesStand, LogRowsTrue, NEW p \in Passes, Unmoved(p)
  PROVE  Unmoved(p)'
<1>1. /\ cursor' = cursor /\ stored' = stored /\ States' = States /\ copy' = copy
      /\ Len(remoteFiles') = Len(remoteFiles) /\ DOMAIN remoteFiles' = DOMAIN remoteFiles
      /\ DOMAIN remoteFiles = 1 .. Len(remoteFiles) /\ Len(remoteFiles) \in Nat
  <2>1. DOMAIN remoteFiles' = 1 .. Len(remoteFiles') /\ DOMAIN remoteFiles = 1 .. Len(remoteFiles)
        /\ Len(remoteFiles) \in Nat
    BY DEF HostTrue
  <2> QED
    BY <2>1 DEF FilesStand, savedVars, States
<1>2. p.files \in Seq(ListedFiles) /\ p.seen \in Seq(Entries) /\ p.found \in Seq(Nat)
  BY DEF Passes
<1>3. \A e : MetadataOnly(e)' <=> MetadataOnly(e)
  BY <1>1 DEF MetadataOnly
<1>4. \A e : e.file \in Files /\ Placed(e) => Placed(e)'
  <2> SUFFICES ASSUME NEW e, e.file \in Files, Placed(e)
               PROVE  Placed(e)'
    OBVIOUS
  <2>1. PICK i, f : i = e.path /\ f = e.file
    OBVIOUS
  <2>2. /\ i \in DOMAIN remoteFiles /\ f.last \in Nat
        /\ f.id = remoteFiles[i].id /\ f.gz = remoteFiles[i].gz
        /\ f.first = remoteFiles[i].first /\ f.first <= f.last
        /\ IF i = 1 THEN f.last <= remoteFiles[i].last ELSE f.last = remoteFiles[i].last
        /\ \A k \in DOMAIN States :
              States[k].stamp[2] = f.first => States[k].stamp[3] <= f.last
    BY <2>1 DEF Placed, Files
  <2>3. remoteFiles[i].last \in Nat /\ remoteFiles'[i].last \in Nat
    <3>1. \A j \in DOMAIN remoteFiles' : remoteFiles'[j] \in Files
      BY DEF HostTrue
    <3> QED
      BY <3>1, <2>2, <1>1, FilesShape DEF Files
  <2>4. /\ f.id = remoteFiles'[i].id /\ f.gz = remoteFiles'[i].gz
        /\ f.first = remoteFiles'[i].first
        /\ IF i = 1 THEN f.last <= remoteFiles'[i].last ELSE f.last = remoteFiles'[i].last
    BY <2>2, <2>3 DEF FilesStand
  <2> QED
    BY <2>1, <2>2, <2>4, <1>1 DEF Placed
<1>5. \A j \in DOMAIN p.seen : Placed(p.seen[j])'
  <2> TAKE j \in DOMAIN p.seen
  <2>1. PICK e \in Entries : e = p.seen[j]
    BY <1>2
  <2>2. Placed(e) /\ e.file \in Files
    BY <2>1 DEF Unmoved, Entries
  <2> QED
    BY <2>1, <2>2, <1>4
<1>6. \A i \in DOMAIN p.files : Entered(p.files[i])'
  <2> TAKE i \in DOMAIN p.files
  <2>1. PICK l \in ListedFiles : l = p.files[i]
    BY <1>2
  <2>2. Entered(l) /\ l.file \in Files
    BY <2>1 DEF Unmoved, ListedFiles
  <2>3. Entered(l)'
    BY <2>2, <1>3, <1>4 DEF Entered
  <2> QED
    BY <2>1, <2>3
<1>7. \A i \in DOMAIN p.found : MatchTrue(p.found[i], p.files[i])'
  <2>1. \A x \in stored : x.record \in Nat /\ x.record <= written
    BY RowsBounded
  <2>2. \A h : \A x \in stored : IsHome(h, x.record)' <=> IsHome(h, x.record)
    BY <2>1, HomeStays
  <2>3. \A k, l : MatchTrue(k, l) => MatchTrue(k, l)'
    BY <2>2, <1>1 DEF MatchTrue
  <2> QED
    BY <2>3 DEF Unmoved
<1>8. p.gone = ((1 .. written) \ Present)'
  BY GoneStays DEF Unmoved
<1>9. p.pc = "list" =>
         p.names = {<<i, remoteFiles'[i].gz>> : i \in Len(p.seen) + 1 .. Len(remoteFiles')}
  <2>1. ASSUME p.pc = "list"
        PROVE  p.names = {<<i, remoteFiles'[i].gz>> : i \in Len(p.seen) + 1 .. Len(remoteFiles')}
    <3>1. p.names = {<<i, remoteFiles[i].gz>> : i \in Len(p.seen) + 1 .. Len(remoteFiles)}
      BY <2>1 DEF Unmoved
    <3>2. \A i \in Len(p.seen) + 1 .. Len(remoteFiles) : remoteFiles'[i].gz = remoteFiles[i].gz
      <4>1. Len(p.seen) \in Nat
        BY <1>2
      <4>2. \A i \in Len(p.seen) + 1 .. Len(remoteFiles) : i \in DOMAIN remoteFiles
        BY <4>1, <1>1
      <4> QED
        BY <4>2 DEF FilesStand
    <3> QED
      BY <3>1, <3>2, <1>1
  <2> QED
    BY <2>1
<1> QED
  BY <1>1, <1>3, <1>5, <1>6, <1>7, <1>8, <1>9 DEF Unmoved

LEMMA BeginUnmoved ==
  ASSUME HostTrue, copy = NoCopy, NEW budget, NEW attempt, Begin(budget, attempt),
         NEW q, pass' = q
  PROVE  Unmoved(q)
<1>1. PICK names : names = LogNames
  OBVIOUS
<1>2. q = [pc |-> "list", names |-> names,
           seen |-> <<>>, size |-> 0, files |-> <<>>, found |-> <<>>, gap |-> FALSE,
           states |-> <<>>, logs |-> {}, data |-> {}, left |-> budget,
           budget |-> budget, attempt |-> attempt,
           gone |-> (1 .. written) \ Present, moved |-> copy # NoCopy]
  BY <1>1 DEF Begin, PassIs
<1>3. /\ q.pc = "list" /\ q.names = names /\ q.seen = <<>> /\ q.files = <<>> /\ q.found = <<>>
      /\ q.gone = (1 .. written) \ Present
  BY <1>2
<1>4. /\ DOMAIN remoteFiles = 1 .. Len(remoteFiles) /\ Len(remoteFiles) \in Nat \ {0}
      /\ \A i \in DOMAIN remoteFiles : remoteFiles[i].gz \in BOOLEAN
  BY FilesShape DEF Files
<1>5. \A i \in DOMAIN remoteFiles, gz \in BOOLEAN : Exists(i, gz) <=> gz = remoteFiles[i].gz
  <2>1. copy.of \notin DOMAIN remoteFiles
    BY <1>4 DEF NoCopy
  <2> QED
    BY <2>1, <1>4 DEF Exists
<1>6. names = {<<i, remoteFiles[i].gz>> : i \in 1 .. Len(remoteFiles)}
  <2>1. ASSUME NEW x \in names
        PROVE  x \in {<<i, remoteFiles[i].gz>> : i \in 1 .. Len(remoteFiles)}
    <3>1. x \in (DOMAIN remoteFiles) \X BOOLEAN /\ Exists(x[1], x[2])
      BY <1>1 DEF LogNames
    <3>2. x = <<x[1], x[2]>> /\ x[1] \in DOMAIN remoteFiles /\ x[2] \in BOOLEAN
      BY <3>1
    <3>3. x[2] = remoteFiles[x[1]].gz
      BY <3>1, <3>2, <1>5
    <3> QED
      BY <3>2, <3>3, <1>4
  <2>2. ASSUME NEW i \in 1 .. Len(remoteFiles)
        PROVE  <<i, remoteFiles[i].gz>> \in names
    <3>1. i \in DOMAIN remoteFiles /\ remoteFiles[i].gz \in BOOLEAN /\ Exists(i, remoteFiles[i].gz)
      BY <1>4, <1>5
    <3> QED
      BY <3>1, <1>1 DEF LogNames
  <2> QED
    BY <2>1, <2>2
<1>7. Len(q.seen) = 0 /\ DOMAIN q.seen = {} /\ DOMAIN q.files = {} /\ DOMAIN q.found = {}
  BY <1>3
<1>8. q.names = {<<i, remoteFiles[i].gz>> : i \in Len(q.seen) + 1 .. Len(remoteFiles)}
  BY <1>3, <1>6, <1>7
<1> QED
  BY <1>3, <1>4, <1>7, <1>8 DEF Unmoved

LEMMA StatNextUnmoved ==
  ASSUME HostTrue, Sound, CursorTrue, StatNext, Unmoved(pass), NEW q, pass' = q
  PROVE  Unmoved(q)
<1>1. pass.pc = "list" /\ pass \in Passes
  BY PassSound DEF StatNext
<1>2. pass.seen \in Seq(Entries)
  BY <1>1 DEF Passes
<1>3. PICK m, n, names : m = Len(pass.seen) /\ n = Len(remoteFiles) /\ names = pass.names
  OBVIOUS
<1>4. /\ copy = NoCopy /\ pass.gone = (1 .. written) \ Present /\ pass.files = <<>>
      /\ pass.found = <<>> /\ m \in Nat /\ n \in Nat /\ m < n
      /\ names = {<<i, remoteFiles[i].gz>> : i \in m + 1 .. n}
      /\ DOMAIN remoteFiles = 1 .. n
      /\ \A j \in DOMAIN pass.seen : pass.seen[j].path = j /\ Placed(pass.seen[j])
  <2>1. m \in Nat /\ n \in Nat /\ DOMAIN remoteFiles = 1 .. n
    BY <1>2, <1>3, FilesShape
  <2>2. \A j \in DOMAIN pass.seen : Len(<<>>) + j = j
    BY <1>2
  <2> QED
    BY <2>1, <2>2, <1>1, <1>3 DEF Unmoved
<1>5. PICK name \in names :
         /\ \A other \in names \ {name} : NameBefore(name, other)
         /\ pass' = [pass EXCEPT !.names = @ \ {name}, !.seen = @ \o Stat(name),
                                 !.pc = IF names = {name} THEN "look" ELSE @]
  BY <1>3 DEF StatNext, PassIs
<1>6. PICK p : p = m + 1
  OBVIOUS
<1>7. name = <<p, remoteFiles[p].gz>> /\ p \in 1 .. n /\ p \in Nat
  <2>1. PICK i \in m + 1 .. n : name = <<i, remoteFiles[i].gz>>
    BY <1>4
  <2>2. ASSUME i # p
        PROVE  FALSE
    <3>1. <<p, remoteFiles[p].gz>> \in names /\ <<p, remoteFiles[p].gz>> # name
      BY <2>1, <2>2, <1>4, <1>6
    <3>2. NameBefore(<<i, remoteFiles[i].gz>>, <<p, remoteFiles[p].gz>>)
      BY <3>1, <2>1, <1>5
    <3> QED
      BY <3>2, <2>1, <2>2, <1>4, <1>6 DEF NameBefore
  <2> QED
    BY <2>1, <2>2, <1>4, <1>6
<1>8. PICK f, gz : f = remoteFiles[p] /\ gz = f.gz
  OBVIOUS
<1>9. f \in Files /\ gz \in BOOLEAN /\ f.first <= f.last /\ f.last \in Nat
  <2>1. f \in Files /\ f.first <= f.last
    BY <1>4, <1>7, <1>8, FilesShape DEF HostTrue
  <2> QED
    BY <2>1, <1>8 DEF Files
<1>10. PICK e : e = [path |-> p, file |-> f]
  OBVIOUS
<1>11. e \in Entries /\ Placed(e) /\ e.path = p
  <2>1. e \in Entries /\ e.path = p /\ e.file = f
    BY <1>7, <1>9, <1>10 DEF Entries
  <2>2. p \in DOMAIN remoteFiles
    BY <1>4, <1>7
  <2>3. ASSUME NEW k \in DOMAIN States, States[k].stamp[2] = f.first
        PROVE  States[k].stamp[3] <= f.last
    <3>1. StateTrue(States[k], baseline, stored)
      BY DEF CursorTrue
    <3> QED
      BY <3>1, <2>2, <2>3, <1>8 DEF StateTrue, Seen
  <2> QED
    BY <2>1, <2>2, <2>3, <1>8, <1>9 DEF Placed
<1>12. Stat(name) = <<e>>
  <2>1. Exists(p, gz) /\ FileAt(p, gz) = f
    BY <1>4, <1>7, <1>8 DEF Exists, FileAt
  <2>2. ASSUME NEW x \in Range(pass.seen), x.path = 1, x.file.id = f.id
        PROVE  FALSE
    <3>1. PICK j \in DOMAIN pass.seen : x = pass.seen[j]
      BY DEF Range
    <3>2. j = 1 /\ Placed(x)
      BY <3>1, <2>2, <1>4
    <3>3. x.file.id = remoteFiles[1].id
      BY <3>2, <2>2 DEF Placed
    <3>4. p # 1 /\ 1 \in DOMAIN remoteFiles /\ p \in DOMAIN remoteFiles
      BY <3>1, <3>2, <1>2, <1>3, <1>4, <1>6, <1>7
    <3> QED
      BY <3>3, <3>4, <2>2, <1>8 DEF HostTrue, InodesTrue
  <2>3. name[1] = p /\ name[2] = gz
    BY <1>7, <1>8
  <2>4. Stat(name) = <<[path |-> name[1], file |-> FileAt(name[1], name[2])]>>
    BY <2>1, <2>2, <2>3 DEF Stat
  <2> QED
    BY <2>1, <2>3, <2>4, <1>10
<1>13. PICK seen : seen = pass.seen \o <<e>>
  OBVIOUS
<1>14. /\ seen \in Seq(Entries) /\ Len(seen) = m + 1 /\ DOMAIN seen = 1 .. m + 1
       /\ seen[m + 1] = e /\ \A j \in DOMAIN pass.seen : seen[j] = pass.seen[j]
       /\ DOMAIN pass.seen = 1 .. m
  BY <1>2, <1>3, <1>11, <1>13, Joined
<1>15. PICK pc : pc = IF names = {name} THEN "look" ELSE "list"
  OBVIOUS
<1>16. q = [pass EXCEPT !.names = names \ {name}, !.seen = seen, !.pc = pc]
  BY <1>1, <1>3, <1>5, <1>12, <1>13, <1>15
<1>17. /\ q.pc = pc /\ q.names = names \ {name} /\ q.seen = seen /\ q.files = <<>>
       /\ q.found = <<>> /\ q.gone = pass.gone
  BY <1>1, <1>4, <1>16 DEF Passes
<1>18. names \ {name} = {<<i, remoteFiles[i].gz>> : i \in m + 2 .. n}
  <2>1. \A i \in m + 1 .. n : i = p \/ i \in m + 2 .. n
    BY <1>4, <1>6
  <2>2. \A i \in m + 2 .. n : i \in m + 1 .. n /\ i # p
    BY <1>4, <1>6
  <2>3. \A i, j : <<i, remoteFiles[i].gz>> = <<j, remoteFiles[j].gz>> => i = j
    OBVIOUS
  <2>4. \A x \in names \ {name} : \E i \in m + 2 .. n : x = <<i, remoteFiles[i].gz>>
    BY <2>1, <1>4, <1>7
  <2>5. \A i \in m + 2 .. n : <<i, remoteFiles[i].gz>> \in names \ {name}
    BY <2>2, <2>3, <1>4, <1>7
  <2> QED
    BY <2>4, <2>5
<1>19. names = {name} <=> m + 1 = n
  <2>1. ASSUME names = {name}
        PROVE  m + 1 = n
    <3>1. ASSUME m + 2 \in m + 2 .. n
          PROVE  FALSE
      <4>1. <<m + 2, remoteFiles[m + 2].gz>> \in names \ {name}
        BY <3>1, <1>18
      <4> QED
        BY <4>1, <2>1
    <3> QED
      BY <3>1, <1>4
  <2>2. ASSUME m + 1 = n
        PROVE  names = {name}
    <3>1. \A i : i \notin m + 2 .. n
      BY <2>2, <1>4
    <3>2. names \ {name} = {}
      BY <3>1, <1>18
    <3> QED
      BY <3>2, <1>5
  <2> QED
    BY <2>1, <2>2
<1>20. \A j \in DOMAIN seen : seen[j].path = j /\ Placed(seen[j])
  <2>1. \A j \in DOMAIN seen : j \in DOMAIN pass.seen \/ j = m + 1
    BY <1>4, <1>14
  <2> QED
    BY <2>1, <1>4, <1>6, <1>11, <1>14
<1>21. /\ pc = "list" => /\ Len(seen) < n
                         /\ names \ {name} = {<<i, remoteFiles[i].gz>> : i \in Len(seen) + 1 .. n}
       /\ pc # "list" => Len(seen) = n
       /\ seen # <<>>
  <2>1. pc = "list" <=> m + 1 # n
    BY <1>15, <1>19
  <2>2. Len(seen) + 1 = m + 2
    BY <1>4, <1>14
  <2> QED
    BY <2>1, <2>2, <1>4, <1>14, <1>18
<1>22. pc \in {"list", "look"} /\ DOMAIN q.files = {} /\ DOMAIN q.found = {} /\ Len(q.files) = 0
  BY <1>15, <1>17
<1>23. \A j \in DOMAIN q.seen : q.seen[j].path = Len(q.files) + j /\ Placed(q.seen[j])
  <2>1. \A j \in DOMAIN seen : 0 + j = j
    BY <1>4, <1>14
  <2> QED
    BY <2>1, <1>17, <1>20, <1>22
<1>24. Len(q.seen) + Len(q.files) = Len(q.seen)
  BY <1>4, <1>14, <1>17, <1>22
<1> QED
  BY <1>3, <1>4, <1>17, <1>21, <1>22, <1>23, <1>24 DEF Unmoved

LEMMA EnterUnmoved ==
  ASSUME HostTrue, Sound, pass.pc \in {"look", "sized"}, Unmoved(pass),
         NEW meta, NEW size, NEW prefix, Enter(meta, size, prefix),
         NEW l \in ListedFiles, Entered(l),
         l = [path |-> Head(pass.seen).path, file |-> Head(pass.seen).file,
              active |-> Head(pass.seen).path = 1, meta |-> meta, size |-> size,
              prefix |-> prefix],
         NEW q, pass' = q
  PROVE  Unmoved(q)
<1>1. pass \in Passes
  BY PassSound
<1>2. pass.seen \in Seq(Entries) /\ pass.files \in Seq(ListedFiles)
  BY <1>1 DEF Passes
<1>3. PICK n, seen : n = Len(pass.files) /\ seen = Tail(pass.seen)
  OBVIOUS
<1>4. n \in Nat /\ DOMAIN pass.files = 1 .. n
  BY <1>2, <1>3
<1>5. /\ copy = NoCopy /\ pass.gone = (1 .. written) \ Present /\ pass.seen # <<>>
      /\ pass.found = <<>> /\ Len(pass.seen) + n = Len(remoteFiles)
      /\ \A j \in DOMAIN pass.seen : pass.seen[j].path = n + j /\ Placed(pass.seen[j])
      /\ \A i \in DOMAIN pass.files : pass.files[i].path = n - i + 1 /\ Entered(pass.files[i])
  BY <1>3 DEF Unmoved
<1>6. /\ Head(pass.seen) = pass.seen[1] /\ 1 \in DOMAIN pass.seen
      /\ DOMAIN pass.seen = 1 .. Len(pass.seen) /\ Len(pass.seen) \in Nat \ {0}
      /\ seen \in Seq(Entries) /\ Len(seen) = Len(pass.seen) - 1
      /\ DOMAIN seen = 1 .. Len(pass.seen) - 1
      /\ \A j \in DOMAIN seen : j + 1 \in DOMAIN pass.seen /\ seen[j] = pass.seen[j + 1]
      /\ Len(pass.seen) = 1 <=> seen = <<>>
  <2>1. PICK s : s = pass.seen
    OBVIOUS
  <2>2. s \in Seq(Entries) /\ s # <<>> /\ seen = Tail(s)
    BY <2>1, <1>2, <1>3, <1>5
  <2>3. /\ Head(s) = s[1] /\ 1 \in DOMAIN s /\ DOMAIN s = 1 .. Len(s) /\ Len(s) \in Nat \ {0}
        /\ seen \in Seq(Entries) /\ Len(seen) = Len(s) - 1 /\ DOMAIN seen = 1 .. Len(s) - 1
        /\ \A j \in DOMAIN seen : j + 1 \in DOMAIN s /\ seen[j] = s[j + 1]
        /\ Len(s) = 1 <=> seen = <<>>
    BY <2>2, Rest
  <2> QED
    BY <2>1, <2>3
<1>7. PICK k \in 0 .. n :
          /\ \A i \in 1 .. k : SortsBefore(pass.files[i], l)
          /\ pass' = [pass EXCEPT !.files = InsertAt(@, k + 1, l), !.seen = Tail(@), !.size = 0,
                                  !.pc = IF Len(pass.seen) = 1 THEN "match" ELSE "look"]
  BY <1>3 DEF Enter, PassIs
<1>8. l.path = n + 1
  BY <1>5, <1>6
<1>9. k = 0
  <2>1. ASSUME k # 0
        PROVE  FALSE
    <3>1. 1 \in 1 .. k /\ 1 \in DOMAIN pass.files /\ n # 0
      BY <2>1, <1>4
    <3>2. PICK a \in ListedFiles : a = pass.files[1]
      BY <3>1, <1>2
    <3>3. SortsBefore(a, l) /\ a.path = n /\ Entered(a)
      <4>1. n - 1 + 1 = n
        BY <1>4
      <4> QED
        BY <4>1, <3>1, <3>2, <1>5, <1>7
    <3>4. ~ l.active
      BY <3>1, <1>4, <1>8 DEF Entered
    <3>5. /\ n \in DOMAIN remoteFiles /\ n + 1 \in DOMAIN remoteFiles
          /\ l.file.last = remoteFiles[n + 1].last
      BY <3>1, <3>3, <1>4, <1>8 DEF Entered, Placed
    <3>6. remoteFiles[n + 1].last < remoteFiles[n].first
      BY <3>5, <1>4 DEF HostTrue
    <3>7. /\ a.file.first = remoteFiles[n].first /\ a.file.first <= a.file.last
          /\ a.file.first \in Nat /\ a.file.last \in Nat /\ l.file.last \in Nat
      BY <3>2, <3>3 DEF Entered, Placed, ListedFiles, Files
    <3>8. l.file.last < a.file.last
      BY <3>5, <3>6, <3>7
    <3> QED
      BY <3>3, <3>4, <3>7, <3>8 DEF SortsBefore
  <2> QED
    BY <2>1
<1>10. PICK files, old : files = InsertAt(old, 1, l) /\ old = pass.files
  OBVIOUS
<1>11. /\ files \in Seq(ListedFiles) /\ Len(files) = n + 1 /\ DOMAIN files = 1 .. n + 1
       /\ files[1] = l /\ \A i \in 2 .. n + 1 : files[i] = pass.files[i - 1]
  <2>1. 1 \in 1 .. Len(old) + 1 /\ old \in Seq(ListedFiles)
    BY <1>2, <1>3, <1>4, <1>10
  <2>2. files \in Seq(ListedFiles) /\ PutAt(files, old, 1, l)
    BY <2>1, <1>10, Put
  <2>3. 1 + 1 = 2
    OBVIOUS
  <2> QED
    BY <2>2, <2>3, <1>3, <1>10 DEF PutAt
<1>12. PICK pc : pc = IF Len(pass.seen) = 1 THEN "match" ELSE "look"
  OBVIOUS
<1>13. q = [pass EXCEPT !.files = files, !.seen = seen, !.size = 0, !.pc = pc]
  <2>1. k + 1 = 1
    BY <1>9
  <2> QED
    BY <2>1, <1>3, <1>7, <1>10, <1>12
<1>14. /\ q.pc = pc /\ q.seen = seen /\ q.files = files /\ q.found = <<>> /\ q.gone = pass.gone
  BY <1>1, <1>5, <1>13 DEF Passes
<1>15. \A j \in DOMAIN seen : seen[j].path = n + 1 + j /\ Placed(seen[j])
  <2> TAKE j \in DOMAIN seen
  <2>0. j \in Nat /\ j + 1 \in DOMAIN pass.seen /\ seen[j] = pass.seen[j + 1]
    BY <1>6
  <2>1. n + (j + 1) = n + 1 + j /\ j + 1 \in DOMAIN pass.seen /\ seen[j] = pass.seen[j + 1]
    BY <2>0, <1>4
  <2> QED
    BY <2>1, <1>5
<1>16. \A i \in DOMAIN files : files[i].path = n + 1 - i + 1 /\ Entered(files[i])
  <2> TAKE i \in DOMAIN files
  <2>1. CASE i = 1
    <3>1. n + 1 - 1 + 1 = n + 1
      BY <1>4
    <3> QED
      BY <3>1, <2>1, <1>8, <1>11
  <2>2. CASE i # 1
    <3>1. i \in 2 .. n + 1 /\ i - 1 \in DOMAIN pass.files /\ n - (i - 1) + 1 = n + 1 - i + 1
      BY <2>2, <1>4, <1>11
    <3> QED
      BY <3>1, <1>5, <1>11
  <2> QED
    BY <2>1, <2>2
<1>17. Len(seen) + Len(files) = Len(remoteFiles) /\ Len(files) = n + 1
  <2>1. /\ Len(pass.seen) \in Nat /\ Len(seen) = Len(pass.seen) - 1
        /\ Len(pass.seen) + n = Len(remoteFiles) /\ Len(files) = n + 1
    BY <1>5, <1>6, <1>11
  <2>2. \A a \in Nat : a - 1 + (n + 1) = a + n
    BY <1>4
  <2> QED
    BY <2>1, <2>2
<1>18. /\ pc \in {"look", "match"} /\ (pc = "look" => seen # <<>>) /\ (pc = "match" => seen = <<>>)
       /\ DOMAIN q.found = {} /\ Len(q.found) = 0 /\ 0 < n + 1
  BY <1>4, <1>6, <1>12, <1>14
<1>19. \A j \in DOMAIN q.seen : q.seen[j].path = Len(q.files) + j /\ Placed(q.seen[j])
  BY <1>14, <1>15, <1>17
<1>20. \A i \in DOMAIN q.files : q.files[i].path = Len(q.files) - i + 1 /\ Entered(q.files[i])
  <2>1. q.files = files /\ Len(files) = n + 1
    BY <1>14, <1>17
  <2>2. \A i \in DOMAIN files : files[i].path = Len(files) - i + 1 /\ Entered(files[i])
    <3> TAKE i \in DOMAIN files
    <3>1. files[i].path = n + 1 - i + 1 /\ Entered(files[i])
      BY <1>16
    <3>2. Len(files) - i + 1 = n + 1 - i + 1
      BY <2>1, <1>4, <1>11
    <3> QED
      BY <3>1, <3>2
  <2> QED
    BY <2>1, <2>2
<1>21. /\ copy = NoCopy /\ q.gone = (1 .. written) \ Present
       /\ Len(q.seen) + Len(q.files) = Len(remoteFiles) /\ Len(q.files) = n + 1
  BY <1>5, <1>14, <1>17
<1>22. /\ q.pc \in {"look", "match"} /\ (q.pc = "look" => q.seen # <<>>)
       /\ (q.pc = "match" => q.seen = <<>>)
       /\ DOMAIN q.found = {} /\ Len(q.found) = 0 /\ q.found = <<>> /\ 0 < n + 1
  BY <1>14, <1>18
<1> QED
  BY <1>19, <1>20, <1>21, <1>22 DEF Unmoved

\* A file that is seen at its place, as it is listed.
LEMMA SeenPlaced ==
  ASSUME Sound, pass.pc \in {"look", "sized"}, Unmoved(pass), NEW e, e = Head(pass.seen)
  PROVE  e \in Entries /\ Placed(e) /\ e = pass.seen[1]
<1>1. pass.seen \in Seq(Entries) /\ pass.seen # <<>>
  BY PassSound DEF Passes, Unmoved
<1>2. e \in Entries /\ e = pass.seen[1] /\ 1 \in DOMAIN pass.seen
  BY <1>1, Rest
<1> QED
  BY <1>2 DEF Unmoved

LEMMA EnterUnreadUnmoved ==
  ASSUME HostTrue, Sound, EnterUnread, Unmoved(pass), NEW q, pass' = q
  PROVE  Unmoved(q)
<1>1. PICK e : e = Head(pass.seen)
  OBVIOUS
<1>2. pass.pc = "look" /\ MetadataOnly(e) /\ Enter(TRUE, 0, 0)
  BY <1>1 DEF EnterUnread
<1>3. e \in Entries /\ Placed(e)
  BY <1>1, <1>2, SeenPlaced
<1>4. PICK l : l = [path |-> e.path, file |-> e.file, active |-> e.path = 1, meta |-> TRUE,
                    size |-> 0, prefix |-> 0]
  OBVIOUS
<1>5. /\ l \in ListedFiles /\ l.path = e.path /\ l.file = e.file /\ (l.active <=> e.path = 1)
      /\ l.meta = TRUE /\ l.size = 0 /\ l.prefix = 0
  BY <1>3, <1>4 DEF ListedFiles, Entries
<1>6. MetadataOnly(l)
  BY <1>2, <1>5 DEF MetadataOnly
<1>7. Entered(l)
  BY <1>3, <1>5, <1>6 DEF Entered, Placed
<1> QED
  BY <1>1, <1>2, <1>4, <1>5, <1>7, EnterUnmoved

LEMMA MeasureArchiveUnmoved ==
  ASSUME HostTrue, Sound, MeasureArchive, Unmoved(pass), NEW q, pass' = q
  PROVE  Unmoved(q)
<1>1. PICK e, f : e = Head(pass.seen) /\ f = AtPath(e)
  OBVIOUS
<1>2. /\ pass.pc = "look" /\ ~ MetadataOnly(e) /\ e.file.gz = TRUE /\ PathExists(e)
      /\ q = [pass EXCEPT !.pc = "sized", !.size = Length(f)]
  BY <1>1 DEF MeasureArchive, LooksInto, PassIs
<1>3. e \in Entries /\ Placed(e) /\ e = pass.seen[1]
  BY <1>1, <1>2, SeenPlaced
<1>4. f = remoteFiles[e.path]
  <2>1. Exists(e.path, e.file.gz) /\ f = FileAt(e.path, e.file.gz) /\ e.file.gz \in BOOLEAN
        /\ copy = NoCopy
    BY <1>1, <1>2 DEF PathExists, AtPath, Unmoved
  <2> QED
    BY <2>1, FileFacts
<1>5. e.path # 1
  BY <1>2, <1>3 DEF Placed, HostTrue, InodesTrue
<1>6. Length(f) = Length(e.file)
  BY <1>3, <1>4, <1>5 DEF Placed, Length
<1>7. pass \in Passes
  BY <1>2, PassSound
<1>8. /\ q.pc = "sized" /\ q.size = Length(f) /\ q.seen = pass.seen /\ q.files = pass.files
      /\ q.found = pass.found /\ q.gone = pass.gone
  BY <1>2, <1>7 DEF Passes
<1> QED
  BY <1>2, <1>3, <1>6, <1>8 DEF Unmoved

LEMMA ReadPrefixUnmoved ==
  ASSUME HostTrue, Sound, ReadPrefix, Unmoved(pass), NEW q, pass' = q
  PROVE  Unmoved(q)
<1>1. PICK e, size, prefix, f :
         /\ e = Head(pass.seen) /\ f = AtPath(e)
         /\ size = IF e.file.gz THEN pass.size ELSE Length(e.file)
         /\ prefix = IF size = 0 THEN 0 ELSE FirstRecord(f)
  OBVIOUS
<1>2. LooksInto(FALSE) \/ pass.pc = "sized"
  BY DEF ReadPrefix
<1>3. pass.pc \in {"look", "sized"} /\ PathExists(e) /\ Enter(FALSE, size, prefix)
      /\ (pass.pc = "look" => ~ MetadataOnly(e) /\ e.file.gz = FALSE)
  BY <1>1, <1>2 DEF ReadPrefix, LooksInto
<1>4. e \in Entries /\ Placed(e) /\ e = pass.seen[1]
  BY <1>1, <1>3, SeenPlaced
<1>5. e.file.first \in Nat /\ e.file.last \in Nat /\ e.file.first <= e.file.last
      /\ e.file.gz \in BOOLEAN
  BY <1>4 DEF Entries, Files, Placed
<1>6. FirstRecord(f) = e.file.first
  <2>1. Exists(e.path, e.file.gz) /\ f = FileAt(e.path, e.file.gz) /\ copy = NoCopy
    BY <1>1, <1>3 DEF PathExists, AtPath, Unmoved
  <2>2. f = remoteFiles[e.path] /\ FirstRecord(f) = f.first
    BY <2>1, <1>5, FileFacts
  <2> QED
    BY <2>2, <1>4 DEF Placed
<1>7. size = Length(e.file) /\ size \in Nat \ {0}
  <2>1. e.file.gz => pass.pc = "sized"
    BY <1>3, <1>5
  <2>2. pass.pc = "sized" => pass.size = Length(e.file)
    BY <1>4 DEF Unmoved
  <2>3. Length(e.file) \in Nat \ {0}
    BY <1>5 DEF Length
  <2> QED
    BY <2>1, <2>2, <2>3, <1>1
<1>8. prefix = e.file.first
  BY <1>1, <1>6, <1>7
<1>9. ~ MetadataOnly(e)
  BY <1>3, <1>4 DEF Unmoved
<1>10. PICK l : l = [path |-> e.path, file |-> e.file, active |-> e.path = 1, meta |-> FALSE,
                     size |-> size, prefix |-> prefix]
  OBVIOUS
<1>11. /\ l \in ListedFiles /\ l.path = e.path /\ l.file = e.file /\ (l.active <=> e.path = 1)
       /\ l.meta = FALSE /\ l.size = size /\ l.prefix = prefix
  BY <1>4, <1>5, <1>7, <1>8, <1>10 DEF ListedFiles, Entries
<1>12. ~ MetadataOnly(l)
  BY <1>9, <1>11 DEF MetadataOnly
<1>13. Entered(l)
  BY <1>4, <1>7, <1>8, <1>11, <1>12 DEF Entered, Placed
<1> QED
  BY <1>1, <1>3, <1>10, <1>11, <1>13, EnterUnmoved

-----------------------------------------------------------------------------
(* Matching files that do not move.                                        *)

\* What is known of a file at its place is true of it.
LEMMA EnteredListed ==
  ASSUME HostTrue, NEW l \in ListedFiles, Entered(l)
  PROVE  ListedTrue(l)
<1>1. PICK i, f, r : i = l.path /\ f = l.file /\ r = remoteFiles[i]
  OBVIOUS
<1>2. /\ f \in Files /\ f.first \in Nat /\ f.last \in Nat
  BY <1>1 DEF ListedFiles, Files
<1>3. /\ i \in DOMAIN remoteFiles /\ f.id = r.id /\ f.gz = r.gz /\ f.first = r.first
      /\ f.first <= f.last /\ (i = 1 => f.last <= r.last) /\ (i # 1 => f.last = r.last)
      /\ (l.active <=> i = 1) /\ (l.meta <=> MetadataOnly(l))
      /\ l.size = (IF l.meta THEN 0 ELSE Length(f)) /\ l.prefix = (IF l.meta THEN 0 ELSE f.first)
  BY <1>1 DEF Entered, Placed
<1>4. /\ i \in Nat \ {0} /\ r.last \in Nat /\ r.first \in firsts /\ r.last <= written /\ written \in Nat
      /\ \A t \in firsts : t <= r.first \/ r.last < t
      /\ i > 1 => r.last + 1 \in firsts
      /\ firsts \subseteq Nat
  BY <1>1, <1>3, FilesShape DEF HostTrue
<1>5. \A j \in DOMAIN remoteFiles :
         /\ j \in Nat /\ remoteFiles[j].first \in Nat /\ remoteFiles[j].last \in Nat
         /\ remoteFiles[j].first <= remoteFiles[j].last
         /\ j < i => r.last < remoteFiles[j].first
         /\ i < j => remoteFiles[j].last < r.first
  BY <1>1, <1>3, FilesShape DEF HostTrue
<1>6. r.first <= r.last
  BY <1>1, <1>3, <1>5
<1>7. \A j \in DOMAIN remoteFiles : remoteFiles[j].first = f.first => j = i
  BY <1>2, <1>3, <1>4, <1>5, <1>6
<1>8. Seen(f.id, f.first, f.last, ~ l.active)
  <2>1. f.first \in firsts /\ f.first <= f.last /\ f.last <= written
        /\ \A t \in firsts : t <= f.first \/ f.last < t
    BY <1>2, <1>3, <1>4
  <2>2. ~ l.active => f.last + 1 \in firsts
    BY <1>3, <1>4
  <2>3. ASSUME NEW j \in DOMAIN remoteFiles, remoteFiles[j].first = f.first
        PROVE  /\ f.last <= remoteFiles[j].last
               /\ ~ l.active => j > 1 /\ f.last = remoteFiles[j].last
               /\ j = 1 => f.id = remoteFiles[j].id
    <3>1. j = i /\ remoteFiles[j] = r
      BY <2>3, <1>1, <1>7
    <3> QED
      BY <3>1, <1>2, <1>3, <1>4
  <2> QED
    BY <2>1, <2>2, <2>3 DEF Seen
<1>9. Newer(i, f.first)
  <2>1. \A j \in DOMAIN remoteFiles : j <= i => j = i \/ j < i
    BY <1>4, <1>5
  <2>2. \A j \in DOMAIN remoteFiles : j <= i => f.first <= remoteFiles[j].first
    BY <2>1, <1>1, <1>2, <1>3, <1>4, <1>5, <1>6
  <2>3. f.first <= written
    BY <1>2, <1>3, <1>4
  <2> QED
    BY <2>2, <2>3 DEF Newer
<1>10. l.meta =>
          ~ l.active /\ (cursor = NoCursor \/ \E k \in DOMAIN States : SameArchivedFile(States[k], f))
  BY <1>1, <1>3, <1>4 DEF MetadataOnly, Range
<1>11. cursor = NoCursor => (l.meta <=> ~ l.active)
  BY <1>1, <1>3, <1>4 DEF MetadataOnly
<1> QED
  BY <1>1, <1>3, <1>8, <1>9, <1>10, <1>11 DEF ListedTrue

\* A state that fits a file was read from a file with the same first record.
LEMMA CandidateFirst ==
  ASSUME NEW s, NEW base, NEW kept, StateTrue(s, base, kept), NEW l, ListedTrue(l),
         Candidate(s, l)
  PROVE  s.stamp[2] = l.file.first
<1>1. CASE l.meta
  <2>1. s.stamp = <<l.file.gz, l.file.first, l.file.last>>
    BY <1>1 DEF Candidate, SameArchivedFile, FileStamp
  <2> QED
    BY <2>1
<1>2. CASE ~ l.meta
  <2>1. ~ (s.meta /\ s.prefix = 0) /\ s.prefix \in {0, l.prefix} /\ l.prefix = l.file.first
    BY <1>2 DEF Candidate, ListedTrue
  <2> QED
    BY <2>1 DEF StateTrue
<1> QED
  BY <1>1, <1>2

\* One state fits: it is taken, unless an earlier file has taken it.
LEMMA MatchOfOne ==
  ASSUME NEW l, NEW T, NEW k \in DOMAIN States, DOMAIN States \subseteq Nat,
         Candidate(States[k], l), l.meta \/ CheckpointHolds(States[k], l), k \notin T,
         \A j \in DOMAIN States : Candidate(States[j], l) => j = k
  PROVE  MatchOf(l, T) = k
<1> DEFINE fit == {j \in DOMAIN States \ T :
                      Candidate(States[j], l) /\ (l.meta \/ CheckpointHolds(States[j], l))}
           same == {j \in fit : States[j].id = l.file.id}
<1>1. fit = {k}
  OBVIOUS
<1>2. same = {} \/ same = {k}
  BY <1>1
<1>3. (CHOOSE m \in {k} : \A j \in {k} : m <= j) = k
  <2>1. \A j \in {k} : k <= j
    OBVIOUS
  <2> QED
    BY <2>1
<1> HIDE DEF fit
<1>4. {k} # {}
  OBVIOUS
<1>5. CASE same = {}
  <2>1. MatchOf(l, T) = IF fit = {} THEN 0 ELSE CHOOSE m \in fit : \A j \in fit : m <= j
    BY <1>5 DEF MatchOf, fit
  <2> QED
    BY <2>1, <1>1, <1>3, <1>4
<1>6. CASE same = {k}
  <2>1. MatchOf(l, T) = IF same = {} THEN 0 ELSE CHOOSE m \in same : \A j \in same : m <= j
    BY <1>6, <1>4 DEF MatchOf, fit
  <2> QED
    BY <2>1, <1>6, <1>3, <1>4
<1> QED
  BY <1>2, <1>5, <1>6

LEMMA MatchOfNone ==
  ASSUME NEW l, NEW T, \A j \in DOMAIN States \ T : ~ Candidate(States[j], l)
  PROVE  MatchOf(l, T) = 0
<1>1. {j \in DOMAIN States \ T :
          Candidate(States[j], l) /\ (l.meta \/ CheckpointHolds(States[j], l))} = {}
  OBVIOUS
<1> QED
  BY <1>1 DEF MatchOf

\* A state that has passed records of a file at its place fits it.
LEMMA CandidateIf ==
  ASSUME HostTrue, CursorTrue, NEW l \in ListedFiles, Entered(l), NEW k \in DOMAIN States,
         States[k].prefix = l.file.first
  PROVE  Candidate(States[k], l)
<1>1. PICK i, f : i = l.path /\ f = l.file
  OBVIOUS
<1>2. PICK s \in FileStates : s = States[k] /\ StateTrue(s, baseline, stored)
  BY StatesShape DEF CursorTrue
<1>3. ListedTrue(l)
  BY EnteredListed
<1>4. /\ i \in DOMAIN remoteFiles /\ f.id = remoteFiles[i].id /\ f.first = remoteFiles[i].first
      /\ (l.active <=> i = 1) /\ l.size = (IF l.meta THEN 0 ELSE Length(f))
      /\ s.stamp[2] = f.first => s.stamp[3] <= f.last
  BY <1>1, <1>2 DEF Entered, Placed
<1>5. f.first \in Nat /\ f.last \in Nat /\ f.first # 0
  <2>1. f \in Files
    BY <1>1 DEF ListedFiles
  <2>2. firsts \subseteq 1 .. written /\ f.first \in firsts /\ written \in Nat
    BY <1>4, FilesShape DEF HostTrue
  <2> QED
    BY <2>1, <2>2 DEF Files
<1>6. s.prefix = f.first /\ s.stamp[2] = f.first /\ s.prefix # 0
      /\ s.stamp[2] + s.offset <= s.stamp[3] + 1
  BY <1>1, <1>2, <1>5 DEF StateTrue
<1>7. s.offset \in Nat /\ s.stamp[3] \in Nat /\ s.stamp[2] \in Nat
  BY DEF FileStates
<1>8. i = 1 => s.id = f.id
  BY <1>2, <1>4, <1>6 DEF StateTrue, Seen
<1>9. CASE ~ l.meta
  <2>1. l.size = f.last - f.first + 1 /\ l.prefix = f.first
    BY <1>1, <1>3, <1>9 DEF ListedTrue, Length
  <2>2. l.size >= s.offset
    BY <2>1, <1>4, <1>5, <1>6, <1>7
  <2> QED
    BY <2>1, <2>2, <1>1, <1>2, <1>4, <1>6, <1>8, <1>9 DEF Candidate
<1>10. CASE l.meta
  <2>1. cursor # NoCursor
    BY DEF States
  <2>2. PICK j \in DOMAIN States : SameArchivedFile(States[j], f)
    BY <2>1, <1>1, <1>3, <1>10 DEF ListedTrue
  <2>3. Candidate(States[j], l)
    BY <2>2, <1>1, <1>10 DEF Candidate
  <2>4. States[j].stamp[2] = f.first
    BY <2>3, <1>1, <1>3, CandidateFirst DEF CursorTrue
  <2>5. j = k
    BY <2>4, <1>2, <1>6 DEF CursorTrue
  <2> QED
    BY <2>3, <2>5
<1> QED
  BY <1>9, <1>10

\* The record before the offset of a state that fits is where it was.
LEMMA CheckpointThere ==
  ASSUME HostTrue, CursorTrue, NEW l \in ListedFiles, Entered(l), NEW k \in DOMAIN States,
         Candidate(States[k], l)
  PROVE  l.meta \/ CheckpointHolds(States[k], l)
<1>1. PICK i, f, r : i = l.path /\ f = l.file /\ r = remoteFiles[i]
  OBVIOUS
<1>2. PICK s \in FileStates : s = States[k] /\ StateTrue(s, baseline, stored)
  BY StatesShape DEF CursorTrue
<1>3. /\ i \in DOMAIN remoteFiles /\ f.gz = r.gz /\ f.first = r.first
      /\ f.last <= r.last /\ f.first \in Nat /\ f.last \in Nat /\ r.last \in Nat
      /\ ~ l.meta => l.size = f.last - f.first + 1 /\ l.prefix = f.first
  <2>1. /\ i \in DOMAIN remoteFiles /\ f.gz = r.gz /\ f.first = r.first
        /\ IF i = 1 THEN f.last <= r.last ELSE f.last = r.last
        /\ ~ l.meta => l.size = f.last - f.first + 1 /\ l.prefix = f.first
    BY <1>1 DEF Entered, Placed, Length
  <2>2. f.first \in Nat /\ f.last \in Nat
    BY <1>1 DEF ListedFiles, Files
  <2>3. r.last \in Nat
    BY <2>1, <1>1, FilesShape
  <2> QED
    BY <2>1, <2>2, <2>3
<1>4. AtPath(l) = r
  BY <1>1, <1>3 DEF AtPath, FileAt
<1>5. ASSUME ~ l.meta, s.offset # 0
      PROVE  CheckpointHolds(s, l)
  <2>1. s.offset \in Nat /\ s.prefix # 0
    BY <1>2, <1>5 DEF StateTrue, FileStates
  <2>2. s.prefix = l.prefix /\ l.size >= s.offset
    BY <2>1, <1>2, <1>5 DEF Candidate
  <2>3. r.first = s.prefix /\ r.last - r.first + 1 >= s.offset
    BY <2>1, <2>2, <1>3, <1>5
  <2> QED
    BY <2>3, <1>4 DEF CheckpointHolds, Length
<1> QED
  BY <1>2, <1>5 DEF CheckpointHolds

\* Matching finds the state that fits, whatever the files before have taken.
LEMMA MatchFinds ==
  ASSUME HostTrue, CursorTrue, LogRowsTrue, NEW files, NEW i \in DOMAIN files,
         \A j \in DOMAIN files : files[j] \in ListedFiles /\ Entered(files[j]),
         \A j \in DOMAIN files : files[j].path = files[i].path => j = i,
         NEW found, DOMAIN found \subseteq DOMAIN files \ {i},
         \A j \in DOMAIN found : MatchTrue(found[j], files[j]),
         NEW T, T = {found[j] : j \in DOMAIN found}
  PROVE  MatchTrue(MatchOf(files[i], T), files[i])
<1>1. PICK l : l = files[i]
  OBVIOUS
<1>2. l \in ListedFiles /\ Entered(l) /\ ListedTrue(l)
  BY <1>1, EnteredListed
<1>3. \A j \in DOMAIN files : ListedTrue(files[j])
  BY EnteredListed
<1>4. DOMAIN States \subseteq Nat \ {0} /\ \A k \in DOMAIN States : StateTrue(States[k], baseline, stored)
  BY StatesShape DEF CursorTrue
<1>5. CASE \E k \in DOMAIN States : Candidate(States[k], l)
  <2>1. PICK k \in DOMAIN States : Candidate(States[k], l)
    BY <1>5
  <2>2. States[k].stamp[2] = l.file.first
    BY <2>1, <1>2, <1>4, CandidateFirst
  <2>3. \A j \in DOMAIN States : Candidate(States[j], l) => j = k
    <3>1. \A j \in DOMAIN States : Candidate(States[j], l) => States[j].stamp[2] = l.file.first
      BY <1>2, <1>4, CandidateFirst
    <3> QED
      BY <3>1, <2>2 DEF CursorTrue
  <2>4. k \notin T
    <3>1. ASSUME NEW j \in DOMAIN found, found[j] = k
          PROVE  FALSE
      <4>1. PICK m : m = files[j]
        OBVIOUS
      <4>2. Candidate(States[k], m) /\ ListedTrue(m) /\ Entered(m) /\ m.path # l.path
        BY <4>1, <3>1, <2>1, <1>1, <1>3, <1>4 DEF MatchTrue
      <4>3. States[k].stamp[2] = m.file.first
        BY <4>2, <1>4, CandidateFirst
      <4>4. /\ remoteFiles[m.path].first = remoteFiles[l.path].first
            /\ m.path \in DOMAIN remoteFiles /\ l.path \in DOMAIN remoteFiles
        BY <4>2, <4>3, <2>2, <1>2 DEF Entered, Placed
      <4>5. \A a, b \in DOMAIN remoteFiles : a < b =>
               remoteFiles[b].first # remoteFiles[a].first
        <5> TAKE a, b \in DOMAIN remoteFiles
        <5> HAVE a < b
        <5>1. remoteFiles[b].last < remoteFiles[a].first /\ remoteFiles[b].first <= remoteFiles[b].last
          BY DEF HostTrue
        <5>2. remoteFiles[b].last \in Nat /\ remoteFiles[a].first \in Nat /\ remoteFiles[b].first \in Nat
          BY FilesShape
        <5> QED
          BY <5>1, <5>2
      <4>6. m.path < l.path \/ l.path < m.path
        BY <4>2, <4>4, FilesShape
      <4> QED
        BY <4>4, <4>5, <4>6
    <3> QED
      BY <3>1
  <2>5. l.meta \/ CheckpointHolds(States[k], l)
    BY <2>1, <1>2, CheckpointThere
  <2>6. MatchOf(l, T) = k
    BY <2>1, <2>3, <2>4, <2>5, <1>4, MatchOfOne
  <2> QED
    BY <2>1, <2>6, <1>1, <1>4 DEF MatchTrue
<1>6. CASE \A k \in DOMAIN States : ~ Candidate(States[k], l)
  <2>1. MatchOf(l, T) = 0
    BY <1>6, MatchOfNone
  <2>2. ASSUME NEW x \in stored, IsHome(l.file.first, x.record)
        PROVE  FALSE
    <3>1. l.path \in DOMAIN remoteFiles /\ l.file.first = remoteFiles[l.path].first
      BY <1>2 DEF Entered, Placed
    <3>2. PICK k \in DOMAIN States : States[k].prefix = l.file.first
      BY <3>1, <2>2 DEF CursorTrue
    <3> QED
      BY <3>2, <1>2, <1>6, CandidateIf
  <2> QED
    BY <2>1, <2>2, <1>1, <1>6 DEF MatchTrue
<1> QED
  BY <1>5, <1>6

LEMMA MatchedTrue ==
  ASSUME HostTrue, Sound, LogRowsTrue, CursorTrue, MatchNext, Unmoved(pass),
         NEW found, found = Append(pass.found, MatchOf(ToMatch, Range(pass.found)))
  PROVE  /\ Len(found) = Len(pass.found) + 1 /\ DOMAIN found = 1 .. Len(pass.found) + 1
         /\ Len(pass.found) + 1 <= Len(pass.files)
         /\ \A i \in DOMAIN found : MatchTrue(found[i], pass.files[i])
<1>1. pass.pc = "match" /\ pass \in Passes
  BY PassSound DEF MatchNext
<1>2. PICK files, old, n : files = pass.files /\ old = pass.found /\ n = Len(pass.found)
  OBVIOUS
<1>3. /\ files \in Seq(ListedFiles) /\ old \in Seq(Nat) /\ n = Len(old)
  BY <1>1, <1>2 DEF Passes
<1>4. /\ n \in Nat /\ Len(files) \in Nat /\ DOMAIN old = 1 .. n /\ DOMAIN files = 1 .. Len(files)
      /\ n < Len(files)
  BY <1>1, <1>2, <1>3 DEF Unmoved
<1>5. \A j \in DOMAIN files : /\ files[j] \in ListedFiles /\ Entered(files[j])
                              /\ files[j].path = Len(files) - j + 1
  BY <1>2, <1>3 DEF Unmoved
<1>6. PICK i, T : i = n + 1 /\ T = Range(old)
  OBVIOUS
<1>7. i \in DOMAIN files /\ files[i] = ToMatch
  BY <1>2, <1>4, <1>6 DEF ToMatch
<1>8. \A j \in DOMAIN files : files[j].path = files[i].path => j = i
  BY <1>4, <1>5, <1>7
<1>9. DOMAIN old \subseteq DOMAIN files \ {i}
  BY <1>4, <1>6
<1>10. \A j \in DOMAIN old : MatchTrue(old[j], files[j])
  BY <1>2 DEF Unmoved
<1>11. T = {old[j] : j \in DOMAIN old}
  BY <1>6 DEF Range
<1>12. PICK k : k = MatchOf(files[i], T)
  OBVIOUS
<1>13. MatchTrue(k, files[i])
  <2>1. \A j \in DOMAIN files : files[j] \in ListedFiles /\ Entered(files[j])
    BY <1>5
  <2>2. MatchTrue(MatchOf(files[i], T), files[i])
    BY <2>1, <1>7, <1>8, <1>9, <1>10, <1>11, MatchFinds
  <2> QED
    BY <2>2, <1>12
<1>14. k \in Nat
  BY <1>13, StatesShape DEF MatchTrue
<1>15. /\ Len(found) = n + 1 /\ found[n + 1] = k /\ DOMAIN found = 1 .. n + 1
       /\ \A j \in DOMAIN old : found[j] = old[j]
  <2>1. found = Append(old, k)
    BY <1>2, <1>6, <1>7, <1>12
  <2>2. found = old \o <<k>>
    BY <2>1, <1>3, <1>14, AppendIsConcat
  <2> QED
    BY <2>2, <1>3, <1>4, <1>14, Joined
<1>16. \A j \in DOMAIN found : MatchTrue(found[j], files[j])
  <2> TAKE j \in DOMAIN found
  <2>1. CASE j \in DOMAIN old
    BY <2>1, <1>10, <1>15
  <2>2. CASE j = n + 1
    BY <2>2, <1>6, <1>13, <1>15
  <2> QED
    BY <2>1, <2>2, <1>4, <1>15
<1>17. n + 1 <= Len(files)
  BY <1>4
<1> QED
  BY <1>2, <1>15, <1>16, <1>17

\* Once every file is matched, what was listed is the host.
LEMMA AllListed ==
  ASSUME HostTrue, LogRowsTrue, CursorTrue, LossTrue, NEW p, NEW files \in Seq(ListedFiles),
         p.files = files, Len(files) = Len(remoteFiles),
         \A i \in DOMAIN files : files[i].path = Len(files) - i + 1 /\ Entered(files[i]),
         \A i \in DOMAIN files : MatchTrue(p.found[i], files[i]),
         Len(p.found) = Len(files), p.gap <=> Gap(p.found), p.gone = (1 .. written) \ Present
  PROVE  ListingTrue(p)
<1>1. PICK n : n = Len(remoteFiles)
  OBVIOUS
<1>2. /\ n \in Nat \ {0} /\ DOMAIN remoteFiles = 1 .. n /\ written \in Nat /\ DOMAIN files = 1 .. n
      /\ Len(files) = n
      /\ \A i \in 1 .. n : remoteFiles[i].first \in Nat /\ remoteFiles[i].last \in Nat
                           /\ remoteFiles[i].first <= remoteFiles[i].last
  <2>1. /\ n \in Nat \ {0} /\ DOMAIN remoteFiles = 1 .. n /\ written \in Nat
        /\ \A i \in DOMAIN remoteFiles : remoteFiles[i].first \in Nat /\ remoteFiles[i].last \in Nat
    BY <1>1, FilesShape
  <2>2. \A i \in DOMAIN remoteFiles : remoteFiles[i].first <= remoteFiles[i].last
    BY DEF HostTrue
  <2>3. DOMAIN files = 1 .. Len(files) /\ Len(files) = n
    BY <1>1
  <2> QED
    BY <2>1, <2>2, <2>3
<1> DEFINE At(i) == n - i + 1
<1>3. \A i \in 1 .. n : At(i) \in 1 .. n /\ At(At(i)) = i
  BY <1>2
<1>4. \A i \in 1 .. n : At(i) = 1 <=> i = n
  <2>1. \A m \in Nat : \A i \in 1 .. m : m - i + 1 = 1 <=> i = m
    OBVIOUS
  <2> QED
    BY <2>1, <1>2
<1>5. \A i, j \in 1 .. n : i < j => At(j) < At(i)
  BY <1>2
<1>6. \A i \in 1 .. n : files[i] \in ListedFiles /\ Entered(files[i]) /\ files[i].path = At(i)
  BY <1>2
<1> HIDE DEF At
<1>7. \A i \in 1 .. n : /\ files[i].file.first = remoteFiles[At(i)].first
                        /\ files[i].file.last <= remoteFiles[At(i)].last
                        /\ At(i) # 1 => files[i].file.last = remoteFiles[At(i)].last
                        /\ files[i].active <=> At(i) = 1
                        /\ files[i].file.last \in Nat
  <2> TAKE i \in 1 .. n
  <2>1. PICK l \in ListedFiles : l = files[i]
    BY <1>6
  <2>2. l.file \in Files
    BY DEF ListedFiles
  <2>3. /\ l.file.first = remoteFiles[At(i)].first
        /\ IF At(i) = 1 THEN l.file.last <= remoteFiles[At(i)].last
           ELSE l.file.last = remoteFiles[At(i)].last
        /\ l.active <=> At(i) = 1
    <3>1. PICK a, f : a = At(i) /\ f = l.file
      OBVIOUS
    <3>2. l.path = a /\ Entered(l)
      BY <2>1, <3>1, <1>6
    <3>3. /\ f.first = remoteFiles[a].first
          /\ IF a = 1 THEN f.last <= remoteFiles[a].last ELSE f.last = remoteFiles[a].last
          /\ l.active <=> a = 1
      BY <3>1, <3>2 DEF Entered, Placed
    <3> QED
      BY <3>1, <3>3
  <2>4. remoteFiles[At(i)].last \in Nat /\ l.file.last \in Nat
    BY <2>2, <1>2, <1>3 DEF Files
  <2> QED
    BY <2>1, <2>3, <2>4
<1>8. \A i \in 1 .. n : ListedTrue(files[i])
  BY <1>6, EnteredListed
<1>9. \A i, j \in 1 .. n : i < j => files[i].file.last < files[j].file.first
  <2> TAKE i, j \in 1 .. n
  <2> HAVE i < j
  <2>1. At(j) < At(i) /\ At(i) \in 1 .. n /\ At(j) \in 1 .. n
    BY <1>3, <1>5
  <2>2. remoteFiles[At(i)].last < remoteFiles[At(j)].first
    BY <2>1, <1>2 DEF HostTrue
  <2>3. remoteFiles[At(i)].last \in Nat /\ remoteFiles[At(j)].first \in Nat
    BY <2>1, <1>2
  <2> QED
    BY <2>2, <2>3, <1>7
<1>10. \A i \in 1 .. n : files[i].active <=> i = n
  BY <1>4, <1>7
<1>11. \A r \in 1 .. written : \A i \in 1 .. n :
          IsHome(remoteFiles[i].first, r) => r \in Present
  <2> TAKE r \in 1 .. written
  <2> TAKE i \in 1 .. n
  <2> HAVE IsHome(remoteFiles[i].first, r)
  <2>1. i \in DOMAIN remoteFiles /\ r \in Nat /\ r <= written
    BY <1>2
  <2>2. remoteFiles[i].first <= r /\ r <= remoteFiles[i].last
    BY <2>1, HomeIsThere
  <2>3. r \in Records(remoteFiles[i])
    BY <2>1, <2>2, <1>2 DEF Records
  <2> QED
    BY <2>3, <1>2 DEF Present, Range
<1>12. \A r \in p.gone : \A i \in 1 .. n : ~ IsHome(files[i].file.first, r)
  <2> TAKE r \in p.gone
  <2> TAKE i \in 1 .. n
  <2>1. r \in 1 .. written /\ r \notin Present
    OBVIOUS
  <2>2. At(i) \in 1 .. n /\ files[i].file.first = remoteFiles[At(i)].first
    BY <1>3, <1>7
  <2> QED
    BY <2>1, <2>2, <1>11
<1>13. ASSUME NEW h \in listed
       PROVE  (\E i \in 1 .. n : files[i].file.first = h) \/ Vanished(h, p.gone)
  <2>1. CASE \E i \in 1 .. n : remoteFiles[i].first = h
    <3>1. PICK i \in 1 .. n : remoteFiles[i].first = h
      BY <2>1
    <3>2. At(i) \in 1 .. n /\ At(At(i)) = i
      BY <1>3
    <3>3. files[At(i)].file.first = remoteFiles[At(At(i))].first
      BY <3>2, <1>7
    <3> QED
      BY <3>1, <3>2, <3>3
  <2>2. CASE \A i \in 1 .. n : remoteFiles[i].first # h
    <3>1. h \in firsts
      <4>1. \A k \in DOMAIN States : States[k].stamp[2] \in firsts
        BY DEF CursorTrue, StateTrue, Seen
      <4> QED
        BY <4>1 DEF LossTrue, Vanished
    <3>2. ASSUME NEW r \in 1 .. written, IsHome(h, r), r \in Present
          PROVE  FALSE
      <4>1. PICK i \in 1 .. n : r \in Records(remoteFiles[i])
        BY <3>2, <1>2 DEF Present, Range
      <4>2. remoteFiles[i].first <= r /\ r <= remoteFiles[i].last /\ r \in Nat /\ r <= written
        BY <4>1, <1>2 DEF Records
      <4>3. IsHome(remoteFiles[i].first, r)
        BY <4>2, <1>2, HomeIsThere
      <4>4. remoteFiles[i].first = h
        BY <4>2, <4>3, <3>2, HomeUnique, FilesShape
      <4> QED
        BY <4>4, <2>2
    <3> QED
      BY <3>1, <3>2, <2>2, <1>2 DEF Vanished
  <2> QED
    BY <2>1, <2>2
<1>14. \A i \in 1 .. n : \E j \in 1 .. n : files[j].file.first = remoteFiles[i].first
  <2> TAKE i \in 1 .. n
  <2>1. At(i) \in 1 .. n /\ At(At(i)) = i
    BY <1>3
  <2>2. files[At(i)].file.first = remoteFiles[At(At(i))].first
    BY <2>1, <1>7
  <2> QED
    BY <2>1, <2>2
<1>15. p.gone \subseteq 1 .. written /\ Len(p.files) > 0
  BY <1>2
<1> QED
  BY <1>2, <1>8, <1>9, <1>10, <1>12, <1>13, <1>14, <1>15 DEF ListingTrue

\* Matching keeps the listing true, and the end of it is a listing to read.
LEMMA MatchNextUnmoved ==
  ASSUME HostTrue, Sound, LogRowsTrue, CursorTrue, LossTrue, MatchNext, Unmoved(pass),
         NEW q, pass' = q
  PROVE  (q.pc = "match" /\ Unmoved(q)) \/ Read(q)
<1>1. pass.pc = "match" /\ pass \in Passes /\ SoundListing(pass) /\ SoundMade(pass)
  BY PassSound DEF MatchNext
<1>2. PICK found : found = Append(pass.found, MatchOf(ToMatch, Range(pass.found)))
  OBVIOUS
<1>3. /\ Len(found) = Len(pass.found) + 1 /\ DOMAIN found = 1 .. Len(pass.found) + 1
      /\ Len(pass.found) + 1 <= Len(pass.files)
      /\ \A i \in DOMAIN found : MatchTrue(found[i], pass.files[i])
  BY <1>2, MatchedTrue
<1>4. PICK gap : gap = (Len(found) = Len(pass.files) /\ Gap(found))
  OBVIOUS
<1>5. PICK pc : pc = IF Len(found) = Len(pass.files) THEN "next" ELSE pass.pc
  OBVIOUS
<1>6. q = [pass EXCEPT !.found = found, !.gap = gap, !.pc = pc]
  BY <1>2, <1>4, <1>5 DEF MatchNext, PassIs
<1>7. /\ q.pc = pc /\ q.found = found /\ q.gap = gap /\ q.files = pass.files /\ q.seen = pass.seen
      /\ q.states = pass.states /\ q.logs = pass.logs /\ q.gone = pass.gone
  BY <1>1, <1>6 DEF Passes
<1>8. /\ pass.files \in Seq(ListedFiles) /\ pass.found \in Seq(Nat) /\ Len(pass.files) \in Nat
      /\ Len(pass.found) \in Nat
  <2>1. pass.files \in Seq(ListedFiles) /\ pass.found \in Seq(Nat)
    BY <1>1 DEF Passes
  <2> QED
    BY <2>1
<1>9. CASE Len(found) # Len(pass.files)
  <2>1. pc = "match" /\ Len(found) < Len(pass.files)
    BY <1>1, <1>3, <1>5, <1>8, <1>9
  <2>2. Unmoved(q)
    BY <2>1, <1>1, <1>3, <1>7 DEF Unmoved
  <2> QED
    BY <2>1, <2>2, <1>7
<1>10. CASE Len(found) = Len(pass.files)
  <2>1. pc = "next" /\ (gap <=> Gap(found))
    BY <1>4, <1>5, <1>10
  <2>2. /\ pass.seen = <<>> /\ Len(pass.files) = Len(remoteFiles)
        /\ pass.gone = (1 .. written) \ Present
        /\ \A i \in DOMAIN pass.files :
              pass.files[i].path = Len(pass.files) - i + 1 /\ Entered(pass.files[i])
    <3>1. /\ pass.seen = <<>> /\ Len(pass.seen) + Len(pass.files) = Len(remoteFiles)
          /\ pass.gone = (1 .. written) \ Present
          /\ \A i \in DOMAIN pass.files :
                pass.files[i].path = Len(pass.files) - i + 1 /\ Entered(pass.files[i])
      BY <1>1 DEF Unmoved
    <3> QED
      BY <3>1, <1>8
  <2>3. DOMAIN found = DOMAIN pass.files
    BY <1>3, <1>8, <1>10
  <2>4. ListingTrue(q)
    <3>1. PICK files \in Seq(ListedFiles) : files = pass.files
      BY <1>8
    <3>2. /\ q.files = files /\ Len(files) = Len(remoteFiles) /\ q.found = found
          /\ \A i \in DOMAIN files : files[i].path = Len(files) - i + 1 /\ Entered(files[i])
          /\ \A i \in DOMAIN files : MatchTrue(found[i], files[i])
          /\ Len(found) = Len(files) /\ (q.gap <=> Gap(found))
          /\ q.gone = (1 .. written) \ Present
      BY <3>1, <2>1, <2>2, <2>3, <1>3, <1>7, <1>10
    <3> QED
      BY <3>2, AllListed
  <2>5. MadeTrue(q)
    <3>1. pass.states = <<>> /\ pass.logs = {}
      BY <1>1 DEF SoundMade, Listing
    <3> QED
      BY <3>1, <1>7, <1>8, FS_EmptySet DEF MadeTrue
  <2> QED
    BY <2>1, <2>4, <2>5, <1>7 DEF Read, Listing
<1> QED
  BY <1>9, <1>10

-----------------------------------------------------------------------------
(* Reading what was listed while no file moved.                            *)

LEMMA SeenLess ==
  ASSUME NEW id, NEW first, NEW last, NEW a, NEW b, b => a, Seen(id, first, last, a)
  PROVE  Seen(id, first, last, b)
BY DEF Seen

LEMMA PassShape ==
  ASSUME NEW p \in Passes, ListingTrue(p), MadeTrue(p)
  PROVE  /\ p.files \in Seq(ListedFiles) /\ p.states \in Seq(FileStates) /\ p.found \in Seq(Nat)
         /\ DOMAIN p.files = 1 .. Len(p.files) /\ Len(p.files) \in Nat
         /\ DOMAIN p.states = 1 .. Len(p.states) /\ Len(p.states) \in Nat
         /\ DOMAIN p.states \subseteq DOMAIN p.files
         /\ \A i \in DOMAIN p.files :
               /\ p.files[i] \in ListedFiles /\ p.files[i].file \in Files
               /\ p.files[i].file.first \in Nat /\ p.files[i].file.last \in Nat
               /\ p.files[i].file.first <= p.files[i].file.last
               /\ p.files[i].file.first \in firsts /\ p.files[i].file.last <= written
         /\ \A i \in DOMAIN p.states : p.states[i] \in FileStates
         /\ \A i, j \in DOMAIN p.files :
               i # j => p.files[i].file.first # p.files[j].file.first
<1>1. p.files \in Seq(ListedFiles) /\ p.states \in Seq(FileStates) /\ p.found \in Seq(Nat)
  BY DEF Passes
<1>2. Len(p.states) <= Len(p.files)
  BY DEF MadeTrue
<1>3. \A i \in DOMAIN p.files : p.files[i] \in ListedFiles
  BY <1>1
<1>4. \A i \in DOMAIN p.files :
         /\ p.files[i].file \in Files
         /\ p.files[i].file.first \in Nat /\ p.files[i].file.last \in Nat
         /\ p.files[i].file.first <= p.files[i].file.last
         /\ p.files[i].file.first \in firsts /\ p.files[i].file.last <= written
  <2> TAKE i \in DOMAIN p.files
  <2>1. PICK l \in ListedFiles : l = p.files[i]
    BY <1>3
  <2>2. l.file \in Files
    BY DEF ListedFiles
  <2>3. l.file.first \in Nat /\ l.file.last \in Nat
    BY <2>2 DEF Files
  <2>4. l.file.first <= l.file.last /\ l.file.first \in firsts /\ l.file.last <= written
    BY <2>1 DEF ListingTrue, ListedTrue, Seen
  <2> QED
    BY <2>1, <2>2, <2>3, <2>4
<1>5. \A i, j \in DOMAIN p.files : i < j => p.files[i].file.last < p.files[j].file.first
  BY DEF ListingTrue
<1>6. \A i, j \in DOMAIN p.files : i # j => i < j \/ j < i
  BY <1>1
<1>7. \A i, j \in DOMAIN p.files : i # j => p.files[i].file.first # p.files[j].file.first
  BY <1>4, <1>5, <1>6
<1> QED
  BY <1>1, <1>2, <1>3, <1>4, <1>7

\* The rows a pass has made are of files it has read already.
LEMMA RowsOfOthers ==
  ASSUME NEW p \in Passes, ListingTrue(p), MadeTrue(p), HostTrue,
         NEW x \in p.logs, NEW i \in DOMAIN p.files, i \notin DOMAIN p.states
  PROVE  ~ IsHome(p.files[i].file.first, x.record)
<1>1. PICK j \in DOMAIN p.states : IsHome(p.files[j].file.first, x.record)
  BY DEF MadeTrue
<1>2. x.record \in Nat
  <2>1. x \in LogRecord
    BY DEF Passes
  <2> QED
    BY <2>1, RemoteLogAssumption DEF LogRecord
<1>3. p.files[j].file.first # p.files[i].file.first
  BY <1>1, PassShape
<1> QED
  BY <1>1, <1>2, <1>3, HomeUnique, FilesShape

\* What is true of a state that continues one of the cursor.
LEMMA Continued ==
  ASSUME HostTrue, NEW s, NEW base, NEW rows, StateTrue(s, base, rows),
         NEW l \in ListedFiles, ListedTrue(l), Candidate(s, l), NEW t,
         t = WithFile(s, l)
  PROVE  StateTrue(t, base, rows) /\ (~ t.done => t.offset <= l.size)
<1>1. s \in FileStates
  BY DEF StateTrue
<1>2. /\ t \in FileStates
      /\ t.id = l.file.id /\ t.stamp = FileStamp(l.file) /\ (t.meta <=> l.meta)
      /\ (t.done <=> s.done /\ ~ l.active)
      /\ t.gen = s.gen /\ t.offset = s.offset /\ t.prefix = s.prefix
      /\ t.stamp[2] = l.file.first /\ t.stamp[3] = l.file.last
  BY <1>1, Refreshed
<1>3. s.stamp[2] = l.file.first
  BY CandidateFirst
<1>4. PICK first, last : first = l.file.first /\ last = l.file.last
  OBVIOUS
<1>5. first \in Nat /\ last \in Nat /\ first <= last /\ first \in firsts
      /\ \A u \in firsts : u <= first \/ last < u
  <2>1. first \in Nat /\ last \in Nat
    BY <1>4 DEF ListedFiles, Files
  <2> QED
    BY <2>1, <1>4 DEF ListedTrue, Seen
<1>6. Seen(t.id, t.stamp[2], t.stamp[3], t.done)
  <2>1. Seen(l.file.id, l.file.first, l.file.last, ~ l.active)
    BY DEF ListedTrue
  <2>2. Seen(l.file.id, l.file.first, l.file.last, t.done)
    BY <2>1, <1>2, SeenLess
  <2> QED
    BY <2>2, <1>2
<1>7. l.meta => s.done /\ s.stamp[3] = last /\ ~ l.active
  <2>1. l.meta => s.done /\ s.stamp = FileStamp(l.file) /\ ~ l.active
    BY DEF Candidate, SameArchivedFile, ListedTrue
  <2>2. FileStamp(l.file)[3] = last
    BY <1>4 DEF FileStamp
  <2> QED
    BY <2>1, <2>2
<1>8. ~ l.meta => /\ ~ (s.meta /\ s.prefix = 0) /\ s.offset <= l.size
                  /\ l.size = last - first + 1
  <2>1. ~ l.meta => ~ (s.meta /\ s.prefix = 0) /\ l.size >= s.offset /\ l.size = last - first + 1
    BY <1>4 DEF Candidate, ListedTrue, Length
  <2>2. s.offset \in Nat
    BY <1>1 DEF FileStates
  <2> QED
    BY <2>1, <2>2, <1>5
<1>9. s.offset \in Nat /\ s.stamp[3] \in Nat
  BY <1>1 DEF FileStates
<1>10. t.meta => t.done
  BY <1>2, <1>7
<1>11. t.prefix = 0 => t.meta /\ t.offset = 0 /\ t.stamp[3] < base
  BY <1>2, <1>4, <1>7, <1>8 DEF StateTrue
<1>12. ASSUME t.prefix # 0
       PROVE  /\ t.prefix = first
              /\ first + t.offset <= last + 1
              /\ t.done => first + t.offset = last + 1
  <2>1. /\ s.prefix = first /\ first + s.offset <= s.stamp[3] + 1
        /\ s.done => first + s.offset = s.stamp[3] + 1
    BY <1>2, <1>3, <1>4, <1>12 DEF StateTrue
  <2>2. CASE l.meta
    BY <2>1, <2>2, <1>2, <1>7
  <2>3. CASE ~ l.meta
    <3>1. first + s.offset <= last + 1
      BY <2>3, <1>5, <1>8, <1>9
    <3>2. ASSUME s.done
          PROVE  s.stamp[3] = last
      <4>1. s.stamp[3] + 1 \in firsts /\ first <= s.stamp[3]
        BY <3>2, <1>3, <1>4 DEF StateTrue, Seen
      <4>2. last < s.stamp[3] + 1
        BY <4>1, <1>5, <1>9
      <4>3. s.stamp[3] <= last
        BY <2>1, <3>1, <3>2, <1>5, <1>9
      <4> QED
        BY <4>2, <4>3, <1>5, <1>9
    <3> QED
      BY <2>1, <3>1, <3>2, <1>2
  <2> QED
    BY <2>2, <2>3
<1>13. StateTrue(t, base, rows)
  BY <1>2, <1>3, <1>4, <1>6, <1>10, <1>11, <1>12 DEF StateTrue
<1>14. ~ t.done => t.offset <= l.size
  BY <1>2, <1>7, <1>8
<1> QED
  BY <1>13, <1>14


\* A state is true of its file under a generation nothing has, when the file has
\* no rows and nothing below the base counts.
LEMMA FreshState ==
  ASSUME NEW s \in FileStates, NEW base, NEW kept,
         Seen(s.id, s.stamp[2], s.stamp[3], s.done),
         s.meta => s.done,
         s.prefix = 0 => s.meta /\ s.offset = 0 /\ s.stamp[3] < base,
         s.prefix # 0 => /\ s.prefix = s.stamp[2]
                         /\ s.stamp[2] + s.offset <= s.stamp[3] + 1
                         /\ s.done => s.stamp[2] + s.offset = s.stamp[3] + 1
                         /\ \A r \in s.prefix .. s.prefix + s.offset - 1 : ~ (r >= base),
         \A x \in kept : ~ IsHome(s.stamp[2], x.record) /\ x.gen # s.gen
  PROVE  StateTrue(s, base, kept)
BY DEF StateTrue

LEMMA FirstStateTrue ==
  ASSUME HostTrue, LogRowsTrue, CursorTrue, NEW p \in Passes, ListingTrue(p), MadeTrue(p),
         NEW i \in DOMAIN p.files, NEW l, l = p.files[i], p.found[i] = 0,
         NEW g \in Nat, NEW kept, \A x \in kept : ~ IsHome(l.file.first, x.record) /\ x.gen # g,
         NEW t, t = FirstState(g, l)
  PROVE  t \in FileStates /\ StateTrue(t, PassBase(p), kept)
<1>1. /\ l \in ListedFiles /\ l.file \in Files
      /\ l.file.first \in Nat /\ l.file.last \in Nat /\ l.file.first <= l.file.last
      /\ l.file.first # 0
  <2>1. l.file.first \in firsts /\ firsts \subseteq 1 .. written
    BY PassShape DEF HostTrue
  <2> QED
    BY <2>1, PassShape, FilesShape
<1>2. ListedTrue(l) /\ MatchTrue(0, l)
  BY DEF ListingTrue
<1>3. PICK first, last : first = l.file.first /\ last = l.file.last
  OBVIOUS
<1>4. FileStamp(l.file)[2] = first /\ FileStamp(l.file)[3] = last
  BY <1>3 DEF FileStamp
<1>5. PICK n, done :
         /\ n = IF cursor = NoCursor /\ l.active THEN Tail1(l) ELSE 0
         /\ done = (cursor = NoCursor /\ ~ l.active)
  OBVIOUS
<1>6. n \in Nat /\ n <= l.size /\ l.size \in Nat
  BY <1>1, <1>5, TailShort
<1>7. /\ t \in FileStates /\ t.gen = g /\ t.id = l.file.id /\ t.offset = n
      /\ t.prefix = l.prefix /\ t.stamp = FileStamp(l.file) /\ t.meta = l.meta
      /\ (t.done <=> done)
  <2>1. /\ t \in FileStates /\ t.gen = g /\ t.id = l.file.id /\ t.stamp = FileStamp(l.file)
        /\ t.meta = l.meta /\ t.prefix = l.prefix
        /\ t.offset = (IF cursor = NoCursor /\ l.active THEN Tail1(l) ELSE 0)
        /\ (t.done <=> cursor = NoCursor /\ ~ l.active)
    BY <1>1, FirstStateShape
  <2> QED
    BY ZenonT(60), <2>1, <1>5
<1>8. t.done \in BOOLEAN /\ done \in BOOLEAN
  BY <1>5, <1>7 DEF FileStates
<1>10. /\ t \in FileStates /\ t.gen = g /\ t.id = l.file.id /\ t.offset = n
       /\ t.prefix = l.prefix /\ t.done = done /\ t.stamp[2] = first /\ t.stamp[3] = last
       /\ t.meta = l.meta
  BY <1>4, <1>7, <1>8
<1>11. l.meta => ~ l.active /\ l.prefix = 0 /\ l.size = 0
  BY <1>2 DEF ListedTrue
<1>12. ~ l.meta => l.prefix = first /\ l.size = last - first + 1
  BY <1>2, <1>3 DEF ListedTrue, Length
<1>13. l.meta <=> cursor = NoCursor /\ ~ l.active
  <2>1. CASE cursor = NoCursor
    BY <2>1, <1>2 DEF ListedTrue
  <2>2. ASSUME cursor # NoCursor, l.meta
        PROVE  FALSE
    <3>1. PICK k \in DOMAIN States : SameArchivedFile(States[k], l.file)
      BY <2>2, <1>2 DEF ListedTrue
    <3>2. Candidate(States[k], l)
      BY <3>1, <2>2 DEF Candidate
    <3> QED
      BY <3>2, <1>2 DEF MatchTrue
  <2> QED
    BY <2>1, <2>2
<1>14. Seen(t.id, t.stamp[2], t.stamp[3], t.done)
  <2>1. Seen(l.file.id, first, last, ~ l.active)
    BY <1>2, <1>3 DEF ListedTrue
  <2>2. Seen(l.file.id, first, last, done)
    BY <2>1, <1>5, SeenLess
  <2> QED
    BY <2>2, <1>10
<1>15. t.meta => t.done
  BY <1>5, <1>10, <1>13
<1>16. ASSUME t.prefix = 0
       PROVE  t.meta /\ t.offset = 0 /\ t.stamp[3] < PassBase(p)
  <2>1. l.meta
    BY <1>1, <1>3, <1>10, <1>12, <1>16
  <2>2. i # Len(p.files) /\ i \in 1 .. Len(p.files) /\ Len(p.files) \in Nat
    BY <2>1, <1>11, PassShape DEF ListingTrue
  <2>3. PICK q : q = p.files[Len(p.files)]
    OBVIOUS
  <2>4. Len(p.files) \in DOMAIN p.files /\ i < Len(p.files)
    BY <2>2, PassShape
  <2>5. last < q.file.first /\ q \in ListedFiles /\ q.file.first \in Nat
    BY <2>3, <2>4, <1>3, PassShape DEF ListingTrue
  <2>6. PassBase(p) = q.file.first + Tail1(q)
    <3>1. q.active /\ ListedTrue(q)
      BY <2>2, <2>3, <2>4 DEF ListingTrue
    <3>2. q.prefix = q.file.first
      BY <3>1 DEF ListedTrue
    <3>3. Last(p.files) = q
      BY <2>3 DEF Last
    <3> QED
      BY <3>2, <3>3, <2>1, <1>13 DEF PassBase
  <2>7. last < PassBase(p)
    BY <2>5, <2>6, <1>1, <1>3, TailShort
  <2> QED
    BY <2>1, <2>7, <1>5, <1>10, <1>13
<1>17. ASSUME t.prefix # 0
       PROVE  /\ t.prefix = t.stamp[2]
              /\ t.stamp[2] + t.offset <= t.stamp[3] + 1
              /\ t.done => t.stamp[2] + t.offset = t.stamp[3] + 1
              /\ \A r \in t.prefix .. t.prefix + t.offset - 1 : ~ (r >= PassBase(p))
  <2>1. ~ l.meta /\ ~ done
    BY <1>5, <1>10, <1>11, <1>13, <1>17
  <2>2. t.prefix = first /\ first + n <= last + 1
    BY <2>1, <1>1, <1>3, <1>6, <1>10, <1>12
  <2>3. ASSUME NEW r \in first .. first + n - 1, r >= PassBase(p)
        PROVE  FALSE
    <3>1. cursor = NoCursor /\ l.active
      BY <2>3, <1>1, <1>3, <1>5
    <3>2. PassBase(p) = first + n
      <4>1. i = Len(p.files)
        BY <3>1 DEF ListingTrue
      <4>2. Last(p.files) = l
        BY <4>1 DEF Last
      <4> QED
        BY <4>2, <3>1, <1>3, <1>5, <1>11, <1>12 DEF PassBase
    <3> QED
      BY <3>2, <2>3, <1>1, <1>3, <1>6
  <2> QED
    BY <2>1, <2>2, <2>3, <1>10
<1>18. \A x \in kept : ~ IsHome(t.stamp[2], x.record) /\ x.gen # t.gen
  BY <1>3, <1>10
<1> QED
  BY <1>10, <1>14, <1>15, <1>16, <1>17, <1>18, FreshState

LEMMA StateOfTrue ==
  ASSUME HostTrue, Sound, LogRowsTrue, CursorTrue, pass.pc \in {"next", "check"},
         ListingTrue(pass), MadeTrue(pass), MoreFiles,
         NEW i, i = Len(pass.states) + 1, NEW l, l = Current, NEW s, s = StateOf(l)
  PROVE  /\ ListedTrue(l) /\ MatchTrue(pass.found[i], l)
         /\ StateTrue(s, PassBase(pass), stored \cup pass.logs)
         /\ ~ s.done => ~ l.meta /\ s.prefix = l.file.first /\ s.offset <= l.size
<1>1. PICK k : k = CurrentMatch
  OBVIOUS
<1>2. /\ i \in DOMAIN pass.files /\ i \notin DOMAIN pass.states /\ l = pass.files[i]
      /\ k = pass.found[i] /\ l \in ListedFiles /\ pass \in Passes
  BY <1>1, CurrentFacts
<1>3. ListedTrue(l) /\ MatchTrue(k, l)
  BY <1>2 DEF ListingTrue
<1>4. /\ s \in FileStates /\ s.offset \in Nat
      /\ s.id = l.file.id /\ s.stamp = FileStamp(l.file) /\ s.meta = l.meta
      /\ \A x \in pass.logs : s.gen # x.gen
      /\ k = 0 => \A x \in stored : s.gen # x.gen
  BY <1>1, StateOfSound
<1>5. /\ k # 0 => s = WithFile(States[k], l)
      /\ k = 0 => \E g \in Nat : s = FirstState(g, l)
  BY <1>1, StateOfSound
<1>6. \A x \in pass.logs : ~ IsHome(l.file.first, x.record)
  BY <1>2, RowsOfOthers
<1>7. s.stamp[2] = l.file.first /\ s.stamp[3] = l.file.last
  BY <1>4 DEF FileStamp
<1>8. CASE k # 0
  <2>1. PICK old : old = States[k]
    OBVIOUS
  <2>2. k \in DOMAIN States /\ Candidate(old, l) /\ StateTrue(old, baseline, stored)
    BY <2>1, <1>3, <1>8 DEF MatchTrue, CursorTrue
  <2>3. PassBase(pass) = baseline
    BY <2>2 DEF PassBase, States
  <2>4. StateTrue(s, baseline, stored) /\ (~ s.done => s.offset <= l.size)
    BY <2>1, <2>2, <1>2, <1>3, <1>5, <1>8, Continued
  <2>5. PICK rows, kept : rows = stored /\ kept = stored \cup pass.logs
    OBVIOUS
  <2>6. /\ StateTrue(s, baseline, rows) /\ rows \subseteq kept
        /\ \A x \in kept : x \in rows \/ (~ IsHome(s.stamp[2], x.record) /\ x.gen # s.gen)
    BY <2>4, <2>5, <1>4, <1>6, <1>7
  <2>7. StateTrue(s, baseline, kept)
    BY <2>6 DEF StateTrue
  <2>8. ~ s.done => ~ s.meta /\ s.prefix = s.stamp[2]
    BY <2>4 DEF StateTrue
  <2> QED
    BY <2>3, <2>4, <2>5, <2>7, <2>8, <1>2, <1>3, <1>4, <1>7
<1>9. CASE k = 0
  <2>1. PICK g \in Nat : s = FirstState(g, l)
    BY <1>5, <1>9
  <2>2. s.gen = g
    BY <2>1, <1>2, FirstStateShape
  <2>3. PICK kept : kept = stored \cup pass.logs
    OBVIOUS
  <2>4. \A x \in kept : ~ IsHome(l.file.first, x.record) /\ x.gen # g
    BY <2>2, <2>3, <1>3, <1>4, <1>6, <1>9 DEF MatchTrue
  <2>5. PICK p : p = pass
    OBVIOUS
  <2>6. /\ p \in Passes /\ ListingTrue(p) /\ MadeTrue(p) /\ i \in DOMAIN p.files
        /\ l = p.files[i] /\ p.found[i] = 0
    BY <2>5, <1>2, <1>9
  <2>7. StateTrue(s, PassBase(p), kept)
    BY <2>1, <2>4, <2>6, FirstStateTrue
  <2>8. ASSUME ~ s.done
        PROVE  ~ l.meta /\ s.prefix = l.file.first /\ s.offset <= l.size
    <3>1. ~ l.meta /\ s.prefix = l.file.first /\ l.file.first + s.offset <= l.file.last + 1
      BY <2>7, <2>8, <1>4, <1>7 DEF StateTrue
    <3>2. l.size = l.file.last - l.file.first + 1
      BY <3>1, <1>3 DEF ListedTrue, Length
    <3>3. l.file.first \in Nat /\ l.file.last \in Nat
      BY <1>2 DEF ListedFiles, Files
    <3> QED
      BY <3>1, <3>2, <3>3, <1>4
  <2> QED
    BY <2>3, <2>5, <2>7, <2>8, <1>2, <1>3, <1>9
<1> QED
  BY <1>8, <1>9

\* A file is through: its state and its rows join those of the pass.
LEMMA ThroughRead ==
  ASSUME HostTrue, Sound, LogRowsTrue, CursorTrue, pass.pc \in {"next", "check"},
         ListingTrue(pass), MadeTrue(pass), MoreFiles,
         NEW l, l = Current, NEW s, s = StateOf(l),
         NEW t \in FileStates, t.id = s.id, t.stamp = s.stamp, t.meta = s.meta, t.gen = s.gen,
         NEW rows, rows \subseteq LogRecord, IsFiniteSet(rows),
         \A x \in rows : /\ x.gen = s.gen /\ IsHome(l.file.first, x.record)
                         /\ x.record <= written /\ \A y \in stored : y.record # x.record,
         StateTrue(t, PassBase(pass), stored \cup (pass.logs \cup rows)),
         NEW q, ThroughWith(q, t, rows), q.gap = pass.gap, q.gone = pass.gone
  PROVE  Read(q)
<1>1. PICK i : i = Len(pass.states) + 1
  OBVIOUS
<1>2. PICK k : k = CurrentMatch
  OBVIOUS
<1>3. /\ i \in DOMAIN pass.files /\ i \notin DOMAIN pass.states /\ l = pass.files[i]
      /\ s.id = l.file.id /\ s.stamp = FileStamp(l.file) /\ s.meta = l.meta
      /\ IF pass.found[i] # 0 THEN s.gen = States[pass.found[i]].gen
         ELSE /\ \A m \in DOMAIN States : s.gen # States[m].gen
              /\ \A x \in stored : s.gen # x.gen
      /\ \A j \in DOMAIN pass.states : s.gen # pass.states[j].gen
  <2>1. i \in DOMAIN pass.files /\ i \notin DOMAIN pass.states /\ l = pass.files[i] /\ k = pass.found[i]
    BY <1>2, <1>1, CurrentFacts
  <2>2. /\ s.id = l.file.id /\ s.stamp = FileStamp(l.file) /\ s.meta = l.meta
        /\ IF k # 0 THEN s.gen = States[k].gen
           ELSE /\ \A m \in DOMAIN States : s.gen # States[m].gen
                /\ \A x \in stored : s.gen # x.gen
        /\ \A j \in DOMAIN pass.states : s.gen # pass.states[j].gen
    BY <1>2, StateOfSound
  <2> QED
    BY <2>1, <2>2
<1>4. pass \in Passes /\ pass.pc \notin Listing
  BY PassSound DEF Listing
<1>5. /\ q.files = pass.files /\ q.found = pass.found /\ q.pc = "next"
       /\ q.states = pass.states \o <<t>> /\ q.logs = pass.logs \cup rows
  BY DEF ThroughWith
<1>6. ListingTrue(q)
  BY <1>5 DEF ListingTrue
<1>7. /\ pass.states \in Seq(FileStates) /\ Len(pass.states) \in Nat /\ Len(pass.files) \in Nat
      /\ DOMAIN pass.states = 1 .. Len(pass.states)
  BY <1>4, PassShape
<1>8. /\ Len(q.states) = i /\ DOMAIN q.states = 1 .. i /\ q.states[i] = t
      /\ \A j \in DOMAIN pass.states : q.states[j] = pass.states[j]
      /\ \A j \in DOMAIN q.states : j = i \/ j \in DOMAIN pass.states
      /\ i \in DOMAIN q.states
  <2>1. PICK u, states : u = pass.states /\ states = q.states
    OBVIOUS
  <2>2. states = u \o <<t>> /\ u \in Seq(FileStates) /\ Len(u) \in Nat /\ DOMAIN u = 1 .. Len(u)
    BY <2>1, <1>7, <1>5
  <2>3. /\ Len(states) = Len(u) + 1 /\ DOMAIN states = 1 .. Len(u) + 1
        /\ states[Len(u) + 1] = t /\ \A j \in DOMAIN u : states[j] = u[j]
    BY <2>2, Joined
  <2> QED
    BY <2>1, <2>2, <2>3, <1>1
<1>9. PassBase(q) = PassBase(pass)
  BY <1>5 DEF PassBase
<1>10. ASSUME NEW j \in DOMAIN pass.states
      PROVE  StateTrue(pass.states[j], PassBase(pass), stored \cup (pass.logs \cup rows))
  <2>1. PICK u, base, kept, more :
           /\ u = pass.states[j] /\ base = PassBase(pass) /\ kept = stored \cup pass.logs
           /\ more = stored \cup (pass.logs \cup rows)
    OBVIOUS
  <2>2. StateTrue(u, base, kept) /\ u.stamp = FileStamp(pass.files[j].file) /\ kept \subseteq more
    BY <2>1 DEF MadeTrue
  <2>3. u.stamp[2] = pass.files[j].file.first
    BY <2>2 DEF FileStamp
  <2>4. u.stamp[2] # l.file.first
    BY <2>3, <1>3, <1>4, PassShape
  <2>5. \A x \in more : x \in kept \/ (~ IsHome(u.stamp[2], x.record) /\ x.gen # u.gen)
    <3>1. ASSUME NEW x \in rows
          PROVE  ~ IsHome(u.stamp[2], x.record) /\ x.gen # u.gen
      <4>1. x.record \in Nat
        BY RemoteLogAssumption DEF LogRecord
      <4>2. ~ IsHome(u.stamp[2], x.record)
        BY <4>1, <2>4, HomeUnique, FilesShape
      <4> QED
        BY <4>2, <2>1, <1>3
    <3> QED
      BY <3>1, <2>1
  <2>6. StateTrue(u, base, more)
    BY <2>2, <2>5 DEF StateTrue
  <2> QED
    BY <2>1, <2>6
<1>11. IsFiniteSet(q.logs)
  <2>1. IsFiniteSet(pass.logs)
    BY DEF MadeTrue
  <2>2. \A a, b : IsFiniteSet(a) /\ IsFiniteSet(b) => IsFiniteSet(a \cup b)
    BY FS_Union
  <2>3. IsFiniteSet(pass.logs \cup rows)
    BY <2>1, <2>2
  <2> QED
    BY <2>3, <1>5
<1>12. ASSUME NEW x \in q.logs
      PROVE  /\ \E j \in DOMAIN q.states :
                   x.gen = q.states[j].gen /\ IsHome(q.files[j].file.first, x.record)
             /\ x.record <= written /\ \A y \in stored : y.record # x.record
  <2>1. CASE x \in rows
    BY <2>1, <1>3, <1>8, <1>5
  <2>2. CASE x \in pass.logs
    <3>1. PICK j \in DOMAIN pass.states :
             x.gen = pass.states[j].gen /\ IsHome(pass.files[j].file.first, x.record)
      BY <2>2 DEF MadeTrue
    <3>2. j \in DOMAIN q.states
      BY <1>1, <1>7, <1>8
    <3>3. x.record <= written /\ \A y \in stored : y.record # x.record
      BY <2>2 DEF MadeTrue
    <3> QED
      BY <3>1, <3>2, <3>3, <1>8, <1>5
  <2> QED
    BY <2>1, <2>2, <1>5
<1>13. ASSUME NEW j \in DOMAIN q.states
       PROVE  /\ StateTrue(q.states[j], PassBase(q), stored \cup q.logs)
              /\ q.states[j].id = q.files[j].file.id
              /\ q.states[j].stamp = FileStamp(q.files[j].file)
              /\ q.states[j].meta = q.files[j].meta
              /\ IF q.found[j] # 0 THEN q.states[j].gen = States[q.found[j]].gen
                 ELSE /\ \A m \in DOMAIN States : q.states[j].gen # States[m].gen
                      /\ \A x \in stored : q.states[j].gen # x.gen
  <2>1. CASE j = i
    BY <2>1, <1>3, <1>8, <1>9, <1>5
  <2>2. CASE j \in DOMAIN pass.states
    <3>1. /\ pass.states[j].id = pass.files[j].file.id
          /\ pass.states[j].stamp = FileStamp(pass.files[j].file)
          /\ pass.states[j].meta = pass.files[j].meta
          /\ IF pass.found[j] # 0 THEN pass.states[j].gen = States[pass.found[j]].gen
             ELSE /\ \A m \in DOMAIN States : pass.states[j].gen # States[m].gen
                  /\ \A x \in stored : pass.states[j].gen # x.gen
      BY <2>2 DEF MadeTrue
    <3> QED
      BY <3>1, <2>2, <1>8, <1>9, <1>10, <1>5
  <2> QED
    BY <2>1, <2>2, <1>8
<1>14. \A j, m \in DOMAIN q.states : j # m => q.states[j].gen # q.states[m].gen
  <2>1. \A j, m \in DOMAIN pass.states : j # m => pass.states[j].gen # pass.states[m].gen
    BY DEF MadeTrue
  <2> QED
    BY <2>1, <1>3, <1>8
<1>15. Len(q.states) <= Len(q.files)
  BY <1>1, <1>3, <1>7, <1>8, <1>4, <1>5, PassShape
<1> QED
  BY <1>6, <1>11, <1>12, <1>13, <1>14, <1>15, <1>5 DEF MadeTrue, Read, Listing

LEMMA SkipRead ==
  ASSUME HostTrue, Sound, LogRowsTrue, CursorTrue, SkipFile, Read(pass), NEW q, pass' = q
  PROVE  Read(q)
<1>1. /\ pass.pc \in {"next", "check"} /\ pass.pc = "next" /\ MoreFiles
      /\ ListingTrue(pass) /\ MadeTrue(pass)
      /\ pass' = [pass EXCEPT !.states = Append(@, StateOf(Current))]
  BY DEF SkipFile, PassIs, Read
<1>2. PICK i, l, k, s : /\ i = Len(pass.states) + 1 /\ l = Current /\ k = CurrentMatch
                        /\ s = StateOf(l)
  OBVIOUS
<1>3. s \in FileStates
  BY <1>1, <1>2, StateOfSound
<1>4. StateTrue(s, PassBase(pass), stored \cup pass.logs)
  BY <1>1, <1>2, StateOfTrue
<1>5. pass \in Passes /\ pass.states \in Seq(FileStates)
  BY <1>1, <1>2, CurrentFacts
<1>6. PICK states : states = pass.states \o <<s>>
  OBVIOUS
<1>7. states \in Seq(FileStates) /\ states = Append(pass.states, s)
  BY <1>3, <1>5, <1>6, Joined, AppendIsConcat
<1>8. q = [pass EXCEPT !.states = states]
  BY <1>1, <1>2, <1>7
<1>9. PICK rows : rows = {}
  OBVIOUS
<1>10. q.gap = pass.gap /\ q.gone = pass.gone /\ ThroughWith(q, s, rows)
  <2>1. /\ q \in Passes /\ q.pc = "next" /\ q.files = pass.files /\ q.found = pass.found
        /\ q.seen = pass.seen /\ q.states = states /\ q.logs = pass.logs
        /\ q.gap = pass.gap /\ q.gone = pass.gone
    BY <1>1, <1>5, <1>7, <1>8 DEF Passes
  <2> QED
    BY <2>1, <1>6, <1>9 DEF ThroughWith
<1>11. /\ rows \subseteq LogRecord /\ IsFiniteSet(rows) /\ \A x \in rows : FALSE
  BY <1>9, FS_EmptySet
<1>12. StateTrue(s, PassBase(pass), stored \cup (pass.logs \cup rows))
  <2>1. pass.logs \cup rows = pass.logs
    BY <1>9
  <2> QED
    BY <2>1, <1>4
<1> QED
  BY <1>1, <1>2, <1>3, <1>10, <1>11, <1>12, ThroughRead

LEMMA ReadOnTrue ==
  ASSUME HostTrue, NEW s, NEW base, NEW kept, StateTrue(s, base, kept), ~ s.done,
         NEW last, last = s.stamp[3],
         NEW m \in Nat, NEW done \in BOOLEAN, Seen(s.id, s.stamp[2], last, done),
         s.stamp[2] + s.offset + m <= last + 1,
         done => s.stamp[2] + s.offset + m = last + 1,
         NEW t, t = ReadBy(s, m, done),
         NEW b, b = s.stamp[2] + s.offset,
         NEW rows, rows = RowsBy(s, b, m),
         \A x \in kept : x.record \in Nat,
         NEW more, kept \subseteq more, \A x \in more : x \in kept \/ x \in rows,
         rows \subseteq more
  PROVE  /\ t \in FileStates /\ t.id = s.id /\ t.stamp = s.stamp /\ t.meta = s.meta
         /\ t.gen = s.gen /\ t.prefix = s.prefix /\ StateTrue(t, base, more)
<1>1. PICK first, o : first = s.stamp[2] /\ o = s.offset
  OBVIOUS
<1>2. /\ s \in FileStates /\ first \in Nat /\ o \in Nat /\ last \in Nat /\ b \in Nat /\ b = first + o
  BY <1>1 DEF StateTrue, FileStates
<1>3. PICK n : n = o + m
  OBVIOUS
<1>4. n \in Nat /\ t = [[s EXCEPT !.offset = n] EXCEPT !.done = done]
  BY <1>1, <1>2, <1>3 DEF ReadBy
<1>5. /\ t \in FileStates /\ t.id = s.id /\ t.stamp = s.stamp /\ t.meta = s.meta /\ t.gen = s.gen
      /\ t.prefix = s.prefix /\ t.offset = n /\ t.done = done
  BY <1>2, <1>4 DEF FileStates
<1>6. ~ s.meta /\ s.prefix = first /\ first # 0
  BY <1>1 DEF StateTrue
<1>7. \A x \in rows : \E r \in b .. b + m - 1 :
         x = [gen |-> s.gen, offset |-> o + r - b, record |-> r]
  BY <1>1 DEF RowsBy
<1>8. \A x \in rows : x.gen = s.gen /\ x.record = first + x.offset /\ x.record < first + n
  <2> TAKE x \in rows
  <2>1. PICK r \in b .. b + m - 1 : x = [gen |-> s.gen, offset |-> o + r - b, record |-> r]
    BY <1>7
  <2>2. x.gen = s.gen /\ x.offset = o + r - b /\ x.record = r
    BY <2>1
  <2> QED
    BY <2>2, <1>2, <1>3
<1>9. ASSUME NEW r \in first .. first + n - 1, r >= base
      PROVE  \E x \in more : x.record = r
  <2>1. CASE r < b
    <3>1. r \in s.prefix .. s.prefix + s.offset - 1
      BY <2>1, <1>1, <1>2, <1>3, <1>6
    <3>2. \E x \in kept : x.record = r
      BY <3>1, <1>6, <1>9 DEF StateTrue
    <3> QED
      BY <3>2
  <2>2. CASE r >= b
    <3>1. r \in b .. b + m - 1
      BY <2>2, <1>2, <1>3
    <3>2. PICK x : x = [gen |-> s.gen, offset |-> s.offset + r - b, record |-> r]
      OBVIOUS
    <3>3. x \in rows /\ x.record = r
      BY <3>1, <3>2 DEF RowsBy
    <3> QED
      BY <3>3
  <2> QED
    BY <2>1, <2>2, <1>2, <1>3
<1>10. ASSUME NEW x \in more
       PROVE  /\ IsHome(first, x.record) => x.record < first + n
              /\ x.gen = s.gen => x.record = first + x.offset
  <2>1. CASE x \in rows
    BY <2>1, <1>8
  <2>2. CASE x \in kept
    <3>1. /\ IsHome(first, x.record) => x.record < first + o
          /\ x.gen = s.gen => x.record = first + x.offset
      BY <2>2, <1>1, <1>6 DEF StateTrue
    <3>2. IsHome(first, x.record) /\ x.record < first + o => x.record < first + n
      <4>1. x.record \in Nat
        BY <2>2
      <4> QED
        BY <4>1, <1>2, <1>3
    <3> QED
      BY <3>1, <3>2
  <2> QED
    BY <2>1, <2>2
<1>11. first + n <= last + 1 /\ (done => first + n = last + 1)
  BY <1>1, <1>2, <1>3
<1>12. StateTrue(t, base, more)
  BY <1>1, <1>5, <1>6, <1>9, <1>10, <1>11 DEF StateTrue
<1> QED
  BY <1>5, <1>12

\* What a file that stayed the same gives is true of it.
LEMMA CheckedRead ==
  ASSUME HostTrue, Sound, LogRowsTrue, CursorTrue, pass.pc = "check", MoreFiles, Read(pass),
         NEW l, l = Current, NEW s, s = StateOf(l), ~ s.done,
         NEW c \in Nat, NEW done \in BOOLEAN, CheckedBy(l, s, c, done), NEW q, pass' = q
  PROVE  Read(q)
<1>1. pass.pc \in {"next", "check"} /\ ListingTrue(pass) /\ MadeTrue(pass)
  BY DEF Read
<1>2. PICK i, k : i = Len(pass.states) + 1 /\ k = CurrentMatch
  OBVIOUS
<1>3. PICK base, kept : base = PassBase(pass) /\ kept = stored \cup pass.logs
  OBVIOUS
<1>4. /\ s \in FileStates /\ s.stamp = FileStamp(l.file) /\ s.id = l.file.id
      /\ \A x \in pass.logs : s.gen # x.gen
  BY <1>1, <1>2, StateOfSound
<1>5. /\ ListedTrue(l) /\ StateTrue(s, base, kept)
      /\ ~ l.meta /\ s.prefix = l.file.first /\ s.offset <= l.size
  BY <1>1, <1>2, <1>3, StateOfTrue
<1>6. l \in ListedFiles /\ pass \in Passes /\ pass.states \in Seq(FileStates)
  BY <1>1, <1>2, CurrentFacts
<1>7. PICK first, last, o : first = l.file.first /\ last = l.file.last /\ o = s.offset
  OBVIOUS
<1>8. /\ first \in Nat /\ last \in Nat /\ o \in Nat /\ l.size = last - first + 1
      /\ s.stamp[2] = first /\ s.stamp[3] = last
      /\ first \in firsts /\ first >= 1 /\ last <= written /\ written \in Nat
      /\ \A t \in firsts : t <= first \/ last < t
      /\ s.prefix = first /\ l.prefix = first
  <2>1. first \in Nat /\ last \in Nat /\ o \in Nat
    BY <1>4, <1>6, <1>7 DEF Files, FileStates, ListedFiles
  <2>2. s.stamp[2] = first /\ s.stamp[3] = last
    BY <1>4, <1>7 DEF FileStamp
  <2>3. l.size = last - first + 1 /\ l.prefix = first
    BY <1>5, <1>7 DEF ListedTrue, Length
  <2>4. first \in firsts /\ last <= written /\ \A t \in firsts : t <= first \/ last < t
    BY <1>5, <1>7 DEF ListedTrue, Seen
  <2>5. firsts \subseteq 1 .. written /\ written \in Nat
    BY FilesShape DEF HostTrue
  <2>6. first >= 1
    BY <2>4, <2>5
  <2> QED
    BY <2>1, <2>2, <2>3, <2>4, <2>5, <2>6, <1>5, <1>7
<1>9. PICK b : b = first + o
  OBVIOUS
<1>10. /\ b \in Nat /\ b + c <= last + 1 /\ (done => ~ l.active /\ b + c = last + 1)
  <2>1. o + c <= l.size /\ (done => ~ l.active /\ o + c = l.size)
    BY <1>7 DEF CheckedBy
  <2> QED
    BY <2>1, <1>8, <1>9
<1>11. PICK rows, t : rows = RowsBy(s, b, c) /\ t = ReadBy(s, c, done)
  OBVIOUS
<1>12. /\ IsFiniteSet(rows) /\ rows \subseteq LogRecord
       /\ \A x \in rows : /\ x.gen = s.gen /\ x.record <= written
                          /\ first + o <= x.record /\ x.record < b + c
  <2>1. s.prefix # 0 /\ s.prefix + s.offset + c <= written + 1 /\ s.prefix + s.offset = b
    BY <1>7, <1>8, <1>9, <1>10
  <2>2. rows = RowsBy(s, s.prefix + s.offset, c)
    BY <2>1, <1>11
  <2>3. /\ IsFiniteSet(rows) /\ rows \subseteq LogRecord
        /\ \A x \in rows :
              /\ x.gen = s.gen /\ x.record <= written
              /\ s.prefix + s.offset <= x.record /\ x.record < s.prefix + s.offset + c
    BY <2>1, <2>2, <1>4, RowsByFacts
  <2> QED
    BY <2>1, <2>3, <1>9
<1>13. \A x \in LogRecord : x.record \in Nat
  BY RemoteLogAssumption DEF LogRecord
<1>14. ASSUME NEW x \in rows
       PROVE  /\ IsHome(l.file.first, x.record)
              /\ \A y \in stored : y.record # x.record
  <2>1. PICK r \in Nat : r = x.record /\ first + o <= r /\ r < b + c
    BY <1>12, <1>13
  <2>2. IsHome(first, r)
    <3>1. first <= r /\ r <= last
      BY <2>1, <1>8, <1>10
    <3>2. \A u \in firsts : u <= first \/ r < u
      <4>1. firsts \subseteq Nat
        BY FilesShape
      <4> QED
        BY <2>1, <3>1, <4>1, <1>8
    <3> QED
      BY <3>1, <3>2, <1>8 DEF IsHome
  <2>3. ASSUME NEW y \in stored, y.record = r
        PROVE  FALSE
    <3>1. y.record < first + o
      BY <2>2, <2>3, <1>3, <1>5, <1>7, <1>8 DEF StateTrue
    <3> QED
      BY <2>1, <2>3, <3>1, <1>8
  <2> QED
    BY <2>1, <2>2, <2>3, <1>7
<1>15. PICK more : more = stored \cup (pass.logs \cup rows)
  OBVIOUS
<1>16. /\ t \in FileStates /\ t.id = s.id /\ t.stamp = s.stamp /\ t.meta = s.meta
       /\ t.gen = s.gen /\ StateTrue(t, base, more)
  <2>1. \A x \in kept : x.record \in Nat
    <3>1. stored \subseteq LogRecord /\ pass.logs \subseteq LogRecord
      BY <1>6 DEF LogRowsTrue, Passes
    <3> QED
      BY <3>1, <1>3, <1>13
  <2>2. /\ kept \subseteq more /\ rows \subseteq more /\ \A x \in more : x \in kept \/ x \in rows
    BY <1>3, <1>15
  <2>3. Seen(s.id, s.stamp[2], last, done)
    <3>1. Seen(l.file.id, first, last, ~ l.active)
      BY <1>5, <1>7 DEF ListedTrue
    <3> QED
      BY <3>1, <1>4, <1>8, <1>10, SeenLess
  <2>4. /\ s.stamp[2] + s.offset + c <= last + 1
        /\ done => s.stamp[2] + s.offset + c = last + 1
        /\ b = s.stamp[2] + s.offset /\ last = s.stamp[3]
    BY <1>7, <1>8, <1>9, <1>10
  <2> QED
    BY <2>1, <2>2, <2>3, <2>4, <1>5, <1>11, ReadOnTrue
<1>17. PICK states, logs : states = pass.states \o <<t>> /\ logs = pass.logs \cup rows
  OBVIOUS
<1>18. states \in Seq(FileStates) /\ states = Append(pass.states, t) /\ logs \in SUBSET LogRecord
  <2>1. logs \in SUBSET LogRecord
    BY <1>6, <1>12, <1>17 DEF Passes
  <2> QED
    BY <2>1, <1>6, <1>16, <1>17, Joined, AppendIsConcat
<1>19. q = [pass EXCEPT !.pc = "next", !.data = {}, !.states = states, !.logs = logs]
  <2>1. q = [pass EXCEPT !.pc = "next", !.data = {}, !.states = Append(@, ReadBy(s, c, done)),
                         !.logs = @ \cup RowsBy(s, l.prefix + s.offset, c)]
    BY DEF CheckedBy
  <2>2. l.prefix + s.offset = b
    BY <1>7, <1>8, <1>9
  <2> QED
    BY <2>1, <2>2, <1>11, <1>17, <1>18
<1>20. q.gap = pass.gap /\ q.gone = pass.gone /\ ThroughWith(q, t, rows)
  <2>1. /\ q \in Passes /\ q.pc = "next" /\ q.files = pass.files /\ q.found = pass.found
        /\ q.seen = pass.seen /\ q.states = states /\ q.logs = logs
        /\ q.gap = pass.gap /\ q.gone = pass.gone
    BY <1>6, <1>18, <1>19 DEF Passes
  <2> QED
    BY <2>1, <1>17 DEF ThroughWith
<1>21. StateTrue(t, PassBase(pass), stored \cup (pass.logs \cup rows))
  BY <1>3, <1>15, <1>16
<1> QED
  BY <1>1, <1>12, <1>14, <1>16, <1>20, <1>21, ThroughRead

LEMMA SameMade ==
  ASSUME NEW p, MadeTrue(p), NEW q, q.files = p.files, q.found = p.found, q.states = p.states,
         q.logs = p.logs, PassBase(q) = PassBase(p)
  PROVE  MadeTrue(q)
<1>1. /\ Len(q.states) <= Len(q.files) /\ IsFiniteSet(q.logs)
      /\ \A i, j \in DOMAIN q.states : i # j => q.states[i].gen # q.states[j].gen
  BY DEF MadeTrue
<1>2. \A x \in q.logs :
         /\ \E i \in DOMAIN q.states :
               x.gen = q.states[i].gen /\ IsHome(q.files[i].file.first, x.record)
         /\ x.record <= written
         /\ \A y \in stored : y.record # x.record
  BY DEF MadeTrue
<1>3. ASSUME NEW i \in DOMAIN q.states
      PROVE  /\ StateTrue(q.states[i], PassBase(q), stored \cup q.logs)
             /\ q.states[i].id = q.files[i].file.id
             /\ q.states[i].stamp = FileStamp(q.files[i].file)
             /\ q.states[i].meta = q.files[i].meta
  BY DEF MadeTrue
<1>4. ASSUME NEW i \in DOMAIN q.states
      PROVE  IF q.found[i] # 0 THEN q.states[i].gen = States[q.found[i]].gen
             ELSE /\ \A k \in DOMAIN States : q.states[i].gen # States[k].gen
                  /\ \A x \in stored : q.states[i].gen # x.gen
  BY DEF MadeTrue
<1> QED
  BY <1>1, <1>2, <1>3, <1>4 DEF MadeTrue

\* Reading a file changes nothing that was listed or made.
LEMMA ReadFileRead ==
  ASSUME Sound, Read(pass), pass.pc = "next", NEW data, NEW left, NEW q,
         q = [pass EXCEPT !.pc = "check", !.data = data, !.left = left]
  PROVE  Read(q)
<1>1. pass \in Passes /\ ListingTrue(pass) /\ MadeTrue(pass)
  BY PassSound DEF Read
<1>2. /\ q.pc = "check" /\ q.files = pass.files /\ q.found = pass.found /\ q.gap = pass.gap
      /\ q.states = pass.states /\ q.logs = pass.logs /\ q.gone = pass.gone
  BY <1>1 DEF Passes
<1>3. ListingTrue(q)
  BY <1>1, <1>2 DEF ListingTrue
<1>4. PassBase(q) = PassBase(pass)
  BY <1>2 DEF PassBase
<1>5. MadeTrue(q)
  BY <1>1, <1>2, <1>4, SameMade
<1> QED
  BY <1>2, <1>3, <1>5 DEF Read, Listing

-----------------------------------------------------------------------------
(* The commit of what was listed while no file moved.                      *)

\* No key of a new row is known: all are inserted.
LEMMA AllInserted ==
  ASSUME LogRowsTrue, pass \in Passes, MadeTrue(pass)
  PROVE  Inserted = pass.logs
<1>1. ASSUME NEW x \in pass.logs, NEW y \in stored, y.gen = x.gen, y.offset = x.offset
      PROVE  FALSE
  <2>1. PICK i \in DOMAIN pass.states : x.gen = pass.states[i].gen
    BY DEF MadeTrue
  <2>2. PICK s, base, kept :
           s = pass.states[i] /\ base = PassBase(pass) /\ kept = stored \cup pass.logs
    OBVIOUS
  <2>3. StateTrue(s, base, kept) /\ x \in kept /\ y \in kept
    BY <2>2 DEF MadeTrue
  <2>4. x.record = s.prefix + x.offset /\ y.record = s.prefix + y.offset
    BY <2>1, <2>2, <2>3, <1>1 DEF StateTrue
  <2>5. y.record # x.record
    BY DEF MadeTrue
  <2> QED
    BY <2>4, <2>5, <1>1
<1>2. \A x \in pass.logs : \A y \in stored : <<y.gen, y.offset>> # <<x.gen, x.offset>>
  BY <1>1
<1> QED
  BY <1>2 DEF Inserted

\* What the commit of a pass leaves whose listing saw no file move.
LEMMA CommittedRead ==
  ASSUME HostTrue, Sound, LogRowsTrue, CursorTrue, LossTrue, Read(pass), CommitPass
  PROVE  /\ pass \in Passes /\ ListingTrue(pass) /\ MadeTrue(pass)
         /\ DOMAIN pass.states = DOMAIN pass.files /\ pass.states \in Seq(FileStates)
         /\ stored' = stored \cup pass.logs /\ baseline' = PassBase(pass)
         /\ PassBase(pass) \in Nat
         /\ cursor' = pass.states /\ cursor' # NoCursor /\ States' = pass.states
         /\ listed' = listed \cup {l.file.first : l \in Range(pass.files)}
         /\ gone' = pass.gone /\ told \subseteq told' /\ (pass.gap => pass.gone \subseteq told')
         /\ UNCHANGED hostVars
<1>1. pass \in Passes /\ stored' = stored \cup Inserted
  BY Committed
<1>2. ListingTrue(pass) /\ MadeTrue(pass)
  BY DEF Read
<1>3. Inserted = pass.logs
  BY <1>1, <1>2, AllInserted
<1> QED
  BY <1>1, <1>2, <1>3, Committed

\* Of the rows of a pass.
LEMMA LogsShape ==
  ASSUME pass \in Passes, MadeTrue(pass)
  PROVE  /\ pass.logs \subseteq LogRecord /\ IsFiniteSet(pass.logs)
         /\ \A x \in pass.logs : x.record \in Nat /\ x.record <= written
<1>1. pass.logs \subseteq LogRecord
  BY DEF Passes
<1>2. \A x \in LogRecord : x.record \in Nat
  BY RemoteLogAssumption DEF LogRecord
<1> QED
  BY <1>1, <1>2 DEF MadeTrue

LEMMA CommitRows ==
  ASSUME HostTrue, Sound, LogRowsTrue, CursorTrue, LossTrue, Read(pass), CommitPass
  PROVE  LogRowsTrue'
<1>1. /\ pass \in Passes /\ ListingTrue(pass) /\ MadeTrue(pass)
      /\ DOMAIN pass.states = DOMAIN pass.files
      /\ stored' = stored \cup pass.logs /\ baseline' = PassBase(pass) /\ UNCHANGED hostVars
      /\ PassBase(pass) \in Nat
  BY CommittedRead
<1>2. IsFiniteSet(stored') /\ stored' \subseteq LogRecord /\ \A x \in stored' : x.record <= written
  BY <1>1, LogsShape, FS_Union DEF LogRowsTrue
<1>3. \A x \in pass.logs : \A y \in stored : y.record # x.record
  BY <1>1 DEF MadeTrue
<1>4. ASSUME NEW x \in pass.logs, NEW y \in pass.logs, x.record = y.record
      PROVE  x = y
  <2>1. PICK i \in DOMAIN pass.states :
           x.gen = pass.states[i].gen /\ IsHome(pass.files[i].file.first, x.record)
    BY <1>1 DEF MadeTrue
  <2>2. PICK j \in DOMAIN pass.states :
           y.gen = pass.states[j].gen /\ IsHome(pass.files[j].file.first, y.record)
    BY <1>1 DEF MadeTrue
  <2>3. x.record \in Nat
    BY <1>1, LogsShape
  <2>4. pass.files[i].file.first = pass.files[j].file.first
    BY <2>1, <2>2, <2>3, <1>4, HomeUnique, FilesShape
  <2>5. i = j
    BY <2>4, <1>1, PassShape
  <2>6. PICK s, base, kept :
           s = pass.states[i] /\ base = PassBase(pass) /\ kept = stored \cup pass.logs
    OBVIOUS
  <2>7. StateTrue(s, base, kept) /\ x \in kept /\ y \in kept /\ s.prefix \in Nat
    <3>1. StateTrue(s, base, kept)
      BY <2>6, <1>1 DEF MadeTrue
    <3> QED
      BY <3>1, <2>6 DEF StateTrue, FileStates
  <2>8. x.record = s.prefix + x.offset /\ y.record = s.prefix + y.offset
    BY <2>1, <2>2, <2>5, <2>6, <2>7 DEF StateTrue
  <2>9. x \in LogRecord /\ y \in LogRecord
    BY <1>1, LogsShape
  <2>10. x.offset \in Nat /\ y.offset \in Nat
    BY <2>9 DEF LogRecord
  <2>11. x.offset = y.offset
    BY <2>7, <2>8, <2>10, <1>4
  <2>12. x.gen = y.gen
    BY <2>1, <2>2, <2>5
  <2> QED
    BY <2>9, <2>11, <2>12, <1>4 DEF LogRecord
<1>5. NoRecordTwice'
  <2>1. \A x, y \in stored : x.record = y.record => x = y
    BY DEF LogRowsTrue, NoRecordTwice
  <2> QED
    BY <2>1, <1>1, <1>3, <1>4 DEF NoRecordTwice
<1>7. written' = written
  BY <1>1 DEF hostVars
<1> QED
  BY <1>1, <1>2, <1>5, <1>7 DEF LogRowsTrue

LEMMA CommitCursor ==
  ASSUME HostTrue, Sound, LogRowsTrue, CursorTrue, LossTrue, Read(pass), CommitPass
  PROVE  CursorTrue'
<1>1. /\ pass \in Passes /\ ListingTrue(pass) /\ MadeTrue(pass)
      /\ DOMAIN pass.states = DOMAIN pass.files /\ pass.states \in Seq(FileStates)
      /\ stored' = stored \cup pass.logs /\ baseline' = PassBase(pass)
      /\ cursor' = pass.states /\ cursor' # NoCursor /\ States' = pass.states
      /\ UNCHANGED hostVars
  BY CommittedRead
<1>2. remoteFiles' = remoteFiles /\ written' = written /\ firsts' = firsts
  BY <1>1 DEF hostVars
<1>3. \A h, r : IsHome(h, r)' <=> IsHome(h, r)
  BY <1>2 DEF IsHome
<1>4. \A s, base, kept : StateTrue(s, base, kept)' <=> StateTrue(s, base, kept)
  BY <1>2, <1>3 DEF StateTrue, Seen
<1>5. PICK base, kept : base = PassBase(pass) /\ kept = stored \cup pass.logs
  OBVIOUS
<1>6. \A k \in DOMAIN pass.states :
         /\ StateTrue(pass.states[k], base, kept)
         /\ pass.states[k].stamp[2] = pass.files[k].file.first
  <2> TAKE k \in DOMAIN pass.states
  <2>1. StateTrue(pass.states[k], base, kept)
    BY <1>1, <1>5 DEF MadeTrue
  <2>2. pass.states[k].stamp = FileStamp(pass.files[k].file)
    BY <1>1 DEF MadeTrue
  <2> QED
    BY <2>1, <2>2 DEF FileStamp
<1>7. PICK states : states = pass.states
  OBVIOUS
<1>a. base = baseline' /\ kept = stored' /\ states = cursor' /\ states = States'
  BY <1>1, <1>5, <1>7
<1>b. \A k \in DOMAIN states : StateTrue(states[k], base, kept)'
  BY <1>4, <1>6, <1>7
<1>8. \A j, k \in DOMAIN pass.states : j # k =>
         /\ pass.states[j].gen # pass.states[k].gen
         /\ pass.states[j].stamp[2] # pass.states[k].stamp[2]
  <2>1. \A j, k \in DOMAIN pass.states : j # k => pass.states[j].gen # pass.states[k].gen
    BY <1>1 DEF MadeTrue
  <2>2. \A j, k \in DOMAIN pass.files :
           j # k => pass.files[j].file.first # pass.files[k].file.first
    BY <1>1, PassShape
  <2> QED
    BY <2>1, <2>2, <1>1, <1>6
<1>9. ASSUME NEW x \in kept, NEW i \in DOMAIN remoteFiles, IsHome(remoteFiles[i].first, x.record)
      PROVE  \E k \in DOMAIN pass.states : pass.states[k].prefix = remoteFiles[i].first
  <2>1. x.record \in Nat /\ remoteFiles[i].first <= x.record /\ remoteFiles[i].first \in Nat
    <3>1. x.record \in Nat
      BY <1>1, <1>5, LogsShape, RowsBounded
    <3> QED
      BY <3>1, <1>9, FilesShape DEF IsHome
  <2>2. \E j \in DOMAIN pass.files : pass.files[j].file.first = remoteFiles[i].first
    <3>1. CASE x \in stored
      <4>1. ~ (x.record < remoteFiles[i].first)
        BY <2>1
      <4> QED
        BY <4>1, <3>1, <1>1 DEF ListingTrue
    <3>2. CASE x \in pass.logs
      <4>1. PICK j \in DOMAIN pass.states : IsHome(pass.files[j].file.first, x.record)
        BY <3>2, <1>1 DEF MadeTrue
      <4>2. pass.files[j].file.first = remoteFiles[i].first
        BY <4>1, <2>1, <1>9, HomeUnique, FilesShape
      <4> QED
        BY <4>2, <1>1
    <3> QED
      BY <3>1, <3>2, <1>5
  <2>3. PICK j \in DOMAIN pass.states : pass.files[j].file.first = remoteFiles[i].first
    BY <2>2, <1>1
  <2>4. PICK s : s = pass.states[j]
    OBVIOUS
  <2>5. StateTrue(s, base, kept) /\ s.stamp[2] = remoteFiles[i].first
    BY <2>3, <2>4, <1>6
  <2>6. s.prefix = remoteFiles[i].first
    BY <2>5, <1>9 DEF StateTrue
  <2> QED
    BY <2>4, <2>6
<1>10. \A x \in kept : \A i \in DOMAIN remoteFiles' :
          IsHome(remoteFiles[i].first, x.record)' =>
             \E k \in DOMAIN states : states[k].prefix = remoteFiles'[i].first
  BY <1>2, <1>3, <1>7, <1>9
<1>11. \A k \in DOMAIN States' : StateTrue(States[k], baseline, stored)'
  BY <1>a, <1>b
<1> QED
  BY <1>1, <1>7, <1>a, <1>8, <1>10, <1>11 DEF CursorTrue

\* A record of a file that a committed pass has read to its end.
Lost(s, base, kept, r) ==
    /\ HostTrue /\ StateTrue(s, base, kept) /\ s.done /\ base \in Nat
    /\ r \in Nat /\ r >= base /\ IsHome(s.stamp[2], r)

\* A record of a file a committed pass has listed: when the file is no longer there,
\* its state is the last word on it.
LEMMA LostRecord ==
  ASSUME NEW s, NEW base, NEW kept, NEW r, Lost(s, base, kept, r)
  PROVE  \E x \in kept : x.record = r
<1> USE DEF Lost
<1>1. PICK first, last : first = s.stamp[2] /\ last = s.stamp[3]
  OBVIOUS
<1>2. first \in Nat /\ last \in Nat /\ s.offset \in Nat
  BY <1>1 DEF StateTrue, FileStates
<1>3. first <= last /\ last + 1 \in firsts
  BY <1>1 DEF StateTrue, Seen
<1>4. first <= r /\ r < last + 1
  <2>1. first <= r /\ (last + 1 <= first \/ r < last + 1)
    BY <1>1, <1>3 DEF IsHome
  <2> QED
    BY <2>1, <1>2, <1>3
<1>5. s.prefix # 0
  <2>1. ASSUME s.prefix = 0
        PROVE  FALSE
    <3>1. last < base
      BY <2>1, <1>1 DEF StateTrue
    <3> QED
      BY <3>1, <1>2, <1>4
  <2> QED
    BY <2>1
<1>6. s.prefix = first /\ first + s.offset = last + 1
  BY <1>1, <1>5 DEF StateTrue
<1>7. r \in s.prefix .. s.prefix + s.offset - 1
  BY <1>2, <1>4, <1>6
<1> QED
  BY <1>5, <1>7 DEF StateTrue

LEMMA CommitLoss ==
  ASSUME HostTrue, Sound, LogRowsTrue, CursorTrue, LossTrue, Read(pass), CommitPass
  PROVE  LossTrue'
<1>1. /\ pass \in Passes /\ ListingTrue(pass) /\ MadeTrue(pass)
      /\ DOMAIN pass.states = DOMAIN pass.files
      /\ stored' = stored \cup pass.logs /\ baseline' = PassBase(pass)
      /\ cursor' = pass.states /\ cursor' # NoCursor /\ States' = pass.states
      /\ listed' = listed \cup {l.file.first : l \in Range(pass.files)}
      /\ gone' = pass.gone /\ told \subseteq told' /\ (pass.gap => pass.gone \subseteq told')
      /\ UNCHANGED hostVars
  BY CommittedRead
<1>2. remoteFiles' = remoteFiles /\ written' = written /\ firsts' = firsts
  BY <1>1 DEF hostVars
<1>3. \A h, r : IsHome(h, r)' <=> IsHome(h, r)
  BY <1>2 DEF IsHome
<1>4. \A h, lost : Vanished(h, lost)' <=> Vanished(h, lost)
  BY <1>2, <1>3 DEF Vanished
<1>5. StoredRecords \subseteq StoredRecords'
  BY <1>1 DEF StoredRecords
<1>6. \A h \in listed' : h \in listed \/ \E i \in DOMAIN pass.files : pass.files[i].file.first = h
  BY <1>1 DEF Range
<1>7. \A k \in DOMAIN pass.states : pass.states[k].stamp[2] = pass.files[k].file.first
  <2> TAKE k \in DOMAIN pass.states
  <2>1. pass.states[k].stamp = FileStamp(pass.files[k].file)
    BY <1>1 DEF MadeTrue
  <2> QED
    BY <2>1 DEF FileStamp
<1>8. PICK lost : lost = pass.gone
  OBVIOUS
<1>9. ASSUME NEW h \in listed'
      PROVE  (\E k \in DOMAIN pass.states : pass.states[k].stamp[2] = h) \/ Vanished(h, lost)
  <2>1. CASE \E i \in DOMAIN pass.files : pass.files[i].file.first = h
    BY <2>1, <1>1, <1>7
  <2>2. CASE h \in listed
    <3>1. (\E i \in DOMAIN pass.files : pass.files[i].file.first = h) \/ Vanished(h, lost)
      BY <2>2, <1>1, <1>8 DEF ListingTrue
    <3> QED
      BY <2>1, <3>1
  <2> QED
    BY <2>1, <2>2, <1>6
<1>10. pass.gone \subseteq 1 .. written /\ written \in Nat
  BY <1>1, FilesShape DEF ListingTrue
<1>11. ASSUME NEW r \in pass.gone, NEW h \in listed', r >= baseline', IsHome(h, r)
       PROVE  r \in StoredRecords' \cup told'
  <2>1. \A i \in DOMAIN pass.files : pass.files[i].file.first # h
    BY <1>1, <1>11 DEF ListingTrue
  <2>2. h \in listed
    BY <2>1, <1>6
  <2>3. cursor # NoCursor
    BY <2>2 DEF CursorTrue
  <2>4. baseline' = baseline /\ baseline \in Nat
    BY <2>3, <1>1 DEF PassBase, LogRowsTrue
  <2>5. r \in 1 .. written /\ r \in Nat
    BY <1>10
  <2>6. CASE Vanished(h, gone)
    <3>1. r \in gone
      BY <2>5, <2>6, <1>11 DEF Vanished
    <3>2. r \in StoredRecords \cup told
      BY <3>1, <2>2, <2>4, <1>11 DEF LossTrue
    <3> QED
      BY <3>2, <1>1, <1>5
  <2>7. ASSUME NEW k \in DOMAIN States, States[k].stamp[2] = h
        PROVE  r \in StoredRecords' \cup told'
    <3>1. PICK s, base, kept : s = States[k] /\ base = baseline /\ kept = stored
      OBVIOUS
    <3>2. StateTrue(s, base, kept) /\ s.stamp[2] = h
      BY <3>1, <2>7 DEF CursorTrue
    <3>3. CASE s.done
      <4>0. /\ HostTrue /\ StateTrue(s, base, kept) /\ s.done /\ base \in Nat
            /\ r \in Nat /\ r >= base /\ IsHome(s.stamp[2], r)
        <5>1. base \in Nat /\ r >= base
          BY <3>1, <2>4, <1>11
        <5>2. IsHome(s.stamp[2], r)
          BY <3>2, <1>11
        <5> QED
          BY <5>1, <5>2, <3>2, <3>3, <2>5
      <4>a. \E x \in kept : x.record = r
        <5>1. Lost(s, base, kept, r)
          BY <4>0 DEF Lost
        <5> QED
          BY <5>1, LostRecord
      <4>1. PICK x \in kept : x.record = r
        BY <4>a
      <4>2. r \in StoredRecords
        BY <4>1, <3>1 DEF StoredRecords
      <4> QED
        BY <4>2, <1>5
    <3>4. CASE ~ s.done
      <4>1. k \notin Range(pass.found)
        <5>1. ASSUME NEW i \in DOMAIN pass.found, pass.found[i] = k
              PROVE  FALSE
          <6>1. i \in DOMAIN pass.files
            <7>1. Len(pass.found) = Len(pass.files) /\ pass.found \in Seq(Nat)
                  /\ pass.files \in Seq(ListedFiles)
              BY <1>1, PassShape DEF ListingTrue
            <7> QED
              BY <7>1
          <6>2. k # 0
            BY StatesShape
          <6>3. ListedTrue(pass.files[i]) /\ Candidate(s, pass.files[i])
            BY <6>1, <6>2, <5>1, <3>1, <1>1 DEF ListingTrue, MatchTrue
          <6>4. s.stamp[2] = pass.files[i].file.first
            BY <6>3, <3>2, CandidateFirst
          <6> QED
            BY <6>1, <6>4, <3>2, <2>1
        <5> QED
          BY <5>1 DEF Range
      <4>2. pass.gap
        BY <4>1, <3>1, <3>4, <1>1 DEF ListingTrue, Gap
      <4> QED
        BY <4>2, <1>1
    <3> QED
      BY <3>3, <3>4
  <2> QED
    BY <2>2, <2>6, <2>7 DEF LossTrue
<1>12. \A h \in listed' :
          (\E k \in DOMAIN States' : States'[k].stamp[2] = h) \/ Vanished(h, gone)'
  BY <1>1, <1>4, <1>8, <1>9
<1>13. \A r \in gone', h \in listed' :
          r >= baseline' /\ IsHome(h, r)' => r \in StoredRecords' \cup told'
  BY <1>1, <1>3, <1>11
<1>14. gone' \subseteq 1 .. written'
  BY <1>1, <1>2, <1>10
<1> QED
  BY <1>12, <1>13, <1>14 DEF LossTrue

-----------------------------------------------------------------------------
(* What is true of a pass stays so.                                        *)

LEMMA TrustedStays ==
  ASSUME HostTrue, HostTrue', HostGrows, FilesStand, LogRowsTrue,
         NEW p, p \in Passes \/ p = NoPass, Trusted(p)
  PROVE  Trusted(p)'
<1>1. CASE p = NoPass
  BY <1>1 DEF Trusted, NoPass
<1>2. CASE p \in Passes /\ Unmoved(p) /\ p.pc \in Listing
  <2>1. Unmoved(p)'
    BY <1>2, UnmovedStays
  <2> QED
    BY <2>1, <1>2 DEF Trusted, Listing
<1>3. CASE p \in Passes /\ Read(p)
  <2>1. UNCHANGED savedVars
    BY DEF FilesStand
  <2>2. ListingTrue(p)' /\ MadeTrue(p)'
    BY <2>1, <1>3, ListingStays, MadeStays DEF Read
  <2> QED
    BY <2>2, <1>3 DEF Trusted, Read, Listing
<1>4. CASE p.moved
  BY <1>4 DEF Trusted
<1> QED
  BY <1>1, <1>2, <1>3, <1>4 DEF Trusted

LEMMA BeginTrusted ==
  ASSUME HostTrue, NEW budget, NEW attempt, Begin(budget, attempt), NEW q, pass' = q
  PROVE  Trusted(q)
<1>1. q.pc = "list" /\ q.moved = (copy # NoCopy)
  BY DEF Begin, PassIs
<1>2. CASE copy = NoCopy
  BY <1>1, <1>2, BeginUnmoved DEF Trusted, Listing
<1>3. CASE copy # NoCopy
  BY <1>1, <1>3 DEF Trusted
<1> QED
  BY <1>2, <1>3

LEMMA RetryTrusted ==
  ASSUME HostTrue, NEW left, Retry(left), NEW q, pass' = q
  PROVE  Trusted(q)
<1>1. CASE pass' = NoPass
  BY <1>1 DEF Trusted
<1>2. CASE Begin(left, pass.attempt + 1)
  BY <1>2, BeginTrusted
<1> QED
  BY <1>1, <1>2 DEF Retry, PassIs

LEMMA ListingTrusted ==
  ASSUME HostTrue, Sound, LogRowsTrue, CursorTrue, LossTrue, Trusted(pass),
         StatNext \/ EnterUnread \/ MeasureArchive \/ ReadPrefix \/ MatchNext, NEW q, pass' = q
  PROVE  Trusted(q)
<1>1. pass.pc \in Listing /\ pass.pc # "idle"
  BY DEF StatNext, EnterUnread, MeasureArchive, LooksInto, ReadPrefix, MatchNext, Listing
<1>2. pass \in Passes /\ pass # NoPass
  BY <1>1, PassSound DEF NoPass
<1>3. q.moved = pass.moved
  BY <1>2 DEF StatNext, EnterUnread, MeasureArchive, ReadPrefix, MatchNext, Enter, PassIs, Passes
<1>4. CASE pass.moved
  BY <1>3, <1>4 DEF Trusted
<1>5. CASE ~ pass.moved
  <2>1. Unmoved(pass)
    BY <1>1, <1>2, <1>5 DEF Trusted, Read
  <2>2. CASE MatchNext
    BY <2>1, <2>2, MatchNextUnmoved DEF Trusted, Listing
  <2>3. CASE StatNext \/ EnterUnread \/ MeasureArchive \/ ReadPrefix
    <3>1. q.pc \in Listing
      BY <1>1, <1>2, <2>3
         DEF StatNext, EnterUnread, MeasureArchive, ReadPrefix, Enter, PassIs, Passes, Listing
    <3>2. Unmoved(q)
      BY <2>1, <2>3, StatNextUnmoved, EnterUnreadUnmoved, MeasureArchiveUnmoved, ReadPrefixUnmoved
    <3> QED
      BY <3>1, <3>2 DEF Trusted
  <2> QED
    BY <2>2, <2>3
<1> QED
  BY <1>4, <1>5

LEMMA ReadingTrusted ==
  ASSUME HostTrue, Sound, LogRowsTrue, CursorTrue, LossTrue, Trusted(pass),
         SkipFile \/ ReadFile \/ CheckFile, NEW q, pass' = q
  PROVE  Trusted(q)
<1>1. pass.pc \in {"next", "check"} /\ pass.pc # "idle" /\ pass.pc \notin Listing
  BY DEF SkipFile, ReadFile, Reads, CheckFile, Listing
<1>2. pass \in Passes /\ pass # NoPass
  BY <1>1, PassSound DEF NoPass
<1>3. pass.moved \/ Read(pass)
  BY <1>1, <1>2 DEF Trusted
<1>4. CASE SkipFile
  <2>1. q.moved = pass.moved
    BY <1>2, <1>4 DEF SkipFile, PassIs, Passes
  <2> QED
    BY <2>1, <1>3, <1>4, SkipRead DEF Trusted
<1>5. CASE ReadFile
  <2>1. PICK data, left, n :
           /\ data = AtPath(Current).first + StateOf(Current).offset ..
                        AtPath(Current).first + StateOf(Current).offset + n - 1
           /\ n = Wanted /\ left = pass.left - n
    OBVIOUS
  <2>2. \/ q = [pass EXCEPT !.pc = "check", !.data = data, !.left = left]
        \/ Retry(pass.left - Cardinality(data \cap Records(AtPath(Current))))
    BY <2>1, <1>5 DEF ReadFile, PassIs
  <2>3. CASE Retry(pass.left - Cardinality(data \cap Records(AtPath(Current))))
    BY <2>3, RetryTrusted
  <2>4. CASE q = [pass EXCEPT !.pc = "check", !.data = data, !.left = left]
    <3>1. q.moved = pass.moved
      BY <2>4, <1>2 DEF Passes
    <3>2. Read(pass) => Read(q)
      BY <2>4, <1>5, ReadFileRead DEF ReadFile, Reads
    <3> QED
      BY <3>1, <3>2, <1>3 DEF Trusted
  <2> QED
    BY <2>2, <2>3, <2>4
<1>6. CASE CheckFile
  <2>1. PICK l, s : l = Current /\ s = StateOf(l)
    OBVIOUS
  <2>2. pass.pc = "check" /\ MoreFiles /\ ~ s.done
    <3>1. pass.pc = "check" /\ SoundData(pass)
      BY <1>2, <1>6 DEF CheckFile, Sound, SoundPass
    <3> QED
      BY <3>1, <2>1 DEF SoundData, MoreFiles
  <2>3. \/ pass' = NoPass
        \/ Retry(pass.left)
        \/ \E c \in Nat, done \in BOOLEAN : CheckedBy(l, s, c, done)
    BY <2>1, <1>6, CheckGives
  <2>4. CASE pass' = NoPass
    BY <2>4 DEF Trusted
  <2>5. CASE Retry(pass.left)
    BY <2>5, RetryTrusted
  <2>6. CASE \E c \in Nat, done \in BOOLEAN : CheckedBy(l, s, c, done)
    <3>1. PICK c \in Nat, done \in BOOLEAN : CheckedBy(l, s, c, done)
      BY <2>6
    <3>2. q.moved = pass.moved
      BY <3>1, <1>2 DEF CheckedBy, Passes
    <3>3. Read(pass) => Read(q)
      BY <2>1, <2>2, <3>1, CheckedRead
    <3> QED
      BY <3>2, <3>3, <1>3 DEF Trusted
  <2> QED
    BY <2>3, <2>4, <2>5, <2>6
<1> QED
  BY <1>4, <1>5, <1>6

\* Every step but a commit leaves what was committed alone, and the pass trusted.
LEMMA StepTrusted ==
  ASSUME HostTrue, Sound, LogRowsTrue, CursorTrue, LossTrue, Trusted(pass),
         BeginPass \/ StatNext \/ EnterUnread \/ MeasureArchive \/ ReadPrefix \/ MatchNext
         \/ SkipFile \/ ReadFile \/ CheckFile \/ PathMissing \/ BatchLost,
         NEW q, pass' = q
  PROVE  Trusted(q) /\ UNCHANGED <<hostVars, savedVars>>
<1>1. UNCHANGED <<hostVars, savedVars>>
  BY DEF BeginPass, StatNext, EnterUnread, MeasureArchive, ReadPrefix, MatchNext, SkipFile,
     ReadFile, CheckFile, PathMissing, BatchLost
<1>2. CASE BeginPass
  <2>1. Begin(Budget, 1)
    BY <1>2 DEF BeginPass
  <2> QED
    BY <2>1, <1>1, BeginTrusted
<1>3. CASE PathMissing \/ BatchLost
  <2>1. q = NoPass
    BY <1>3 DEF PathMissing, BatchLost, PassIs
  <2> QED
    BY <2>1, <1>1 DEF Trusted
<1> QED
  BY <1>1, <1>2, <1>3, ListingTrusted, ReadingTrusted

-----------------------------------------------------------------------------
(* The invariant.                                                          *)

LEMMA InitTrue ==
  ASSUME RemoteLogInit
  PROVE  RemoteLogInv
<1>1. /\ cursor = NoCursor /\ stored = {} /\ pass = NoPass /\ baseline = 0
      /\ listed = {} /\ gone = {} /\ States = <<>>
  BY DEF RemoteLogInit, States
<1>2. LogRowsTrue
  BY <1>1, FS_EmptySet DEF LogRowsTrue, NoRecordTwice
<1>3. CursorTrue /\ LossTrue /\ Trusted(pass)
  BY <1>1 DEF CursorTrue, LossTrue, Trusted
<1> QED
  BY <1>2, <1>3, InitSound DEF RemoteLogInv, Agreed

\* What the host does moves files only under a listing that is marked.
LEMMA HostAgreed ==
  ASSUME Headed, HostTrue, Sound, Agreed, HostStep
  PROVE  Agreed'
<1>1. /\ HostTrue' /\ HostGrows /\ UNCHANGED savedVars
      /\ (WriteRecord /\ pass' = pass) \/ MovesFiles
  BY HostStepGrows
<1>2. LogRowsTrue /\ CursorTrue /\ LossTrue /\ Trusted(pass)
  BY DEF Agreed
<1>3. (LogRowsTrue /\ CursorTrue /\ LossTrue)'
  BY <1>1, <1>2, CursorStays
<1>4. PICK p : p = pass
  OBVIOUS
<1>5. p \in Passes \/ p = NoPass
  BY <1>4 DEF Sound, SoundPass
<1>6. CASE WriteRecord /\ pass' = pass
  <2>1. Trusted(p)'
    BY <1>1, <1>2, <1>4, <1>5, <1>6, WriteStands, TrustedStays
  <2> QED
    BY <2>1, <1>3, <1>4, <1>6 DEF Agreed
<1>7. CASE MovesFiles
  <2>1. CASE p.pc \in Listing
    <3>1. p \in Passes
      BY <2>1, <1>5 DEF Listing, NoPass
    <3>2. pass' = [p EXCEPT !.moved = TRUE]
      BY <2>1, <1>4, <1>7 DEF MovesFiles, Listing
    <3>3. pass'.moved
      BY <3>1, <3>2 DEF Passes
    <3> QED
      BY <3>3, <1>3 DEF Agreed, Trusted
  <2>2. CASE p.pc \notin Listing
    <3>1. pass' = p
      BY <2>2, <1>4, <1>7 DEF MovesFiles, Listing
    <3>2. p = NoPass \/ p.moved \/ (p \in Passes /\ Read(p))
      BY <2>2, <1>2, <1>4, <1>5 DEF Trusted
    <3>3. p \in Passes /\ Read(p) => Read(p)'
      BY <2>2, <1>1, <1>2, ListingStays, MadeStays DEF Read
    <3>4. Trusted(p)'
      BY <3>2, <3>3 DEF Trusted, NoPass
    <3> QED
      BY <3>1, <3>4, <1>3 DEF Agreed
  <2> QED
    BY <2>1, <2>2
<1> QED
  BY <1>1, <1>6, <1>7

LEMMA PassAgreed ==
  ASSUME HostTrue, Sound, Sound', Agreed, UNCHANGED <<hostVars, savedVars>>,
         NEW q, pass' = q, Trusted(q)
  PROVE  Agreed'
<1>1. HostTrue' /\ HostGrows /\ UNCHANGED savedVars
  BY StillGrows
<1>2. LogRowsTrue /\ CursorTrue /\ LossTrue
  BY DEF Agreed
<1>3. (LogRowsTrue /\ CursorTrue /\ LossTrue)'
  BY <1>1, <1>2, CursorStays
<1>4. q \in Passes \/ q = NoPass
  BY DEF Sound, SoundPass
<1>5. FilesStand
  BY SameStands
<1>6. Trusted(q)'
  BY <1>1, <1>2, <1>4, <1>5, TrustedStays
<1> QED
  BY <1>3, <1>6 DEF Agreed

LEMMA CommitAgreed ==
  ASSUME HostTrue, Sound, Agreed, CommitPass, ~ pass.moved
  PROVE  Agreed'
<1>1. LogRowsTrue /\ CursorTrue /\ LossTrue /\ Trusted(pass)
  BY DEF Agreed
<1>2. pass.pc = "next" /\ pass' = NoPass
  BY DEF CommitPass, PassIs
<1>3. Read(pass)
  BY <1>1, <1>2 DEF Trusted, Listing, NoPass
<1>4. Trusted(pass)'
  BY <1>2 DEF Trusted, NoPass
<1> QED
  BY <1>1, <1>3, <1>4, CommitRows, CommitCursor, CommitLoss DEF Agreed

LEMMA NextKeeps ==
  ASSUME Headed, RemoteLogInv, [RemoteLogNext]_remoteLogVars
  PROVE  RemoteLogInv'
<1>1. HostTrue /\ Sound /\ HostTrue' /\ Sound'
  BY StepSound DEF RemoteLogInv
<1>2. ASSUME blurred' = 0
      PROVE  Agreed'
  <2>1. blurred \in Nat
    BY <1>1 DEF Sound, SoundRows
  <2>2. CASE CommitPass
    <3>1. blurred = 0 /\ ~ pass.moved
      BY <1>2, <2>1, <2>2 DEF CommitPass
    <3> QED
      BY <3>1, <2>2, <1>1, CommitAgreed DEF RemoteLogInv
  <2>3. CASE HostStep
    <3>1. UNCHANGED savedVars
      BY <2>3, <1>1, HostStepGrows
    <3>2. blurred = 0
      BY <3>1, <1>2 DEF savedVars
    <3> QED
      BY <3>2, <2>3, <1>1, HostAgreed DEF RemoteLogInv
  <2>4. CASE UNCHANGED remoteLogVars
    <3>1. UNCHANGED <<hostVars, savedVars>> /\ pass' = pass /\ blurred = 0
      BY <2>4, <1>2 DEF remoteLogVars, savedVars
    <3>2. Agreed /\ Trusted(pass)
      BY <3>1 DEF RemoteLogInv, Agreed
    <3> QED
      BY <3>1, <3>2, <1>1, PassAgreed
  <2>5. CASE BeginPass \/ StatNext \/ EnterUnread \/ MeasureArchive \/ ReadPrefix \/ MatchNext
             \/ SkipFile \/ ReadFile \/ CheckFile \/ PathMissing \/ BatchLost
    <3>1. UNCHANGED <<hostVars, savedVars>>
      BY <2>5 DEF BeginPass, StatNext, EnterUnread, MeasureArchive, ReadPrefix, MatchNext,
         SkipFile, ReadFile, CheckFile, PathMissing, BatchLost
    <3>2. Agreed
      BY <3>1, <1>2 DEF RemoteLogInv, savedVars
    <3>3. PICK q : pass' = q
      OBVIOUS
    <3>4. Trusted(q)
      BY <3>2, <3>3, <2>5, <1>1, StepTrusted DEF Agreed
    <3> QED
      BY <3>1, <3>2, <3>3, <3>4, <1>1, PassAgreed
  <2> QED
    BY <2>2, <2>3, <2>4, <2>5 DEF RemoteLogNext, HostStep
<1> QED
  BY <1>1, <1>2 DEF RemoteLogInv

\* The invariant: what the host holds, what was stored and committed, and what the
\* pass under way has listed and read.  Whatever the host does, no position and no
\* generation is other than its file's; as long as no committed pass listed files that
\* moved, the three views agree on every file, if a new or an emptied one gets its first
\* record at once.  A file that stays empty has no first record to be known by, and the
\* model checker finds the loss that is not told of.
THEOREM RemoteLogInvariant ==
  ASSUME Headed
  PROVE  RemoteLogSpec => []RemoteLogInv
<1>1. RemoteLogInit => RemoteLogInv
  BY InitTrue
<1>2. RemoteLogInv /\ [RemoteLogNext]_remoteLogVars => RemoteLogInv'
  BY NextKeeps
<1> QED
  BY <1>1, <1>2, PTL DEF RemoteLogSpec

LEMMA TypeFollows ==
  ASSUME RemoteLogInv
  PROVE  RemoteLogTypeOK
<1>1. HostTrue /\ SoundRows /\ SoundCursor /\ written \in Nat /\ firsts \subseteq 1 .. written
  BY FilesShape DEF RemoteLogInv, HostTrue, Sound
<1>2. /\ written \in 2 .. MaxRecord /\ stored \subseteq LogRecord
      /\ Len(remoteFiles) \in 1 .. MaxFiles
  BY <1>1 DEF HostTrue, SoundRows
<1>3. ASSUME NEW f \in Range(remoteFiles)
      PROVE  /\ f.id \in Inodes /\ f.gz \in BOOLEAN
             /\ 1 <= f.first /\ f.first <= f.last + 1 /\ f.last <= written
  <2>1. PICK i \in DOMAIN remoteFiles : f = remoteFiles[i]
    BY DEF Range
  <2>2. f \in Files /\ f.first \in firsts /\ f.first <= f.last /\ f.last <= written
    BY <2>1, <1>1, FilesShape DEF HostTrue
  <2>3. f.id \in Inodes /\ f.gz \in BOOLEAN /\ f.first \in Nat /\ f.last \in Nat
    BY <2>2 DEF Files
  <2>4. f.first \in 1 .. written
    BY <2>2, <1>1
  <2> QED
    BY <2>2, <2>3, <2>4, <1>1
<1>4. ASSUME NEW s \in Range(States)
      PROVE  /\ s.id \in Inodes /\ s.offset \in 0 .. written /\ s.done \in BOOLEAN
             /\ s.prefix \in 0 .. written
  <2>1. PICK k \in DOMAIN States : s = States[k]
    BY DEF Range
  <2>2. s \in FileStates /\ s.offset <= written /\ s.prefix <= written
    BY <2>1, <1>1 DEF SoundCursor, SoundState
  <2>3. s.id \in Inodes /\ s.offset \in Nat /\ s.done \in BOOLEAN /\ s.prefix \in Nat
    BY <2>2 DEF FileStates
  <2> QED
    BY <2>2, <2>3, <1>1
<1>5. StoredRecords \subseteq 1 .. written
  <2>1. \A x \in stored : x.record \in 1 .. MaxRecord /\ x.record <= written
    BY <1>1 DEF SoundRows, LogRecord
  <2>2. \A x \in stored : x.record \in 1 .. written
    BY <2>1, <1>1, RemoteLogAssumption
  <2> QED
    BY <2>2 DEF StoredRecords
<1> QED
  BY <1>2, <1>3, <1>4, <1>5 DEF RemoteLogTypeOK

\* Every record belongs to the file with the greatest first record up to it.
LEMMA HomeFound ==
  ASSUME HostTrue, NEW r \in 1 .. written
  PROVE  IsHome(HomeOf(r), r)
<1> DEFINE Back == {r - t : t \in {u \in firsts : u <= r}}
<1>1. written \in Nat /\ r \in Nat /\ firsts \subseteq 1 .. written /\ 1 \in firsts /\ 1 <= r
  BY FilesShape DEF HostTrue
<1>2. Back \subseteq Nat /\ r - 1 \in Back
  BY <1>1
<1> HIDE DEF Back
<1>3. PICK b \in Back : \A c \in Back : <<c, b>> \notin OpToRel(<, Nat)
  BY <1>2, WFMin, NatLessThanWellFounded
<1>4. PICK h \in firsts : h <= r /\ b = r - h
  BY <1>3 DEF Back
<1>5. \A t \in firsts : t <= r => t <= h
  <2> TAKE t \in firsts
  <2> HAVE t <= r
  <2>1. r - t \in Back
    BY DEF Back
  <2>2. ~ (r - t < b)
    BY <2>1, <1>2, <1>3 DEF OpToRel
  <2>3. t \in Nat /\ h \in Nat
    BY <1>1
  <2> QED
    BY <2>2, <2>3, <1>1, <1>4
<1>6. /\ HomeOf(r) \in firsts /\ HomeOf(r) <= r
      /\ \A t \in firsts : t <= r => t <= HomeOf(r)
  BY <1>4, <1>5 DEF HomeOf
<1>7. \A t \in firsts : t <= r \/ r < t
  BY <1>1
<1> QED
  BY <1>6, <1>7 DEF IsHome

LEMMA AccountFollows ==
  ASSUME RemoteLogInv
  PROVE  EveryRecordAccounted
<1>1. HostTrue /\ SoundCursor
  BY DEF RemoteLogInv, Sound
<1>2. NothingPassedOver
  <2>1. ASSUME NEW s \in Range(States), s.prefix # 0,
               NEW r \in s.prefix .. s.prefix + s.offset - 1, r >= baseline
        PROVE  r \in StoredRecords
    <3>1. PICK k \in DOMAIN States : s = States[k]
      BY DEF Range
    <3>2. SoundState(s, baseline, stored)
      BY <3>1, <1>1 DEF SoundCursor
    <3>3. \E x \in stored : x.record = r
      BY <3>2, <2>1 DEF SoundState
    <3> QED
      BY <3>3 DEF StoredRecords
  <2> QED
    BY <2>1 DEF NothingPassedOver
<1>3. ASSUME blurred = 0
      PROVE  NoRecordTwice /\ LossIsTold
  <2>1. LogRowsTrue /\ LossTrue
    BY <1>3 DEF RemoteLogInv, Agreed
  <2>2. \A r \in gone : IsHome(HomeOf(r), r)
    BY <2>1, <1>1, HomeFound DEF LossTrue
  <2> QED
    BY <2>1, <2>2 DEF LogRowsTrue, LossTrue, LossIsTold
<1> QED
  BY <1>2, <1>3 DEF EveryRecordAccounted

\* Files, states and rows keep their shape, and no position lies beyond what was
\* written (the states of remote_logs/collector.py and their merge into a cursor).
THEOREM RemoteLogTypeCorrect ==
  ASSUME Headed
  PROVE  RemoteLogSpec => []RemoteLogTypeOK
<1>1. RemoteLogInv => RemoteLogTypeOK
  BY TypeFollows
<1> QED
  BY <1>1, RemoteLogInvariant, PTL

\* Whatever the host rotates, compresses, truncates or deletes between any two commands
\* of a pass, and however often a pass begins again or is lost: no committed position
\* passes over a record.  Until a pass is committed under whose listing files moved, no
\* record is stored twice, and one that is lost is told of.
THEOREM RecordsAccounted ==
  ASSUME Headed
  PROVE  RemoteLogSpec => []EveryRecordAccounted
<1>1. RemoteLogInv => EveryRecordAccounted
  BY AccountFollows
<1> QED
  BY <1>1, RemoteLogInvariant, PTL
==============================================================================
