--------------------------- MODULE StorageProofs ---------------------------
(***************************************************************************)
(* Proofs about the two modules of storage.rs: LogStore for every capacity,*)
(* line size and checkpoint period, BootSession for every card, number of  *)
(* power-ons and number of failing calls.                                  *)
(***************************************************************************)
EXTENDS Storage, SequenceTheorems, WellFoundedInduction, TLAPS

-----------------------------------------------------------------------------
(* LogStore: what is true of DEBUG.LOG between two calls. *)
DebugStates ==
  [buffer : [length : 0 .. DEBUG_BUFFER_CAPACITY, levels : SUBSET BOOLEAN],
   unflushed : SUBSET BOOLEAN, trouble : BOOLEAN, dropped : BOOLEAN]

Durable(d) == TRUE \in d.unflushed \cup d.buffer.levels => d.trouble

(* The age of what is at risk, from the records since the last checkpoint. *)
AgeInv ==
  \A f \in AtRisk : age[f] <= (local_records_written % CHECKPOINT_RECORDS) + excused[f]

LogInv == TypeOK /\ DebugLogIsKept /\ AgeInv

-----------------------------------------------------------------------------
(* BootSession: every number of a recorded session is below n. *)
Above(n) == \A i \in DOMAIN recorded : recorded[i] < n

FileSteps == {"LOCAL.LOG", "EVENT.LOG", "META.TXT", "RX.LOG", "DEBUG.LOG"}

(* Recorded sessions have a directory, and lie below the counter, if there is
   one, and below the session that is being started. *)
NumberInv ==
  /\ \A i \in DOMAIN recorded : recorded[i] \in directories
  /\ counter # None => Above(counter)
  /\ pc \in {"truncate", "write", "make", "open"} \cup FileSteps =>
       Session!InRange(session) /\ Above(session)
  /\ pc \in {"make", "open"} \cup FileSteps => counter = session + 1
  /\ pc \in {"open"} \cup FileSteps => session \in directories

(* The handles at every step. *)
DirsAt ==
  IF pc = "survey root" THEN {"/"}
  ELSE IF pc = "survey id" THEN {"/SURVEY"}
  ELSE IF pc \in {"choose", "truncate", "write", "make", "open"} THEN {"/SURVEY/id"}
  ELSE IF pc \in FileSteps \cup {"survey"} THEN {"session"}
  ELSE IF pc = "global" THEN {"/"} ELSE {}

FilesAt ==
  IF pc = "write" THEN {"BOOT.NXT"}
  ELSE IF pc = "EVENT.LOG" THEN {"LOCAL.LOG"}
  ELSE IF pc \in {"META.TXT", "RX.LOG"} THEN {"LOCAL.LOG", "EVENT.LOG"}
  ELSE IF pc \in {"DEBUG.LOG", "survey"} THEN {"LOCAL.LOG", "EVENT.LOG", "RX.LOG"}
  ELSE IF pc = "global" THEN {"DEBUG.LOG"} ELSE {}

HandleInv ==
  /\ dirs = DirsAt
  /\ files = FilesAt \/ (pc = "survey" /\ files = FilesAt \cup {"DEBUG.LOG"})
  /\ volume_open => pc \notin {"off", "card", "system log"}
  /\ ~volume_open => pc \in {"off", "card", "system log", "mount", "offline"}

(* While nothing has failed in this boot nothing stands in its way. *)
CleanInv ==
  ~faulted =>
    /\ pc = "mount" => ~volume_open
    /\ pc \in {"truncate", "write", "make"} => session \notin directories
    /\ pc \in {"fallback", "global", "offline"} => MAX_BOOT_SESSION \in directories

SessionInv ==
  /\ Session!TypeOK
  /\ Session!RecordedNumbersGrow
  /\ NumberInv
  /\ HandleInv
  /\ CleanInv

-----------------------------------------------------------------------------
(* The count of records since the last checkpoint. *)
LEMMA SinceCheckpoint ==
  ASSUME NEW c \in Nat \ {0}, NEW n \in Nat
  PROVE  /\ n % c \in Nat /\ n % c < c
         /\ (n + 1) % c # 0 => (n % c) + 1 <= (n + 1) % c
<1> DEFINE q == n \div c
           r == n % c
           q1 == (n + 1) \div c
           r1 == (n + 1) % c
<1>1. q \in Nat /\ r \in Nat /\ r < c /\ n = c * q + r
  BY SMTT(30)
<1>2. q1 \in Nat /\ r1 \in Nat /\ n + 1 = c * q1 + r1
  BY SMTT(30)
<1> SUFFICES ASSUME r1 # 0 PROVE r + 1 <= r1
  BY <1>1
<1> HIDE DEF q, r, q1, r1
<1>3. CASE q1 <= q
  <2>1. PICK k \in Nat : q = q1 + k
    BY <1>1, <1>2, <1>3
  <2>2. c * k \in Nat /\ c * q = c * q1 + c * k /\ c * q1 \in Nat
    BY <2>1, <1>2
  <2>3. QED
    BY <1>1, <1>2, <2>2
<1>4. CASE q1 > q
  <2>1. PICK k \in Nat : q1 = q + k + 1
    BY <1>1, <1>2, <1>4
  <2>2. c * k \in Nat /\ c * q1 = c * q + c * k + c /\ c * q \in Nat
    BY <2>1, <1>1
  <2>3. QED
    BY <1>1, <1>2, <2>2
<1>5. QED
  BY <1>3, <1>4, <1>1, <1>2

(* A line has a size and fits into an empty buffer. *)
LEMMA LineTypes ==
  ASSUME NEW line \in Line
  PROVE  line.size \in Nat /\ line.size <= DEBUG_BUFFER_CAPACITY /\ line.urgent \in BOOLEAN
<1>1. line.size \in LineSizes /\ line.urgent \in BOOLEAN
  BY DEF Line
<1>2. /\ DEBUG_LINE_CAPACITY \in Nat /\ DEBUG_BUFFER_CAPACITY \in Nat
      /\ DEBUG_LINE_CAPACITY <= DEBUG_BUFFER_CAPACITY
      /\ \A n \in LineSizes : n \in 1 .. DEBUG_LINE_CAPACITY
  BY StoreAssumption
<1>3. QED
  BY <1>1, <1>2

(* A flush empties the buffer, and what is urgent is durable after it, or there
   is trouble. *)
LEMMA FlushKeeps ==
  ASSUME debug_file \in BOOLEAN, NEW flush_file \in BOOLEAN,
         NEW d \in DebugStates, ~d.dropped, Durable(d) \/ (debug_file /\ flush_file),
         NEW e \in flush_debug_buffer(d, flush_file)
  PROVE  e \in DebugStates /\ ~e.dropped /\ Durable(e) /\ e.buffer = Empty
<1>1. Empty \in [length : 0 .. DEBUG_BUFFER_CAPACITY, levels : SUBSET BOOLEAN]
  BY StoreAssumption DEF Empty
<1>2. Written(d) \in DebugStates /\ Written(d).buffer = Empty /\ ~Written(d).dropped
      /\ Written(d).unflushed = d.unflushed \cup d.buffer.levels
      /\ Written(d).trouble = d.trouble
  BY <1>1 DEF Written, DebugStates
<1>3. Empty.levels = {}
  BY DEF Empty
<1>4. CASE e = [d EXCEPT !.buffer = Empty] /\ ~debug_file
  BY <1>1, <1>3, <1>4 DEF DebugStates, Durable
<1>5. CASE e = InTrouble([d EXCEPT !.buffer = Empty])
  BY <1>1, <1>5 DEF DebugStates, Durable, InTrouble
<1>6. CASE e = [Written(d) EXCEPT !.unflushed = {}, !.trouble = FALSE]
  BY <1>2, <1>3, <1>6 DEF DebugStates, Durable
<1>7. CASE e = InTrouble(Written(d))
  BY <1>2, <1>3, <1>7 DEF DebugStates, Durable, InTrouble
<1>8. CASE e = Written(d) /\ ~flush_file
  BY <1>2, <1>3, <1>8 DEF Durable
<1>9. QED
  BY <1>4, <1>5, <1>6, <1>7, <1>8 DEF flush_debug_buffer

(* A diagnostic line never lacks room, and is durable when it is urgent. *)
LEMMA DiagKeeps ==
  ASSUME debug_file \in BOOLEAN, NEW line \in Line,
         NEW d \in DebugStates, ~d.dropped, Durable(d), NEW e \in diag(d, line)
  PROVE  e \in DebugStates /\ ~e.dropped /\ Durable(e)
<1>1. CASE ~debug_file
  BY <1>1 DEF diag
<1>2. CASE debug_file
  <2>1. PICK r \in MakeRoom(d, line) : e \in Push(r, line)
    BY <1>2 DEF diag
  <2>2. r \in DebugStates /\ ~r.dropped /\ Durable(r) /\ Fits(r, line)
    <3>1. CASE Fits(d, line)
      BY <2>1, <3>1 DEF MakeRoom
    <3>2. CASE ~Fits(d, line)
      <4>1. r \in flush_debug_buffer(d, FALSE)
        BY <2>1, <3>2 DEF MakeRoom
      <4>2. r \in DebugStates /\ ~r.dropped /\ Durable(r) /\ r.buffer = Empty
        BY <4>1, FlushKeeps
      <4>3. QED
        BY <4>2, LineTypes DEF Fits, Empty
    <3>3. QED
      BY <3>1, <3>2
  <2> DEFINE pushed == [r EXCEPT !.buffer = push_str(@, line)]
  <2>3. pushed \in DebugStates /\ ~pushed.dropped
    <3>1. push_str(r.buffer, line)
            \in [length : 0 .. DEBUG_BUFFER_CAPACITY, levels : SUBSET BOOLEAN]
      BY <2>2, LineTypes, StoreAssumption DEF push_str, Fits, DebugStates
    <3>2. QED
      BY <3>1, <2>2 DEF DebugStates
  <2>4. CASE line.urgent
    <3>1. e \in flush_debug_buffer(pushed, TRUE)
      BY <2>1, <2>2, <2>4 DEF Push
    <3>2. QED
      BY <3>1, <2>3, <1>2, FlushKeeps
  <2>5. CASE ~line.urgent
    <3>1. e = pushed
      BY <2>1, <2>2, <2>5 DEF Push
    <3>2. Durable(pushed)
      BY <2>2, <2>5, LineTypes DEF Durable, push_str, DebugStates
    <3>3. QED
      BY <3>1, <3>2, <2>3
  <2>6. QED
    BY <2>4, <2>5
<1>3. QED
  BY <1>1, <1>2

(* The state of DEBUG.LOG as a record, and back. *)
LEMMA DebugKnown ==
  ASSUME TypeOK, DebugLogIsKept
  PROVE  Debug \in DebugStates /\ ~Debug.dropped /\ Durable(Debug)
  BY DEF TypeOK, DebugLogIsKept, UrgentIsDurable, NoLineDropped, Debug, DebugStates, Durable

DebugTypes ==
  /\ debug_buffer \in [length : 0 .. DEBUG_BUFFER_CAPACITY, levels : SUBSET BOOLEAN]
  /\ debug_unflushed \subseteq BOOLEAN
  /\ {debug_trouble, dropped} \subseteq BOOLEAN

LEMMA BecomesKnown ==
  ASSUME NEW d \in DebugStates, ~d.dropped, Durable(d), Becomes(d)
  PROVE  DebugTypes' /\ DebugLogIsKept'
  BY DEF DebugTypes, Becomes, DebugLogIsKept, UrgentIsDurable, NoLineDropped, DebugStates, Durable

-----------------------------------------------------------------------------
AgeTypes == age \in [Products -> Nat \cup {None}] /\ excused \in [Products -> Nat]

(* The books stay numbers. *)
LEMMA AccountTypes ==
  ASSUME TypeOK, NEW d, NEW appended, NEW saved, NEW failed, NEW periods \in Nat,
         Account(d, appended, saved, failed, periods)
  PROVE  AgeTypes'
<1>1. age \in [Products -> Nat \cup {None}] /\ excused \in [Products -> Nat]
      /\ CHECKPOINT_RECORDS \in Nat
  BY StoreAssumption DEF TypeOK
<1>2. \A f \in AtRisk : f \in Products /\ age[f] \in Nat
  BY <1>1 DEF AtRisk
<1> DEFINE risky == (((AtRisk \cup appended) \cap SurveyFiles) \ saved)
                      \cup {f \in {"DEBUG"} : DebugAtRisk(d)}
           older == AtRisk \ saved
<1>3. \A f \in older : age[f] + periods \in Nat
  BY <1>2
<1>4. \A f \in Products :
        excused[f] + (IF f \in failed THEN CHECKPOINT_RECORDS ELSE 0) \in Nat
  BY <1>1
<1>5. age' = [f \in Products |->
                IF f \notin risky THEN None ELSE IF f \in older THEN age[f] + periods ELSE 0]
      /\ excused' = [f \in Products |->
                IF f \notin risky \cap older THEN 0
                ELSE excused[f] + (IF f \in failed THEN CHECKPOINT_RECORDS ELSE 0)]
  BY DEF Account
<1> HIDE DEF risky, older
<1>6. QED
  BY <1>3, <1>4, <1>5 DEF AgeTypes

(* Let r bound the age of what is at risk before a step.  Then s bounds it after
   the step, if s is as much later or the flush that was due has failed. *)
LEMMA AccountAges ==
  ASSUME TypeOK, NEW d, NEW appended, NEW saved, NEW failed, NEW periods \in Nat,
         Account(d, appended, saved, failed, periods),
         NEW r \in Nat, NEW s \in Nat,
         \A f \in AtRisk : age[f] <= r + excused[f],
         \A f \in AtRisk \ saved :
           r + periods <= s + (IF f \in failed THEN CHECKPOINT_RECORDS ELSE 0)
  PROVE  \A f \in AtRisk' : age'[f] <= s + excused'[f]
<1>1. age \in [Products -> Nat \cup {None}] /\ excused \in [Products -> Nat]
      /\ CHECKPOINT_RECORDS \in Nat
  BY StoreAssumption DEF TypeOK
<1> DEFINE risky == (((AtRisk \cup appended) \cap SurveyFiles) \ saved)
                      \cup {f \in {"DEBUG"} : DebugAtRisk(d)}
           older == AtRisk \ saved
<1>2. age' = [f \in Products |->
                IF f \notin risky THEN None ELSE IF f \in older THEN age[f] + periods ELSE 0]
      /\ excused' = [f \in Products |->
                IF f \notin risky \cap older THEN 0
                ELSE excused[f] + (IF f \in failed THEN CHECKPOINT_RECORDS ELSE 0)]
  BY DEF Account
<1>3. \A f \in older : f \in AtRisk /\ f \in Products /\ age[f] \in Nat
  BY <1>1 DEF AtRisk
<1>4. \A f \in older :
        r + periods <= s + (IF f \in failed THEN CHECKPOINT_RECORDS ELSE 0)
  OBVIOUS
<1> HIDE DEF risky, older
<1> SUFFICES ASSUME NEW f \in AtRisk' PROVE age'[f] <= s + excused'[f]
  OBVIOUS
<1>5. f \in Products /\ age'[f] # None
  BY DEF AtRisk
<1>6. f \in risky
  BY <1>2, <1>5
<1>7. CASE f \notin older
  BY <1>2, <1>5, <1>6, <1>7
<1>8. CASE f \in older
  <2> DEFINE more == IF f \in failed THEN CHECKPOINT_RECORDS ELSE 0
  <2>1. age'[f] = age[f] + periods /\ excused'[f] = excused[f] + more
    BY <1>2, <1>5, <1>6, <1>8
  <2>2. age[f] <= r + excused[f] /\ age[f] \in Nat /\ excused[f] \in Nat /\ more \in Nat
    BY <1>1, <1>3, <1>5, <1>8
  <2>3. r + periods <= s + more
    BY <1>4, <1>8
  <2> HIDE DEF more
  <2>4. age[f] + periods <= s + (excused[f] + more)
    BY <2>2, <2>3
  <2>5. QED
    BY <2>1, <2>4
<1>9. QED
  BY <1>7, <1>8

-----------------------------------------------------------------------------
LEMMA LogInit == Init => LogInv
<1> SUFFICES ASSUME Init PROVE LogInv
  OBVIOUS
<1>1. DebugTypes /\ DebugLogIsKept
  <2>1. 0 \in 0 .. DEBUG_BUFFER_CAPACITY
    BY StoreAssumption
  <2>2. DebugTypes
    BY <2>1 DEF Init, Empty, DebugTypes
  <2>3. DebugLogIsKept
    BY DEF Init, Empty, DebugLogIsKept, UrgentIsDurable, NoLineDropped
  <2>4. QED
    BY <2>2, <2>3
<1>2. AgeTypes /\ AtRisk = {}
  BY DEF Init, AgeTypes, AtRisk, None
<1>3. samples \in 0 .. MaxSamples /\ local_records_written \in 0 .. samples
  <2>1. MaxSamples \in Nat
    BY StoreAssumption
  <2>2. QED
    BY <2>1 DEF Init
<1>4. mode \in {"survey", "global"} /\ debug_file \in BOOLEAN
  BY DEF Init
<1>5. TypeOK
  BY <1>1, <1>2, <1>3, <1>4 DEF TypeOK, DebugTypes, AgeTypes
<1>6. QED
  BY <1>1, <1>2, <1>5 DEF LogInv, AgeInv

(* What every step has to show, part by part. *)
LEMMA LogParts ==
  ASSUME /\ mode' \in {"survey", "global"} /\ debug_file' \in BOOLEAN
         /\ samples' \in 0 .. MaxSamples /\ local_records_written' \in 0 .. samples',
         DebugTypes', DebugLogIsKept', AgeTypes', AgeInv'
  PROVE  LogInv'
  BY DEF LogInv, TypeOK, DebugTypes, AgeTypes

(* Lines and records between two samples: no time passes. *)
LEMMA CallKeeps ==
  ASSUME LogInv, NEW line \in Line, NEW d \in diag(Debug, line), NEW appended,
         Becomes(d), Account(d, appended, {}, {}, 0),
         UNCHANGED <<mode, debug_file, local_records_written, samples>>
  PROVE  LogInv'
<1> USE DEF LogInv
<1>1. DebugTypes' /\ DebugLogIsKept'
  <2>1. d \in DebugStates /\ ~d.dropped /\ Durable(d)
    BY DebugKnown, DiagKeeps DEF TypeOK
  <2>2. QED
    BY <2>1, BecomesKnown
<1>2. AgeTypes'
  BY AccountTypes
<1>3. AgeInv'
  <2> DEFINE r == local_records_written % CHECKPOINT_RECORDS
  <2>1. r \in Nat
    BY SinceCheckpoint, StoreAssumption DEF TypeOK
  <2>2. \A f \in AtRisk : age[f] <= r + excused[f]
    BY DEF AgeInv
  <2>3. r' = r
    OBVIOUS
  <2> HIDE DEF r
  <2>4. \A f \in AtRisk \ {} : r + 0 <= r + (IF f \in {} THEN CHECKPOINT_RECORDS ELSE 0)
    BY <2>1
  <2>5. \A f \in AtRisk' : age'[f] <= r + excused'[f]
    BY <2>1, <2>2, <2>4, AccountAges
  <2>6. QED
    BY <2>3, <2>5 DEF AgeInv, r
<1>4. QED
  BY <1>1, <1>2, <1>3, LogParts DEF TypeOK

(* An event is recorded: DEBUG.LOG has no part in it. *)
LEMMA EventKeeps == ASSUME LogInv, log_event PROVE LogInv'
<1> USE DEF LogInv, log_event, debug
<1>1. DebugTypes' /\ DebugLogIsKept'
  BY DEF DebugTypes, TypeOK, DebugLogIsKept, UrgentIsDurable, NoLineDropped
<1>2. AgeTypes'
  BY AccountTypes
<1>3. AgeInv'
  <2> DEFINE r == local_records_written % CHECKPOINT_RECORDS
  <2>1. r \in Nat
    BY SinceCheckpoint, StoreAssumption DEF TypeOK
  <2>2. \A f \in AtRisk : age[f] <= r + excused[f]
    BY DEF AgeInv
  <2>3. r' = r
    OBVIOUS
  <2> HIDE DEF r
  <2>4. \A f \in AtRisk \ {} : r + 0 <= r + (IF f \in {} THEN CHECKPOINT_RECORDS ELSE 0)
    BY <2>1
  <2>5. \A f \in AtRisk' : age'[f] <= r + excused'[f]
    BY <2>1, <2>2, <2>4, AccountAges
  <2>6. QED
    BY <2>3, <2>5 DEF AgeInv, r
<1>4. QED
  BY <1>1, <1>2, <1>3, LogParts DEF TypeOK

(* The counts after a sample. *)
LEMMA CountsKeep ==
  ASSUME TypeOK, LocalAppended
  PROVE  /\ samples' \in 0 .. MaxSamples /\ local_records_written' \in 0 .. samples'
         /\ local_records_written \in Nat /\ local_records_written' = local_records_written + 1
         /\ CHECKPOINT_RECORDS \in Nat \ {0}
         /\ mode' \in {"survey", "global"} /\ debug_file' \in BOOLEAN
         /\ LocalAppended
  BY StoreAssumption DEF TypeOK, LocalAppended

(* A sample that is not the last of ten makes what is at risk one period older. *)
LEMMA SampleKeeps == ASSUME LogInv, log_local_sample PROVE LogInv'
<1> USE DEF LogInv, log_local_sample
<1>1. PICK line \in Normal : \E d \in diag(Debug, line) :
        Becomes(d) /\ Account(d, {"LOCAL"}, {}, {}, 1)
  OBVIOUS
<1>2. PICK d \in diag(Debug, line) : Becomes(d) /\ Account(d, {"LOCAL"}, {}, {}, 1)
  BY <1>1
<1>3. DebugTypes' /\ DebugLogIsKept'
  <2>1. line \in Line
    BY DEF Normal, Line
  <2>2. d \in DebugStates /\ ~d.dropped /\ Durable(d)
    BY <2>1, DebugKnown, DiagKeeps DEF TypeOK
  <2>3. QED
    BY <1>2, <2>2, BecomesKnown
<1>4. AgeTypes'
  BY <1>2, AccountTypes
<1>5. AgeInv'
  <2> DEFINE r == local_records_written % CHECKPOINT_RECORDS
             s == (local_records_written + 1) % CHECKPOINT_RECORDS
  <2>1. r \in Nat /\ s \in Nat /\ r + 1 <= s
    <3>1. local_records_written \in Nat /\ CHECKPOINT_RECORDS \in Nat \ {0} /\ s # 0
      BY CountsKeep DEF CheckpointDue
    <3>2. local_records_written + 1 \in Nat
      BY <3>1
    <3>3. QED
      BY <3>1, <3>2, SinceCheckpoint
  <2>2. \A f \in AtRisk : age[f] <= r + excused[f]
    BY DEF AgeInv
  <2>3. local_records_written' % CHECKPOINT_RECORDS = s
    BY CountsKeep
  <2> HIDE DEF r, s
  <2>4. \A f \in AtRisk \ {} : r + 1 <= s + (IF f \in {} THEN CHECKPOINT_RECORDS ELSE 0)
    BY <2>1
  <2>5. \A f \in AtRisk' : age'[f] <= s + excused'[f]
    BY <1>2, <2>1, <2>2, <2>4, AccountAges
  <2>6. QED
    BY <2>3, <2>5 DEF AgeInv
<1>6. QED
  BY <1>3, <1>4, <1>5, CountsKeep, LogParts

(* The tenth: what is still at risk is so because its flush has failed. *)
LEMMA CheckpointKeeps == ASSUME LogInv, log_local_sample_checkpoint PROVE LogInv'
<1> USE DEF LogInv, log_local_sample_checkpoint
<1> DEFINE Kept(d) == {f \in {"DEBUG"} : DebugAtRisk(d)}
           Saved(unsaved, d) == SavedFiles(unsaved) \cup ({"DEBUG"} \ Kept(d))
<1>1. PICK line \in Normal, unsaved \in SUBSET SurveyFiles :
        \E d1 \in diag(Debug, line) : \E d2 \in flush_debug_buffer(d1, TRUE) :
        \E told \in CheckpointLine(unsaved) : \E d3 \in diag(d2, told) :
          Becomes(d3)
            /\ Account(d3, {"LOCAL"}, Saved(unsaved, d2), unsaved \cup Kept(d2), 1)
  BY Zenon
<1>2. PICK d1 \in diag(Debug, line) : \E d2 \in flush_debug_buffer(d1, TRUE) :
        \E told \in CheckpointLine(unsaved) : \E d3 \in diag(d2, told) :
          Becomes(d3)
            /\ Account(d3, {"LOCAL"}, Saved(unsaved, d2), unsaved \cup Kept(d2), 1)
  BY <1>1, Zenon
<1>3. PICK d2 \in flush_debug_buffer(d1, TRUE), told \in CheckpointLine(unsaved) :
        \E d3 \in diag(d2, told) :
          Becomes(d3)
            /\ Account(d3, {"LOCAL"}, Saved(unsaved, d2), unsaved \cup Kept(d2), 1)
  BY <1>2, Zenon
<1>4. PICK d3 \in diag(d2, told) :
        Becomes(d3)
          /\ Account(d3, {"LOCAL"}, Saved(unsaved, d2), unsaved \cup Kept(d2), 1)
  BY <1>3, Zenon
<1>5. DebugTypes' /\ DebugLogIsKept'
  <2>1. line \in Line /\ told \in Line
    BY DEF Normal, Urgent, CheckpointLine, Line
  <2>2. debug_file \in BOOLEAN /\ TRUE \in BOOLEAN
    BY DEF TypeOK
  <2>3. d1 \in DebugStates /\ ~d1.dropped /\ Durable(d1)
    BY <2>1, <2>2, DebugKnown, DiagKeeps
  <2>4. d2 \in DebugStates /\ ~d2.dropped /\ Durable(d2)
    BY <2>2, <2>3, FlushKeeps
  <2>5. d3 \in DebugStates /\ ~d3.dropped /\ Durable(d3)
    BY <2>1, <2>2, <2>4, DiagKeeps
  <2>6. QED
    BY <1>4, <2>5, BecomesKnown
<1>6. AgeTypes'
  BY <1>4, AccountTypes
<1>7. AgeInv'
  <2> DEFINE r == local_records_written % CHECKPOINT_RECORDS
  <2>1. r \in Nat /\ r + 1 <= CHECKPOINT_RECORDS /\ CHECKPOINT_RECORDS \in Nat
    <3>1. local_records_written \in Nat /\ CHECKPOINT_RECORDS \in Nat \ {0}
      BY CountsKeep
    <3>2. r \in Nat /\ r < CHECKPOINT_RECORDS
      BY <3>1, SinceCheckpoint
    <3> HIDE DEF r
    <3>3. QED
      BY <3>1, <3>2
  <2>2. \A f \in AtRisk : age[f] <= r + excused[f]
    BY DEF AgeInv
  <2>3. local_records_written' % CHECKPOINT_RECORDS = 0
    BY DEF CheckpointDue
  <2>4. \A f \in AtRisk \ Saved(unsaved, d2) : f \in unsaved \cup Kept(d2)
    BY DEF AtRisk, Products, SavedFiles
  <2> HIDE DEF r, Kept, Saved
  <2>5. \A f \in AtRisk \ Saved(unsaved, d2) :
          r + 1 <= 0 + (IF f \in unsaved \cup Kept(d2) THEN CHECKPOINT_RECORDS ELSE 0)
    BY <2>1, <2>4
  <2>6. \A f \in AtRisk' : age'[f] <= 0 + excused'[f]
    BY <1>4, <2>1, <2>2, <2>5, AccountAges
  <2>7. QED
    BY <2>3, <2>6 DEF AgeInv
<1>8. QED
  BY <1>5, <1>6, <1>7, CountsKeep, LogParts

(* A sample that cannot be appended: each age grows, and its excuse with it. *)
LEMMA FailedAppendKeeps == ASSUME LogInv, LocalAppendFails PROVE LogInv'
<1> USE DEF LogInv, LocalAppendFails, debug
<1>1. DebugTypes' /\ DebugLogIsKept'
  BY DEF DebugTypes, TypeOK, DebugLogIsKept, UrgentIsDurable, NoLineDropped
<1>2. samples' \in 0 .. MaxSamples /\ local_records_written' \in 0 .. samples'
  BY StoreAssumption DEF TypeOK
<1>3. age \in [Products -> Nat \cup {None}] /\ excused \in [Products -> Nat]
  BY DEF TypeOK
<1>4. /\ age' = [f \in Products |-> IF f \in AtRisk THEN age[f] + 1 ELSE None]
      /\ excused' = [f \in Products |-> IF f \in AtRisk THEN excused[f] + 1 ELSE 0]
  OBVIOUS
<1>5. \A f \in AtRisk : f \in Products /\ age[f] \in Nat
  BY <1>3 DEF AtRisk
<1>6. AgeTypes'
  BY <1>3, <1>4, <1>5 DEF AgeTypes
<1>7. AgeInv'
  <2> DEFINE r == local_records_written % CHECKPOINT_RECORDS
  <2>1. r \in Nat /\ r' = r
    BY SinceCheckpoint, StoreAssumption DEF TypeOK
  <2>2. \A f \in AtRisk : age[f] <= r + excused[f]
    BY DEF AgeInv
  <2> HIDE DEF r
  <2>3. SUFFICES ASSUME NEW f \in AtRisk' PROVE age'[f] <= r + excused'[f]
    BY <2>1 DEF AgeInv, r
  <2>4. f \in Products /\ age'[f] # None
    BY DEF AtRisk
  <2>5. f \in AtRisk
    BY <1>4, <2>4
  <2>6. age'[f] = age[f] + 1 /\ excused'[f] = excused[f] + 1
    BY <1>4, <2>4, <2>5
  <2>7. age[f] \in Nat /\ excused[f] \in Nat /\ age[f] <= r + excused[f]
    BY <1>3, <1>5, <2>2, <2>5
  <2>8. QED
    BY <2>1, <2>6, <2>7
<1>8. QED
  BY <1>1, <1>2, <1>6, <1>7, LogParts DEF TypeOK

LEMMA LogStep == LogInv /\ [Next]_vars => LogInv'
<1> SUFFICES ASSUME LogInv, [Next]_vars PROVE LogInv'
  OBVIOUS
<1>1. CASE Diag
  BY <1>1, CallKeeps DEF Diag
<1>2. CASE log_event
  BY <1>2, EventKeeps
<1>3. CASE log_receiver_packet
  <2>1. Normal \subseteq Line /\ Urgent \subseteq Line
    BY DEF Normal, Urgent, Line
  <2>2. QED
    BY <1>3, <2>1, CallKeeps DEF log_receiver_packet
<1>4. CASE log_local_sample
  BY <1>4, SampleKeeps
<1>5. CASE LocalAppendFails
  BY <1>5, FailedAppendKeeps
<1>6. CASE log_local_sample_checkpoint
  BY <1>6, CheckpointKeeps
<1>7. CASE UNCHANGED vars
  BY <1>7
  DEF vars, debug, LogInv, TypeOK, DebugLogIsKept, UrgentIsDurable, NoLineDropped, AgeInv, AtRisk
<1>8. QED
  BY <1>1, <1>2, <1>3, <1>4, <1>5, <1>6, <1>7 DEF Next

(* The inductive invariant of the log products. *)
THEOREM LogInvariance == Spec => []LogInv
  BY LogInit, LogStep, PTL DEF Spec

(* Types: the RAM buffer never holds more bytes than it has room for. *)
THEOREM LogTypes == Spec => []TypeOK
<1>1. LogInv => TypeOK
  BY DEF LogInv
<1>2. QED
  BY <1>1, LogInvariance, PTL

(* No record is at risk for as long as a checkpoint takes, whatever fails: each
   file's own failed flush and each failed append of LOCAL.LOG is all that puts
   a record's safety off, and by no more than is said. *)
THEOREM LossIsBoundedHolds == Spec => []LossIsBounded
<1>1. LogInv => LossIsBounded
  <2> SUFFICES ASSUME LogInv, NEW f \in AtRisk
               PROVE  age[f] < CHECKPOINT_RECORDS + excused[f]
    BY DEF LossIsBounded
  <2> DEFINE r == local_records_written % CHECKPOINT_RECORDS
  <2>1. r \in Nat /\ r < CHECKPOINT_RECORDS /\ CHECKPOINT_RECORDS \in Nat
    BY SinceCheckpoint, StoreAssumption DEF LogInv, TypeOK
  <2>2. age[f] <= r + excused[f]
    BY DEF LogInv, AgeInv
  <2>3. age[f] \in Nat /\ excused[f] \in Nat
    BY DEF LogInv, TypeOK, AtRisk
  <2> HIDE DEF r
  <2>4. QED
    BY <2>1, <2>2, <2>3
<1>2. QED
  BY <1>1, LogInvariance, PTL

(* A warning or an error is durable when its call returns, unless DEBUG.LOG
   itself has failed, and no line is lost for want of room, whatever the sizes of
   the lines and of the buffer. *)
THEOREM DebugLogIsKeptHolds == Spec => []DebugLogIsKept
<1>1. LogInv => DebugLogIsKept
  BY DEF LogInv
<1>2. QED
  BY <1>1, LogInvariance, PTL

-----------------------------------------------------------------------------
(* Natural numbers that are not empty have a least one, so a set of sessions has
   a highest one. *)
Earlier == {p \in Nat \X Nat : p[1] < p[2]}

LEMMA LeastNumber ==
  ASSUME NEW T \in SUBSET Nat, T # {}
  PROVE  \E x \in T : \A y \in T : x <= y
<1>1. IsWellFoundedOn(Earlier, Nat)
  BY NatLessThanWellFounded DEF OpToRel, Earlier
<1>2. PICK x \in T : \A y \in T : <<y, x>> \notin Earlier
  BY <1>1, WFMin
<1>3. \A y \in T : ~(y < x)
  <2>1. TAKE y \in T
  <2>2. y \in Nat /\ x \in Nat /\ <<y, x>> \in Nat \X Nat /\ <<y, x>> \notin Earlier
    BY <1>2
  <2>3. QED
    BY <2>2 DEF Earlier
<1>4. QED
  BY <1>3

LEMMA HighestSession ==
  ASSUME NEW m \in Nat, directories \subseteq 1 .. m
  PROVE  /\ Session!find_highest_boot_session \in 0 .. m
         /\ \A d \in directories : d <= Session!find_highest_boot_session
         /\ directories # {} => Session!find_highest_boot_session \in directories
<1>1. CASE directories = {}
  BY <1>1 DEF Session!find_highest_boot_session
<1>2. CASE directories # {}
  <2> DEFINE T == {m - d : d \in directories}
  <2>1. T \in SUBSET Nat /\ T # {}
    <3>1. \A d \in directories : m - d \in Nat
      OBVIOUS
    <3>2. QED
      BY <1>2, <3>1
  <2>2. PICK x \in T : \A y \in T : x <= y
    BY <2>1, LeastNumber
  <2>3. PICK d \in directories : x = m - d
    BY <2>2
  <2>4. \A e \in directories : e <= d
    <3>1. TAKE e \in directories
    <3>2. m - e \in T /\ d \in 1 .. m /\ e \in 1 .. m
      OBVIOUS
    <3>3. QED
      BY <2>2, <2>3, <3>2
  <2> DEFINE h == CHOOSE f \in directories : \A e \in directories : e <= f
  <2>5. h \in directories /\ \A e \in directories : e <= h
    BY <2>4
  <2>6. Session!find_highest_boot_session = h
    BY <1>2 DEF Session!find_highest_boot_session
  <2> HIDE DEF h
  <2>7. QED
    BY <2>5, <2>6
<1>3. QED
  BY <1>1, <1>2

(* Every number the allocation considers is above the recorded ones, and the one
   it chooses without a fault has no directory, and lies in range unless the last
   number is used. *)
LEMMA Candidates ==
  ASSUME Session!SessionAssumption, Session!TypeOK, NumberInv
  PROVE  /\ \A n \in Session!MisreadSessions \cup {Session!NextSession} :
              n \in Nat /\ Above(n)
         /\ Session!NextSession \notin directories
         /\ ~Session!InRange(Session!NextSession) => MAX_BOOT_SESSION \in directories
<1> DEFINE h == Session!find_highest_boot_session
<1>1. MAX_BOOT_SESSION \in Nat \ {0} /\ directories \subseteq 1 .. MAX_BOOT_SESSION
      /\ counter \in Nat \cup {-1} /\ recorded \in Seq(1 .. MAX_BOOT_SESSION)
  BY DEF Session!SessionAssumption, Session!TypeOK, Session!None
<1>2. /\ h \in 0 .. MAX_BOOT_SESSION
      /\ \A d \in directories : d <= h
      /\ directories # {} => h \in directories
  BY <1>1, HighestSession
<1> HIDE DEF h
<1>3. h + 1 \in Nat /\ h + 1 \notin directories
  <2>1. ASSUME h + 1 \in directories PROVE FALSE
    <3>1. h + 1 <= h
      BY <1>2, <2>1
    <3>2. QED
      BY <1>2, <3>1
  <2>2. QED
    BY <1>2, <2>1
<1>4. Above(h + 1)
  <2>1. SUFFICES ASSUME NEW i \in DOMAIN recorded PROVE recorded[i] < h + 1
    BY DEF Above
  <2>2. recorded[i] \in directories
    BY DEF NumberInv
  <2>3. recorded[i] <= h /\ recorded[i] \in Nat
    BY <1>1, <1>2, <2>2
  <2>4. QED
    BY <1>2, <2>3
<1>5. Session!InRange(counter) => counter \in Nat /\ Above(counter)
  BY <1>1 DEF Session!InRange, NumberInv, None
<1>6. Session!Proposed = IF Session!InRange(counter) THEN counter ELSE h + 1
  BY DEF Session!Proposed, h
<1>7. Session!NextSession = IF Session!Proposed \in directories THEN h + 1 ELSE Session!Proposed
  BY DEF Session!NextSession, h
<1>8. Session!MisreadSessions = {h + 1, Session!Proposed}
  BY DEF Session!MisreadSessions, h
<1>9. ~Session!InRange(Session!NextSession) => h + 1 = Session!NextSession
  BY <1>6, <1>7
<1>10. ~Session!InRange(h + 1) => MAX_BOOT_SESSION \in directories
  <2>1. SUFFICES ASSUME ~(h + 1 <= MAX_BOOT_SESSION) PROVE MAX_BOOT_SESSION \in directories
    BY <1>2 DEF Session!InRange
  <2>2. h = MAX_BOOT_SESSION
    BY <1>1, <1>2, <2>1
  <2>3. directories # {}
    BY <1>1, <2>2 DEF h, Session!find_highest_boot_session
  <2>4. QED
    BY <1>2, <2>2, <2>3
<1>11. QED
  BY <1>3, <1>4, <1>5, <1>6, <1>7, <1>8, <1>9, <1>10

(* The steps by name. *)
LEMMA StepNames ==
  /\ DOMAIN Session!SessionFiles = 1 .. 5
  /\ Session!SessionFiles[1] = "LOCAL.LOG" /\ Session!SessionFiles[2] = "EVENT.LOG"
  /\ Session!SessionFiles[3] = "META.TXT" /\ Session!SessionFiles[4] = "RX.LOG"
  /\ Session!SessionFiles[5] = "DEBUG.LOG"
  /\ Session!Steps = {"off", "card", "system log", "mount", "root", "survey root", "survey id",
                      "choose", "truncate", "write", "make", "open", "fallback"} \cup FileSteps
<1>1. /\ DOMAIN Session!SessionFiles = 1 .. 5
      /\ Session!SessionFiles[1] = "LOCAL.LOG" /\ Session!SessionFiles[2] = "EVENT.LOG"
      /\ Session!SessionFiles[3] = "META.TXT" /\ Session!SessionFiles[4] = "RX.LOG"
      /\ Session!SessionFiles[5] = "DEBUG.LOG"
  BY DEF Session!SessionFiles
<1>2. \A i : i \in 1 .. 5 <=> i \in {1, 2, 3, 4, 5}
  OBVIOUS
<1>3. {Session!SessionFiles[i] : i \in DOMAIN Session!SessionFiles} = FileSteps
  BY <1>1, <1>2 DEF FileSteps
<1>4. QED
  BY <1>1, <1>3 DEF Session!Steps

-----------------------------------------------------------------------------
LEMMA SessionInit == Session!SessionAssumption /\ Session!Init => SessionInv
<1> SUFFICES ASSUME Session!SessionAssumption, Session!Init PROVE SessionInv
  OBVIOUS
<1> USE DEF Session!Init
<1>1. Session!TypeOK
  <2>1. recorded \in Seq(1 .. MAX_BOOT_SESSION) /\ DOMAIN recorded = {}
    BY EmptySeq
  <2>2. counter \in Nat \cup {Session!None} /\ directories \subseteq 1 .. MAX_BOOT_SESSION
    BY DEF Session!SessionAssumption
  <2>3. boots \in 0 .. MaxBoots /\ faults \in 0 .. MaxFaults
    BY DEF Session!SessionAssumption
  <2>4. QED
    BY <2>1, <2>2, <2>3, StepNames DEF Session!TypeOK
<1>2. Session!RecordedNumbersGrow /\ NumberInv
  BY DEF Session!RecordedNumbersGrow, NumberInv, Above, FileSteps
<1>3. HandleInv /\ CleanInv
  BY DEF HandleInv, DirsAt, FilesAt, CleanInv, FileSteps
<1>4. QED
  BY <1>1, <1>2, <1>3 DEF SessionInv

(* A step that leaves the numbers alone and does not reach one of theirs. *)
LEMMA NumbersUnchanged ==
  ASSUME NumberInv, Session!RecordedNumbersGrow,
         UNCHANGED <<counter, directories, recorded>>,
         \/ pc' \notin {"truncate", "write", "make", "open"} \cup FileSteps
         \/ UNCHANGED <<pc, session>>
  PROVE  NumberInv' /\ Session!RecordedNumbersGrow'
  BY DEF NumberInv, Above, Session!RecordedNumbersGrow, Session!InRange, FileSteps

(* The types of what a fault counts. *)
LEMMA FaultTypes ==
  ASSUME Session!SessionAssumption, Session!TypeOK, Session!Fault \/ Session!NoFault
  PROVE  /\ faults' \in 0 .. MaxFaults /\ faulted' \in BOOLEAN
         /\ MaxBoots \in Nat /\ boots \in 0 .. MaxBoots
         /\ Session!Fault => ~Session!NoFault
<1>1. /\ MaxFaults \in Nat /\ MaxBoots \in Nat
      /\ faults \in 0 .. MaxFaults /\ boots \in 0 .. MaxBoots /\ faulted \in BOOLEAN
  BY DEF Session!SessionAssumption, Session!TypeOK
<1>2. CASE Session!Fault
  <2>1. faults + 1 \in 0 .. MaxFaults /\ faults + 1 # faults
    BY <1>1, <1>2 DEF Session!Fault
  <2>2. faults' = faults + 1 /\ faulted' = TRUE
    BY <1>2 DEF Session!Fault
  <2>3. QED
    BY <1>1, <2>1, <2>2 DEF Session!NoFault
<1>3. CASE Session!NoFault
  <2>1. faults' = faults /\ faulted' = faulted /\ faults + 1 # faults
    BY <1>1, <1>3 DEF Session!NoFault
  <2>2. QED
    BY <1>1, <2>1 DEF Session!Fault
<1>4. QED
  BY <1>2, <1>3

(* Power on, power off, and the steps before the volume is mounted. *)
LEMMA PowerSteps ==
  ASSUME Session!SessionAssumption, SessionInv,
         \/ Session!PowerOn \/ Session!PowerLoss \/ Session!InitCard
         \/ Session!initialize_system_log \/ Session!MountVolume
  PROVE  SessionInv'
<1> USE DEF SessionInv, Session!PowerOn, Session!PowerLoss, Session!InitCard,
            Session!initialize_system_log, Session!MountVolume, Session!GiveUp,
            Session!card, Session!handles, Session!history
<1>1. Session!TypeOK'
  <2>1. faults' \in 0 .. MaxFaults /\ faulted' \in BOOLEAN
    BY FaultTypes DEF Session!TypeOK
  <2>2. boots' \in 0 .. MaxBoots
    <3>1. MaxBoots \in Nat /\ boots \in 0 .. MaxBoots
      BY DEF Session!TypeOK, Session!SessionAssumption
    <3>2. CASE Session!PowerOn
      <4>1. boots + 1 \in 0 .. MaxBoots
        BY <3>1, <3>2
      <4>2. QED
        BY <3>2, <4>1
    <3>3. CASE ~Session!PowerOn
      <4>1. boots' = boots
        BY <3>3
      <4>2. QED
        BY <3>1, <4>1
    <3>4. QED
      BY <3>2, <3>3
  <2>3. pc' \in Session!Steps \cup Session!Modes
    BY StepNames DEF Session!Modes
  <2>4. QED
    BY <2>1, <2>2, <2>3 DEF Session!TypeOK
<1>2. NumberInv' /\ Session!RecordedNumbersGrow'
  BY NumbersUnchanged DEF FileSteps
<1>3. HandleInv'
  <2> USE DEF HandleInv, DirsAt, FilesAt, FileSteps
  <2>1. CASE Session!PowerOn
    BY <2>1
  <2>2. CASE Session!PowerLoss
    BY <2>2
  <2>3. CASE Session!InitCard
    BY <2>3
  <2>4. CASE Session!initialize_system_log
    BY <2>4
  <2>5. CASE Session!MountVolume
    BY <2>5
  <2>6. QED
    BY <2>1, <2>2, <2>3, <2>4, <2>5
<1>4. CleanInv'
  BY DEF CleanInv, HandleInv, Session!Fault, Session!NoFault
<1>5. QED
  BY <1>1, <1>2, <1>3, <1>4

(* From the root to the directory of the survey, and the fallback. *)
LEMMA DirectorySteps ==
  ASSUME Session!SessionAssumption, SessionInv,
         \/ Session!OpenRoot \/ Session!EnsureSurveyRoot \/ Session!EnsureSurvey
         \/ Session!initialize_global_debug_log
  PROVE  SessionInv'
<1> USE DEF SessionInv, Session!OpenRoot, Session!EnsureSurveyRoot, Session!EnsureSurvey,
            Session!OpenDirectory, Session!initialize_global_debug_log, Session!GiveUp,
            Session!card, Session!handles, Session!history
<1>1. Session!TypeOK'
  <2>1. faults' \in 0 .. MaxFaults /\ faulted' \in BOOLEAN
    BY FaultTypes
  <2>2. pc' \in Session!Steps \cup Session!Modes
    BY StepNames DEF Session!Modes
  <2>3. QED
    BY <2>1, <2>2 DEF Session!TypeOK
<1>2. NumberInv' /\ Session!RecordedNumbersGrow'
  BY NumbersUnchanged DEF FileSteps
<1>3. HandleInv'
  BY DEF HandleInv, DirsAt, FilesAt, FileSteps
<1>4. CleanInv'
  BY DEF CleanInv, Session!Fault, Session!NoFault
<1>5. QED
  BY <1>1, <1>2, <1>3, <1>4

(* The number is chosen. *)
LEMMA ChooseStep ==
  ASSUME Session!SessionAssumption, SessionInv, Session!ChooseSession
  PROVE  SessionInv'
<1> USE DEF SessionInv, Session!ChooseSession, Session!card, Session!history
<1>1. /\ session' \in Nat \cup {Session!None}
      /\ Session!InRange(session') => Above(session')
      /\ Session!NoFault => session' = Session!NextSession
  <2>1. CASE Session!NoFault /\ session' = Session!NextSession
    BY <2>1, Candidates
  <2>2. CASE Session!Fault /\ session' \in Session!MisreadSessions \cup {Session!None}
    <3>1. ~Session!NoFault
      BY <2>2, FaultTypes
    <3>2. ~Session!InRange(Session!None)
      BY DEF Session!InRange, Session!None
    <3>3. QED
      BY <2>2, <3>1, <3>2, Candidates
  <2>3. QED
    BY <2>1, <2>2
<1>2. Session!TypeOK'
  <2>1. faults' \in 0 .. MaxFaults /\ faulted' \in BOOLEAN
    BY FaultTypes
  <2>2. pc' \in Session!Steps \cup Session!Modes
    BY StepNames DEF Session!Modes
  <2>3. QED
    BY <1>1, <2>1, <2>2 DEF Session!TypeOK
<1>3. NumberInv' /\ Session!RecordedNumbersGrow'
  BY <1>1 DEF NumberInv, Above, Session!RecordedNumbersGrow, Session!InRange, FileSteps
<1>4. HandleInv'
  BY DEF HandleInv, DirsAt, FilesAt, FileSteps
<1>5. CleanInv'
  BY <1>1, Candidates DEF CleanInv, Session!Fault, Session!NoFault
<1>6. QED
  BY <1>2, <1>3, <1>4, <1>5

(* The counter is replaced. *)
LEMMA CounterSteps ==
  ASSUME Session!SessionAssumption, SessionInv,
         Session!TruncateCounter \/ Session!WriteCounter
  PROVE  SessionInv'
<1> USE DEF SessionInv, Session!TruncateCounter, Session!WriteCounter, Session!GiveUp,
            Session!history
<1>1. session \in 1 .. MAX_BOOT_SESSION /\ Above(session) /\ Above(session + 1)
      /\ recorded \in Seq(1 .. MAX_BOOT_SESSION)
  <2>1. session \in Nat \cup {-1} /\ recorded \in Seq(1 .. MAX_BOOT_SESSION)
        /\ MAX_BOOT_SESSION \in Nat
    BY DEF Session!TypeOK, Session!None, Session!SessionAssumption
  <2>2. Session!InRange(session) /\ Above(session)
    BY DEF NumberInv
  <2>3. session \in 1 .. MAX_BOOT_SESSION
    BY <2>1, <2>2 DEF Session!InRange
  <2>4. Above(session + 1)
    BY <2>1, <2>2, <2>3 DEF Above
  <2>5. QED
    BY <2>1, <2>2, <2>3, <2>4
<1>2. Session!TypeOK'
  <2>1. faults' \in 0 .. MaxFaults /\ faulted' \in BOOLEAN
    BY FaultTypes
  <2>2. pc' \in Session!Steps \cup Session!Modes
    BY StepNames DEF Session!Modes
  <2>3. counter' \in Nat \cup {Session!None}
    BY <1>1 DEF Session!TypeOK
  <2>4. QED
    BY <1>1, <2>1, <2>2, <2>3 DEF Session!TypeOK
<1>3. NumberInv' /\ Session!RecordedNumbersGrow'
  BY <1>1
  DEF NumberInv, Above, Session!RecordedNumbersGrow, Session!InRange, FileSteps, None,
      Session!None
<1>4. HandleInv'
  BY DEF HandleInv, DirsAt, FilesAt, FileSteps
<1>5. CleanInv'
  BY DEF CleanInv, Session!Fault, Session!NoFault
<1>6. QED
  BY <1>2, <1>3, <1>4, <1>5

(* The directory of the session is made and opened. *)
LEMMA MakeSteps ==
  ASSUME Session!SessionAssumption, SessionInv,
         Session!MakeDirectory \/ Session!OpenSession
  PROVE  SessionInv'
<1> USE DEF SessionInv, Session!MakeDirectory, Session!OpenSession, Session!GiveUp,
            Session!card, Session!handles, Session!history
<1>1. session \in 1 .. MAX_BOOT_SESSION
  BY DEF NumberInv, Session!InRange, Session!TypeOK, Session!None, Session!SessionAssumption
<1>2. Session!TypeOK'
  <2>1. faults' \in 0 .. MaxFaults /\ faulted' \in BOOLEAN
    BY FaultTypes
  <2>2. pc' \in Session!Steps \cup Session!Modes
    BY StepNames DEF Session!Modes, FileSteps
  <2>3. directories' \subseteq 1 .. MAX_BOOT_SESSION
    BY <1>1 DEF Session!TypeOK
  <2>4. QED
    BY <2>1, <2>2, <2>3 DEF Session!TypeOK
<1>3. NumberInv' /\ Session!RecordedNumbersGrow'
  BY DEF NumberInv, Above, Session!RecordedNumbersGrow, Session!InRange, FileSteps
<1>4. HandleInv'
  BY DEF HandleInv, DirsAt, FilesAt, FileSteps
<1>5. CleanInv'
  BY DEF CleanInv, Session!Fault, Session!NoFault
<1>6. QED
  BY <1>2, <1>3, <1>4, <1>5

(* The session becomes the newest recorded one: it has a directory, lies above
   the recorded ones and below the counter. *)
LEMMA ReadyKeeps ==
  ASSUME Session!SessionAssumption, SessionInv, pc = "DEBUG.LOG", pc' = "survey",
         Session!Ready, UNCHANGED <<counter, directories, session>>
  PROVE  /\ recorded' \in Seq(1 .. MAX_BOOT_SESSION) /\ allocated' = allocated
         /\ NumberInv' /\ Session!RecordedNumbersGrow'
<1> USE DEF SessionInv
<1>1. /\ recorded \in Seq(1 .. MAX_BOOT_SESSION) /\ session \in Nat \cup {-1}
      /\ MAX_BOOT_SESSION \in Nat
  BY DEF Session!TypeOK, Session!None, Session!SessionAssumption
<1>2. /\ Session!InRange(session) /\ Above(session) /\ session \in directories
      /\ counter = session + 1
  BY DEF NumberInv, FileSteps
<1>3. session \in 1 .. MAX_BOOT_SESSION
  BY <1>1, <1>2 DEF Session!InRange
<1>4. /\ recorded' = Append(recorded, session)
      /\ allocated' = allocated /\ counter' = counter /\ directories' = directories
  BY DEF Session!Ready
<1>5. PICK n \in Nat : Len(recorded) = n
  BY <1>1, LenProperties
<1>6. /\ recorded' \in Seq(1 .. MAX_BOOT_SESSION)
      /\ DOMAIN recorded = 1 .. n /\ DOMAIN recorded' = 1 .. n + 1
      /\ \A i \in 1 .. n : recorded'[i] = recorded[i]
      /\ recorded'[n + 1] = session
  BY <1>1, <1>3, <1>4, <1>5, AppendProperties, LenProperties
<1>7. \A i \in 1 .. n : recorded[i] \in Nat /\ recorded[i] < session /\ recorded[i] \in directories
  <2>1. TAKE i \in 1 .. n
  <2>2. recorded[i] \in Nat
    BY <1>1, <1>5, ElementOfSeq
  <2>3. recorded[i] < session /\ recorded[i] \in directories
    BY <1>2, <1>6 DEF Above, NumberInv
  <2>4. QED
    BY <2>2, <2>3
<1>8. \A i \in 1 .. n + 1 : i \in 1 .. n \/ i = n + 1
  BY <1>5
<1>9. \A i \in DOMAIN recorded' : recorded'[i] \in directories' /\ recorded'[i] < session + 1
  BY <1>2, <1>3, <1>4, <1>6, <1>7, <1>8
<1>10. NumberInv'
  BY <1>2, <1>4, <1>9 DEF NumberInv, Above, FileSteps
<1>11. Session!RecordedNumbersGrow'
  <2>1. SUFFICES ASSUME NEW i \in 1 .. n + 1, NEW j \in 1 .. n + 1, i < j
                 PROVE  recorded'[i] < recorded'[j]
    BY <1>6 DEF Session!RecordedNumbersGrow
  <2>2. i \in 1 .. n
    BY <2>1, <1>5
  <2>3. CASE j \in 1 .. n
    BY <1>6, <2>1, <2>2, <2>3 DEF Session!RecordedNumbersGrow
  <2>4. CASE j = n + 1
    BY <1>6, <1>7, <2>2, <2>4
  <2>5. QED
    BY <1>8, <2>3, <2>4
<1>12. QED
  BY <1>4, <1>6, <1>10, <1>11

(* The files are opened one after the other; the last ends the start. *)
LEMMA FileStep ==
  ASSUME Session!SessionAssumption, SessionInv,
         NEW i \in DOMAIN Session!SessionFiles, Session!OpenFile(i)
  PROVE  SessionInv'
<1> USE DEF SessionInv
<1>1. \/ /\ Session!NoFault /\ UNCHANGED <<session, volume_open, dirs, boots>>
         /\ \/ /\ UNCHANGED <<allocated, reused, recorded>>
               /\ \/ pc = "LOCAL.LOG" /\ pc' = "EVENT.LOG" /\ files' = files \cup {"LOCAL.LOG"}
                  \/ pc = "EVENT.LOG" /\ pc' = "META.TXT" /\ files' = files \cup {"EVENT.LOG"}
                  \/ pc = "META.TXT" /\ pc' = "RX.LOG" /\ files' = files
                  \/ pc = "RX.LOG" /\ pc' = "DEBUG.LOG" /\ files' = files \cup {"RX.LOG"}
            \/ /\ pc = "DEBUG.LOG" /\ pc' = "survey" /\ files' = files \cup {"DEBUG.LOG"}
               /\ Session!Ready
      \/ /\ Session!Fault /\ UNCHANGED <<session, volume_open, boots>>
         /\ \/ /\ pc \in FileSteps \ {"DEBUG.LOG"} /\ pc' = "fallback"
               /\ dirs' = dirs \ {"session"} /\ files' = files \ Session!ClosedOnFailure(pc)
               /\ UNCHANGED <<allocated, reused, recorded>>
            \/ /\ pc = "DEBUG.LOG" /\ pc' = "survey" /\ Session!Ready
               /\ UNCHANGED <<dirs, files>>
  <2>1. i \in {1, 2, 3, 4, 5} /\ Len(Session!SessionFiles) = 5
    <3>1. i \in 1 .. 5
      BY StepNames
    <3>2. Len(Session!SessionFiles) = 5
      BY DEF Session!SessionFiles
    <3>3. QED
      BY <3>1, <3>2
  <2>2. /\ i = 1 => i # 5 /\ i + 1 = 2
        /\ i = 2 => i # 5 /\ i + 1 = 3
        /\ i = 3 => i # 5 /\ i + 1 = 4
        /\ i = 4 => i # 5 /\ i + 1 = 5
    OBVIOUS
  <2> USE StepNames DEF Session!OpenFile, Session!GiveUp, Session!handles, Session!history,
                        FileSteps
  <2>3. CASE i = 1
    <3>1. Session!SessionFiles[i] = "LOCAL.LOG" /\ Session!SessionFiles[i + 1] = "EVENT.LOG"
      BY <2>2, <2>3
    <3>2. QED
      BY <2>1, <2>2, <2>3, <3>1
  <2>4. CASE i = 2
    <3>1. Session!SessionFiles[i] = "EVENT.LOG" /\ Session!SessionFiles[i + 1] = "META.TXT"
      BY <2>2, <2>4
    <3>2. QED
      BY <2>1, <2>2, <2>4, <3>1
  <2>5. CASE i = 3
    <3>1. Session!SessionFiles[i] = "META.TXT" /\ Session!SessionFiles[i + 1] = "RX.LOG"
      BY <2>2, <2>5
    <3>2. QED
      BY <2>1, <2>2, <2>5, <3>1
  <2>6. CASE i = 4
    <3>1. Session!SessionFiles[i] = "RX.LOG" /\ Session!SessionFiles[i + 1] = "DEBUG.LOG"
      BY <2>2, <2>6
    <3>2. QED
      BY <2>1, <2>2, <2>6, <3>1
  <2>7. CASE i = 5
    BY <2>1, <2>7
  <2>8. QED
    BY <2>1, <2>3, <2>4, <2>5, <2>6, <2>7
<1>2. UNCHANGED <<counter, directories, session>> /\ UNCHANGED volume_open /\ UNCHANGED boots
  BY <1>1 DEF Session!OpenFile, Session!card
<1>3. /\ recorded' \in Seq(1 .. MAX_BOOT_SESSION) /\ allocated' = allocated
      /\ NumberInv' /\ Session!RecordedNumbersGrow'
  <2>1. CASE pc = "DEBUG.LOG" /\ pc' = "survey" /\ Session!Ready
    BY <1>2, <2>1, ReadyKeeps
  <2>2. CASE /\ pc \in FileSteps /\ pc' \in FileSteps \cup {"fallback"}
             /\ UNCHANGED <<allocated, reused, recorded>>
    BY <1>2, <2>2
    DEF NumberInv, Above, Session!RecordedNumbersGrow, Session!InRange, FileSteps, Session!TypeOK
  <2>3. QED
    BY <1>1, <2>1, <2>2 DEF FileSteps
<1>4. Session!TypeOK'
  <2>1. faults' \in 0 .. MaxFaults /\ faulted' \in BOOLEAN
    BY <1>1, FaultTypes
  <2>2. pc' \in Session!Steps \cup Session!Modes
    BY <1>1, StepNames DEF Session!Modes, FileSteps
  <2>3. reused' = reused
    BY <1>1 DEF Session!Ready
  <2>4. QED
    BY <1>2, <1>3, <2>1, <2>2, <2>3 DEF Session!TypeOK
<1>5. HandleInv'
  BY <1>1, <1>2
  DEF HandleInv, DirsAt, FilesAt, FileSteps, Session!ClosedOnFailure
<1>6. CleanInv'
  BY <1>1 DEF CleanInv, FileSteps, Session!Fault
<1>7. QED
  BY <1>3, <1>4, <1>5, <1>6

LEMMA SessionStep ==
  Session!SessionAssumption /\ SessionInv /\ [Session!Next]_Session!vars => SessionInv'
<1> SUFFICES ASSUME Session!SessionAssumption, SessionInv, [Session!Next]_Session!vars
             PROVE  SessionInv'
  OBVIOUS
<1>1. CASE \/ Session!PowerOn \/ Session!PowerLoss \/ Session!InitCard
           \/ Session!initialize_system_log \/ Session!MountVolume
  BY <1>1, PowerSteps
<1>2. CASE \/ Session!OpenRoot \/ Session!EnsureSurveyRoot \/ Session!EnsureSurvey
           \/ Session!initialize_global_debug_log
  BY <1>2, DirectorySteps
<1>3. CASE Session!ChooseSession
  BY <1>3, ChooseStep
<1>4. CASE Session!TruncateCounter \/ Session!WriteCounter
  BY <1>4, CounterSteps
<1>5. CASE Session!MakeDirectory \/ Session!OpenSession
  BY <1>5, MakeSteps
<1>6. CASE \E i \in DOMAIN Session!SessionFiles : Session!OpenFile(i)
  BY <1>6, FileStep
<1>7. CASE UNCHANGED Session!vars
  <2> USE <1>7 DEF Session!vars, Session!card, Session!handles, Session!history, SessionInv
  <2>1. Session!TypeOK'
    BY DEF Session!TypeOK
  <2>2. NumberInv' /\ Session!RecordedNumbersGrow'
    BY NumbersUnchanged
  <2>3. HandleInv' /\ CleanInv'
    BY DEF HandleInv, DirsAt, FilesAt, CleanInv
  <2>4. QED
    BY <2>1, <2>2, <2>3
<1>8. QED
  BY <1>1, <1>2, <1>3, <1>4, <1>5, <1>6, <1>7 DEF Session!Next

(* The inductive invariant of the start of storage. *)
THEOREM SessionInvariance == Session!SessionAssumption => (Session!Spec => []SessionInv)
<1> SUFFICES ASSUME Session!SessionAssumption PROVE Session!Spec => []SessionInv
  OBVIOUS
<1>1. Session!Init => SessionInv
  BY SessionInit
<1>2. SessionInv /\ [Session!Next]_Session!vars => SessionInv'
  BY SessionStep
<1>3. QED
  BY <1>1, <1>2, PTL DEF Session!Spec

(* Two boots never record into one session, and the numbers tell their order. *)
THEOREM RecordedNumbersGrowHolds ==
  Session!SessionAssumption => (Session!Spec => []RecordedNumbersGrow)
<1>1. SessionInv => RecordedNumbersGrow
  BY DEF SessionInv, RecordedNumbersGrow
<1>2. QED
  BY <1>1, SessionInvariance, PTL

(* While numbers are left, a boot that meets no failure of its own records a
   session: no history of the card makes the allocation get stuck. *)
THEOREM CleanBootRecordsHolds ==
  Session!SessionAssumption => (Session!Spec => []CleanBootRecords)
<1>1. SessionInv => CleanBootRecords
  BY DEF SessionInv, CleanInv, CleanBootRecords, Session!CleanBootRecords
<1>2. QED
  BY <1>1, SessionInvariance, PTL

(* No failure leaks a handle: each mode holds its own and nothing else. *)
THEOREM HandlesMatchModeHolds ==
  Session!SessionAssumption => (Session!Spec => []HandlesMatchMode)
<1>1. SessionInv => HandlesMatchMode
  BY DEF SessionInv, HandleInv, DirsAt, FilesAt, FileSteps, HandlesMatchMode,
         Session!HandlesMatchMode
<1>2. QED
  BY <1>1, SessionInvariance, PTL
=============================================================================
