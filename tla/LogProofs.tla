------------------------------ MODULE LogProofs ------------------------------
(***************************************************************************)
(* The log, for any finite set of system calls, any set of blocks and any  *)
(* sizes: IInv is inductive, so that a quiet log is durable, and the log    *)
(* implements an atomic disk.  One lemma per action for the invariant; for *)
(* the refinement, one per group of actions.                               *)
(*                                                                         *)
(* All is for every asWritten: the code, where write() panics on a locked  *)
(* buffer and init() on a header smaller than a block, and what the        *)
(* comments say of the two.                                                *)
(***************************************************************************)
EXTENDS Log, FiniteSetTheorems, TLAPS

USE ConstantsAssumption

(* There are finitely many calls in progress.                              *)
LEMMA ActiveCount ==
  /\ IsFiniteSet(Active)
  /\ Cardinality(Active) \in Nat
  /\ Cardinality(Active) = 0 <=> Active = {}
<1>1. IsFiniteSet(Active)
  BY FS_Subset DEF Active
<1>. QED BY <1>1, FS_CardinalityType, FS_EmptySet

(* What write() does to the header: one entry more, for a new block.       *)
LEMMA Appended ==
  ASSUME NEW s \in Seq(Block), NEW b \in Block
  PROVE  /\ Append(s, b) \in Seq(Block)
         /\ \A c : (\E i \in DOMAIN Append(s, b) : Append(s, b)[i] = c)
                   <=> c = b \/ \E i \in DOMAIN s : s[i] = c
         /\ ~(Len(s) >= Nlog - 1) => Len(Append(s, b)) < Nlog
         /\ /\ \A i, j \in DOMAIN s : s[i] = s[j] => i = j
            /\ ~ \E i \in DOMAIN s : s[i] = b
            => \A i, j \in DOMAIN Append(s, b) : Append(s, b)[i] = Append(s, b)[j] => i = j
<1>1. /\ Append(s, b) \in Seq(Block) /\ Len(Append(s, b)) = Len(s) + 1 /\ Len(s) \in Nat
      /\ DOMAIN s = 1 .. Len(s) /\ DOMAIN Append(s, b) = 1 .. Len(s) + 1
  OBVIOUS
<1>2. /\ \A i \in DOMAIN s : i \in DOMAIN Append(s, b) /\ Append(s, b)[i] = s[i]
      /\ \A i \in DOMAIN Append(s, b) : i \in DOMAIN s \/ i = Len(s) + 1
      /\ Len(s) + 1 \in DOMAIN Append(s, b) /\ Append(s, b)[Len(s) + 1] = b
  BY <1>1
<1>3. ASSUME NEW c PROVE (\E i \in DOMAIN Append(s, b) : Append(s, b)[i] = c)
                         <=> c = b \/ \E i \in DOMAIN s : s[i] = c
  BY <1>2
<1>4. ~(Len(s) >= Nlog - 1) => Len(Append(s, b)) < Nlog
  BY <1>1
<1>. QED BY <1>1, <1>2, <1>3, <1>4

(* After a panic only what is on the disk counts.                          *)
LEMMA PanicKeeps == ASSUME TypeOK', LogFits', phase' = "panic" PROVE IInv'
BY DEF IInv, CallsCounted, HeadersAgree, BuffersCoherent, CopiesAgree

(* A write() that panics leaves the disk alone, whoever called it.         *)
LEMMA RefusedKeeps ==
  ASSUME IInv, Refused, WriteLog \/ WriteHead \/ Install \/ ClearHead \/ Recover \/ Recovered
  PROVE  phase' = "panic" /\ UNCHANGED disk /\ IInv'
<1>. USE DEF IInv, log, disk, buffers, calls, Content, LogBlocks, Refused, Bwrite, OnDisk,
         WriteLog, WriteHead, Install, CopyHome, ClearHead, Recover, Recovered
<1>1. phase' = "panic" /\ UNCHANGED disk OBVIOUS
<1>2. TypeOK'
  <2>1. tail' \in Nat \ {0} /\ phase' \in Phases BY <1>1 DEF TypeOK, Phases
  <2>6. lh' \in Seq(Block)
    <3>1. lh' = lh \/ lh' = <<>> OBVIOUS
    <3>2. lh \in Seq(Block) /\ <<>> \in Seq(Block) BY DEF TypeOK
    <3>. QED BY <3>1, <3>2, Zenon
  <2>2. cache' \in [Block -> Content \cup {NoBuf}]
    <3>1. CASE Install \/ Recover
      <4>1. tail \in DOMAIN lh /\ tail \in LogBlocks
        BY <3>1 DEF TypeOK, HeadersAgree, LogFits
      <4>. QED BY <3>1, <4>1 DEF TypeOK
    <3>. QED BY <3>1 DEF TypeOK
  <2>3. committing' \in BOOLEAN BY Zenon DEF TypeOK
  <2>4. outstanding' \in Int /\ hdr' \in Seq(Block) /\ home' \in [Block -> Content]
        /\ logged' \in [LogBlocks -> Content] /\ pinned' \subseteq Block
    BY <1>1 DEF TypeOK
  <2>5. pc' \in [Op -> {"out", "asleep", "in", "commit"}] /\ wrote' \in [Op -> SUBSET Block]
        /\ asWritten' \in SUBSET Places
    BY DEF TypeOK
  <2>. QED BY <2>1, <2>2, <2>3, <2>4, <2>5, <2>6 DEF TypeOK
<1>3. LogFits' BY <1>1 DEF LogFits, TypeOK
<1>. QED BY <1>1, <1>2, <1>3, PanicKeeps

(* begin_op() adds one to the calls in progress, or sleeps.                *)
LEMMA BeginOpKeeps ==
  ASSUME IInv, NEW p \in Op, BeginOp(p)
  PROVE  IInv'
<1>. USE DEF IInv, TypeOK, log, disk, buffers, calls, control, Content, LogBlocks,
         BeginOp, Running
<1>1. TypeOK'
  <2>1. outstanding' \in Int OBVIOUS
  <2>2. pc' \in [Op -> {"out", "asleep", "in", "commit"}] OBVIOUS
  <2>. QED BY <2>1, <2>2
<1>2. LogFits' BY DEF LogFits
<1>3. CallsCounted'
  <2>1. CASE committing \/ NoSpace
    <3>1. Active' = Active BY <2>1 DEF Active
    <3>. QED BY <2>1, <3>1 DEF CallsCounted
  <2>2. CASE ~(committing \/ NoSpace)
    <3>1. phase = "idle" /\ p \notin Active /\ Active' = Active \cup {p}
      BY <2>2 DEF CallsCounted, Phases, Active
    <3>2. Cardinality(Active') = Cardinality(Active) + 1
      BY <3>1, ActiveCount, FS_AddElement
    <3>. QED BY <2>2, <3>1, <3>2 DEF CallsCounted
  <2>. QED BY <2>1, <2>2
<1>4. HeadersAgree' BY DEF HeadersAgree
<1>5. BuffersCoherent' BY DEF BuffersCoherent
<1>6. CopiesAgree' BY DEF CopiesAgree
<1>. QED BY <1>1, <1>2, <1>3, <1>4, <1>5, <1>6

(* write() pins a block with its first entry.                              *)
LEMMA WriteKeeps ==
  ASSUME IInv, NEW p \in Op, NEW b \in Block, Write(p, b)
  PROVE  IInv'
<1>. USE DEF IInv, TypeOK, log, disk, buffers, calls, control, Content, LogBlocks,
         Write, Running, Panic, TooBig, Logs
<1>0. /\ phase = "idle" /\ ~committing /\ outstanding >= 1 /\ Active # {}
      /\ phase' # "panic" => Active' = Active
  <2>1. p \in Active BY DEF Active
  <2>2. phase' # "panic" => Active' = Active BY DEF Active
  <2>. QED BY <2>1, <2>2, ActiveCount DEF CallsCounted
<1>a. \/ phase' = "panic" /\ lh' = lh /\ pinned' = pinned
      \/ phase' = phase /\ lh' = lh /\ pinned' = pinned /\ Logs(b)
      \/ phase' = phase /\ lh' = Append(lh, b) /\ pinned' = pinned \cup {b} /\ ~TooBig /\ ~Logs(b)
  OBVIOUS
<1>1. TypeOK'
  <2>1. cache' \in [Block -> Content \cup {NoBuf}] OBVIOUS
  <2>2. wrote' \in [Op -> SUBSET Block] OBVIOUS
  <2>3. lh' \in Seq(Block)
    <3>1. Append(lh, b) \in Seq(Block) BY Appended
    <3>. QED BY <1>a, <3>1
  <2>5. pinned' \subseteq Block BY <1>a
  <2>4. phase' \in Phases BY DEF Phases
  <2>. QED BY <2>1, <2>2, <2>3, <2>4, <2>5
<1>2. LogFits'
  <2>1. CASE lh' = lh BY <2>1 DEF LogFits
  <2>2. CASE lh' = Append(lh, b) /\ ~TooBig /\ ~Logs(b)
    <3>1. Len(lh') < Nlog BY <2>2, Appended
    <3>2. \A i, j \in DOMAIN lh' : lh'[i] = lh'[j] => i = j BY <2>2, Appended DEF LogFits
    <3>. QED BY <3>1, <3>2 DEF LogFits
  <2>. QED BY <1>a, <2>1, <2>2
<1>3. CallsCounted' BY <1>0, <1>a DEF CallsCounted
<1>4. HeadersAgree' BY <1>0, <1>a DEF HeadersAgree
<1>5. BuffersCoherent'
  <2>1. CASE phase' = "panic" BY <2>1 DEF BuffersCoherent
  <2>2. CASE phase' = phase /\ lh' = lh /\ pinned' = pinned /\ Logs(b)
    BY <1>0, <2>2 DEF BuffersCoherent
  <2>3. CASE phase' = phase /\ lh' = Append(lh, b) /\ pinned' = pinned \cup {b}
    <3>1. \A c \in Block : c \in pinned <=> \E i \in DOMAIN lh : lh[i] = c
      BY <1>0 DEF BuffersCoherent
    <3>2. \A c \in Block : c \in pinned' <=> \E i \in DOMAIN lh' : lh'[i] = c
      <4>1. \A c : (\E i \in DOMAIN Append(lh, b) : Append(lh, b)[i] = c)
                  <=> c = b \/ \E i \in DOMAIN lh : lh[i] = c
        BY Appended
      <4>2. \A c \in Block : c \in pinned' <=> c = b \/ c \in pinned
        BY <2>3
      <4>. QED BY <2>3, <3>1, <4>1, <4>2, Zenon
    <3>3. \A c \in Block : IF c \in pinned' THEN cache'[c] # NoBuf ELSE cache'[c] \in {NoBuf, home'[c]}
      BY <1>0, <2>3 DEF BuffersCoherent
    <3>. QED BY <1>0, <2>3, <3>2, <3>3 DEF BuffersCoherent
  <2>. QED BY <1>a, <2>1, <2>2, <2>3
<1>6. CopiesAgree' BY <1>0, <1>a DEF CopiesAgree
<1>. QED BY <1>1, <1>2, <1>3, <1>4, <1>5, <1>6

(* The last end_op() starts the commit; nobody else is in a call then.     *)
LEMMA EndOpKeeps ==
  ASSUME IInv, NEW p \in Op, EndOp(p)
  PROVE  IInv'
<1>. USE DEF IInv, TypeOK, log, disk, buffers, calls, control, Content, LogBlocks,
         EndOp, Running, Panic, Woken
<1>0. phase = "idle" /\ ~committing /\ p \in Active /\ Active' = Active \ {p}
  BY DEF CallsCounted, Active
<1>a. \/ committing' = committing /\ phase' = phase /\ tail' = tail /\ outstanding' # 0
      \/ committing' = TRUE /\ tail' = 1 /\ outstanding' = 0 /\ lh = <<>> /\ phase' = "finish"
      \/ committing' = TRUE /\ tail' = 1 /\ outstanding' = 0 /\ lh # <<>> /\ phase' = "write_log"
  BY <1>0
<1>1. TypeOK'
  <2>1. outstanding' \in Int /\ wrote' \in [Op -> SUBSET Block] OBVIOUS
  <2>2. pc' \in [Op -> {"out", "asleep", "in", "commit"}] BY <1>0
  <2>3. phase' \in Phases BY <1>a DEF Phases
  <2>4. tail' \in Nat \ {0} BY <1>a
  <2>5. committing' \in BOOLEAN BY <1>a
  <2>. QED BY <2>1, <2>2, <2>3, <2>4, <2>5
<1>2. LogFits' BY DEF LogFits
<1>3. CallsCounted'
  <2>1. Cardinality(Active') = Cardinality(Active) - 1
    BY <1>0, ActiveCount, FS_RemoveElement
  <2>2. outstanding' = 0 <=> Active' = {}
    <3>1. IsFiniteSet(Active') BY <1>0, ActiveCount, FS_Subset
    <3>. QED BY <1>0, <2>1, <3>1, FS_EmptySet, ActiveCount DEF CallsCounted
  <2>. QED BY <1>0, <1>a, <2>1, <2>2, ActiveCount DEF CallsCounted
<1>4. HeadersAgree' BY <1>0, <1>a DEF HeadersAgree
<1>5. BuffersCoherent' BY <1>0, <1>a DEF BuffersCoherent
<1>6. CopiesAgree' BY <1>0, <1>a DEF CopiesAgree
<1>. QED BY <1>1, <1>2, <1>3, <1>4, <1>5, <1>6

(* write_log() copies what is in the pinned buffers.                       *)
LEMMA WriteLogKeeps ==
  ASSUME IInv, ~Refused, WriteLog
  PROVE  IInv'
<1>. USE DEF IInv, TypeOK, log, disk, buffers, calls, control, Content, LogBlocks,
         WriteLog, Bwrite, OnDisk, Refused, Read
<1>0. Active' = Active BY DEF Active
<1>1. TypeOK' BY DEF Phases, HeadersAgree, LogFits
<1>2. LogFits' /\ HeadersAgree' BY DEF LogFits, HeadersAgree
<1>3. CallsCounted' BY <1>0 DEF CallsCounted
<1>4. BuffersCoherent' BY DEF BuffersCoherent
<1>5. CopiesAgree' BY DEF CopiesAgree, HeadersAgree, LogFits, BuffersCoherent
<1>. QED BY <1>1, <1>2, <1>3, <1>4, <1>5

(* write_head() makes the header on disk that in memory.                   *)
LEMMA WriteHeadKeeps ==
  ASSUME IInv, ~Refused, WriteHead
  PROVE  IInv'
<1>. USE DEF IInv, TypeOK, log, disk, buffers, calls, control, Content, LogBlocks,
         WriteHead, Bwrite, OnDisk, Refused
<1>0. Active' = Active BY DEF Active
<1>1. TypeOK' BY DEF Phases
<1>2. LogFits' /\ HeadersAgree' BY DEF LogFits, HeadersAgree
<1>3. CallsCounted' BY <1>0 DEF CallsCounted
<1>4. BuffersCoherent' BY DEF BuffersCoherent, HeadersAgree
<1>5. CopiesAgree' BY DEF CopiesAgree, HeadersAgree
<1>. QED BY <1>1, <1>2, <1>3, <1>4, <1>5

(* install_trans() writes a block home and unpins it.                      *)
LEMMA InstallKeeps ==
  ASSUME IInv, ~Refused, Install
  PROVE  IInv'
<1>. USE DEF IInv, TypeOK, log, disk, buffers, calls, control, Content, LogBlocks,
         Install, CopyHome, Bwrite, OnDisk, Refused
<1>0. Active' = Active BY DEF Active
<1>1. TypeOK' BY DEF Phases, HeadersAgree, LogFits
<1>2. LogFits' BY DEF LogFits
<1>3. CallsCounted' BY <1>0 DEF CallsCounted
<1>4. HeadersAgree' BY DEF HeadersAgree
<1>5. BuffersCoherent' BY DEF BuffersCoherent, LogFits
<1>6. CopiesAgree'
  <2>1. tail \in DOMAIN lh /\ (\A i, j \in DOMAIN lh : lh[i] = lh[j] => i = j) /\ phase = "install"
    BY DEF HeadersAgree, LogFits
  <2>2. \A i \in DOMAIN lh : i >= tail => logged[i] = cache[lh[i]]
    BY <2>1 DEF CopiesAgree
  <2>3. ASSUME NEW i \in DOMAIN lh, i > tail PROVE logged'[i] = cache'[lh[i]]
    <3>1. lh[i] # lh[tail] /\ lh[i] \in Block BY <2>1, <2>3
    <3>2. cache'[lh[i]] = cache[lh[i]] BY <3>1
    <3>3. logged[i] = cache[lh[i]] BY <2>1, <2>2, <2>3
    <3>. QED BY <3>2, <3>3
  <2>4. ASSUME NEW i \in DOMAIN lh, i <= tail PROVE home'[lh[i]] = logged'[i]
    <3>1. home' = [home EXCEPT ![lh[tail]] = logged[tail]] /\ logged' = logged
      OBVIOUS
    <3>2. lh[i] \in Block /\ lh[tail] \in Block BY <2>1
    <3>3. i # tail => home[lh[i]] = logged[i] BY <2>1, <2>4 DEF CopiesAgree
    <3>4. i # tail => lh[i] # lh[tail] BY <2>1
    <3>. QED BY <3>1, <3>2, <3>3, <3>4
  <2>5. lh' = lh /\ phase' = (IF tail = Len(lh) THEN "clear" ELSE "install")
        /\ tail' = (IF tail = Len(lh) THEN 1 ELSE tail + 1) /\ DOMAIN lh = 1 .. Len(lh)
    BY <2>1
  <2>6. tail \in Nat /\ Len(lh) \in Nat OBVIOUS
  <2>. HIDE DEF IInv, TypeOK, Install
  <2>. QED BY <2>1, <2>3, <2>4, <2>5, <2>6 DEF CopiesAgree
<1>. QED BY <1>1, <1>2, <1>3, <1>4, <1>5, <1>6

(* The header is cleared when all blocks are home.                         *)
LEMMA ClearHeadKeeps ==
  ASSUME IInv, ~Refused, ClearHead
  PROVE  IInv'
<1>. USE DEF IInv, TypeOK, log, disk, buffers, calls, control, Content, LogBlocks,
         ClearHead, Bwrite, OnDisk, Refused
<1>0. Active' = Active BY DEF Active
<1>1. TypeOK' BY DEF Phases
<1>2. LogFits' /\ HeadersAgree' BY DEF LogFits, HeadersAgree
<1>3. CallsCounted' BY <1>0 DEF CallsCounted
<1>4. BuffersCoherent' BY DEF BuffersCoherent
<1>5. CopiesAgree' BY DEF CopiesAgree
<1>. QED BY <1>1, <1>2, <1>3, <1>4, <1>5

(* The commit ends with an empty log.                                      *)
LEMMA FinishKeeps ==
  ASSUME IInv, NEW p \in Op, Finish(p)
  PROVE  IInv'
<1>. USE DEF IInv, TypeOK, log, disk, buffers, calls, control, Content, LogBlocks,
         Finish, Woken
<1>1. TypeOK' BY DEF Phases
<1>2. LogFits' BY DEF LogFits
<1>3. CallsCounted'
  <2>1. Active' = Active BY DEF CallsCounted, Active
  <2>. QED BY <2>1 DEF CallsCounted, HeadersAgree
<1>4. HeadersAgree' BY DEF HeadersAgree
<1>5. BuffersCoherent' BY DEF BuffersCoherent, HeadersAgree
<1>6. CopiesAgree' BY DEF CopiesAgree
<1>. QED BY <1>1, <1>2, <1>3, <1>4, <1>5, <1>6

(* Recovery starts from the header on disk.                                *)
LEMMA ReadHeadKeeps ==
  ASSUME IInv, ReadHead
  PROVE  IInv'
<1>. USE DEF IInv, TypeOK, log, disk, buffers, calls, control, Content, LogBlocks,
         ReadHead
<1>0. Active' = Active BY DEF Active
<1>1. TypeOK' BY DEF Phases
<1>2. LogFits' /\ HeadersAgree' BY DEF LogFits, HeadersAgree
<1>3. CallsCounted' BY <1>0 DEF CallsCounted
<1>4. BuffersCoherent' BY DEF BuffersCoherent
<1>5. CopiesAgree' BY DEF CopiesAgree, HeadersAgree
<1>. QED BY <1>1, <1>2, <1>3, <1>4, <1>5

(* Recovery writes a block home.                                           *)
LEMMA RecoverKeeps ==
  ASSUME IInv, ~Refused, Recover
  PROVE  IInv'
<1>. USE DEF IInv, TypeOK, log, disk, buffers, calls, control, Content, LogBlocks,
         Recover, CopyHome, Bwrite, OnDisk, Refused
<1>0. Active' = Active BY DEF Active
<1>1. TypeOK' BY DEF Phases, HeadersAgree, LogFits
<1>2. LogFits' /\ HeadersAgree' BY DEF LogFits, HeadersAgree
<1>3. CallsCounted' BY <1>0 DEF CallsCounted
<1>4. BuffersCoherent' BY DEF BuffersCoherent
<1>5. CopiesAgree'
  <2>1. tail \in DOMAIN lh /\ (\A i, j \in DOMAIN lh : lh[i] = lh[j] => i = j) /\ phase = "recover"
    BY DEF HeadersAgree, LogFits
  <2>2. ASSUME NEW i \in DOMAIN lh, i <= tail PROVE home'[lh[i]] = logged'[i]
    BY <2>1, <2>2 DEF CopiesAgree
  <2>. QED BY <2>1, <2>2 DEF CopiesAgree
<1>. QED BY <1>1, <1>2, <1>3, <1>4, <1>5

(* Recovery clears the header when all blocks are home.                    *)
LEMMA RecoveredKeeps ==
  ASSUME IInv, ~Refused, Recovered
  PROVE  IInv'
<1>. USE DEF IInv, TypeOK, log, disk, buffers, calls, control, Content, LogBlocks,
         Recovered, Bwrite, OnDisk, Refused
<1>0. Active' = Active BY DEF Active, CallsCounted
<1>1. TypeOK' BY DEF Phases
<1>2. LogFits' /\ HeadersAgree' BY DEF LogFits, HeadersAgree
<1>3. CallsCounted' BY <1>0 DEF CallsCounted
<1>4. BuffersCoherent' BY DEF BuffersCoherent
<1>5. CopiesAgree' BY DEF CopiesAgree
<1>. QED BY <1>1, <1>2, <1>3, <1>4, <1>5

(* A buffer is recycled only if it is not pinned.                          *)
LEMMA EvictKeeps ==
  ASSUME IInv, NEW b \in Block, Evict(b)
  PROVE  IInv'
<1>. USE DEF IInv, TypeOK, log, disk, buffers, calls, control, Content, LogBlocks,
         Evict
<1>0. Active' = Active BY DEF Active
<1>1. TypeOK' OBVIOUS
<1>2. LogFits' /\ HeadersAgree' BY DEF LogFits, HeadersAgree
<1>3. CallsCounted' BY <1>0 DEF CallsCounted
<1>4. BuffersCoherent' BY DEF BuffersCoherent
<1>5. CopiesAgree' BY DEF CopiesAgree, BuffersCoherent
<1>. QED BY <1>1, <1>2, <1>3, <1>4, <1>5

(* A crash keeps the disk, and the log fits.                               *)
LEMMA CrashKeeps ==
  ASSUME IInv, Crash
  PROVE  IInv'
<1>. USE DEF IInv, TypeOK, log, disk, buffers, calls, control, Content, LogBlocks,
         Crash
<1>1. TypeOK'
  <2>1. lh' \in Seq(Block) /\ pinned' \subseteq Block OBVIOUS
  <2>2. cache' \in [Block -> Content \cup {NoBuf}] OBVIOUS
  <2>3. pc' \in [Op -> {"out", "asleep", "in", "commit"}] OBVIOUS
  <2>4. wrote' \in [Op -> SUBSET Block] OBVIOUS
  <2>5. phase' \in Phases /\ tail' \in Nat \ {0} BY DEF Phases
  <2>7. committing' \in BOOLEAN OBVIOUS
  <2>8. outstanding' \in Int OBVIOUS
  <2>6. hdr' = hdr /\ home' = home /\ logged' = logged OBVIOUS
  <2>. QED BY <2>1, <2>2, <2>3, <2>4, <2>5, <2>6, <2>7, <2>8
<1>2. LogFits' BY DEF LogFits
<1>3. CallsCounted'
  <2>1. Active' = {} BY DEF Active
  <2>. QED BY <2>1, FS_EmptySet DEF CallsCounted
<1>4. HeadersAgree' BY DEF HeadersAgree
<1>5. BuffersCoherent' BY DEF BuffersCoherent
<1>6. CopiesAgree' BY DEF CopiesAgree
<1>. QED BY <1>1, <1>2, <1>3, <1>4, <1>5, <1>6

-----------------------------------------------------------------------------
(* The disk mkfs leaves has an empty header.                               *)
LEMMA InitIInv == Init => IInv
<1>. SUFFICES ASSUME Init PROVE IInv
  OBVIOUS
<1>. USE DEF Init
<1>1. TypeOK
  <2>0. committing \in BOOLEAN
    OBVIOUS
  <2>1. outstanding \in Int /\ phase \in Phases /\ tail \in Nat \ {0}
    BY DEF Phases
  <2>2. lh \in Seq(Block) /\ hdr \in Seq(Block) /\ pinned \subseteq Block
    OBVIOUS
  <2>3. home \in [Block -> Content] /\ logged \in [LogBlocks -> Content]
    BY DEF Content
  <2>4. cache \in [Block -> Content \cup {NoBuf}] /\ wrote \in [Op -> SUBSET Block]
    OBVIOUS
  <2>5. pc \in [Op -> {"out", "asleep", "in", "commit"}]
    OBVIOUS
  <2>. QED BY <2>0, <2>1, <2>2, <2>3, <2>4, <2>5 DEF TypeOK
<1>2. LogFits BY DEF LogFits
<1>3. CallsCounted
  <2>1. Active = {} BY DEF Active
  <2>. QED BY <2>1, FS_EmptySet DEF CallsCounted
<1>4. HeadersAgree /\ BuffersCoherent /\ CopiesAgree
  BY DEF HeadersAgree, BuffersCoherent, CopiesAgree
<1>. QED BY <1>1, <1>2, <1>3, <1>4 DEF IInv

(* No step of a call, of commit(), of recover(), of the cache, nor a crash *)
(* breaks the invariant.                                                   *)
LEMMA StepIInv == IInv /\ [Next]_vars => IInv'
<1>. SUFFICES ASSUME IInv, [Next]_vars PROVE IInv'
  OBVIOUS
<1>1. CASE UNCHANGED vars
  <2>1. Active' = Active BY <1>1 DEF Active, vars, calls, control
  <2>. QED BY <1>1, <2>1 DEF vars, log, disk, buffers, calls, control, IInv, TypeOK, LogFits,
         CallsCounted, HeadersAgree, BuffersCoherent, CopiesAgree
<1>2. CASE Next
  BY <1>2, BeginOpKeeps, WriteKeeps, EndOpKeeps, WriteLogKeeps, WriteHeadKeeps, InstallKeeps,
     ClearHeadKeeps, FinishKeeps, ReadHeadKeeps, RecoverKeeps, RecoveredKeeps, EvictKeeps, CrashKeeps,
     RefusedKeeps
  DEF Next, Call, Commit, Boot
<1>. QED BY <1>1, <1>2

(* It holds in every state the log can reach.                              *)
LEMMA Invariance == Spec => []IInv
BY InitIInv, StepIInv, PTL DEF Spec

-----------------------------------------------------------------------------
(* A step that leaves the calls' writes alone leaves their number alone.   *)
LEMMA SameWritten == ASSUME wrote' = wrote PROVE Written' = Written
BY DEF Written

(* With no call in progress no block is written.                           *)
LEMMA NoneWritten ==
  ASSUME \A p \in Op : wrote[p] = {} PROVE Written = {}
BY DEF Written

(* write() counts a block at most once for its call, and logs it.          *)
LEMMA WriteReserves ==
  ASSUME IInv, WritesCounted, SpaceIsReserved, NEW p \in Op, NEW b \in Block, Write(p, b),
         phase' # "panic"
  PROVE  WritesCounted' /\ SpaceIsReserved'
<1>1. /\ phase' = phase /\ outstanding' = outstanding /\ pc' = pc /\ pc[p] = "in" /\ phase = "idle"
      /\ wrote' = [wrote EXCEPT ![p] = @ \cup {b}] /\ wrote \in [Op -> SUBSET Block]
      /\ Cardinality(wrote[p] \cup {b}) <= MAXOPBLOCKS
  <2>1. p \in Active BY DEF Write, Running, Active
  <2>. QED BY <2>1 DEF Write, Running, Panic, control, IInv, TypeOK, CallsCounted
<1>2. lh \in Seq(Block) /\ ((Logs(b) /\ lh' = lh) \/ (~Logs(b) /\ lh' = Append(lh, b)))
  <2>1. lh \in Seq(Block) BY DEF IInv, TypeOK
  <2>2. (Logs(b) /\ lh' = lh) \/ (~Logs(b) /\ lh' = Append(lh, b)) BY DEF Write, Panic, Logs, control
  <2>. QED BY <2>1, <2>2
<1>3. Written' = Written \cup {<<p, b>>}
  BY <1>1 DEF Written
<1>4. /\ IsFiniteSet(Written) /\ IsFiniteSet(Written') /\ Cardinality(Written) \in Nat
      /\ Cardinality(Written') = IF <<p, b>> \in Written THEN Cardinality(Written)
                                                        ELSE Cardinality(Written) + 1
  BY <1>1, <1>3, FS_AddElement, FS_CardinalityType DEF WritesCounted
<1>5. <<p, b>> \in Written => Logs(b)
  BY <1>1 DEF Written, WritesCounted
<1>6. \A c : Logs(c)' <=> Logs(c) \/ (c = b)
  BY <1>2, Appended DEF Logs
<1>7. WritesCounted'
  <2>1. ASSUME NEW q \in Op
        PROVE  /\ IsFiniteSet(wrote'[q]) /\ Cardinality(wrote'[q]) <= MAXOPBLOCKS
               /\ pc'[q] # "in" => wrote'[q] = {}
               /\ \A c \in wrote'[q] : Logs(c)'
    <3>1. IsFiniteSet(wrote[q] \cup {b})
      BY <1>1, FS_AddElement DEF WritesCounted
    <3>2. CASE q = p
      <4>1. wrote'[q] = wrote[p] \cup {b} BY <1>1, <3>2
      <4>. QED BY <1>1, <1>6, <3>1, <3>2, <4>1 DEF WritesCounted
    <3>3. CASE q # p
      <4>1. wrote'[q] = wrote[q] BY <1>1, <3>3
      <4>. QED BY <1>1, <1>6, <4>1 DEF WritesCounted
    <3>. QED BY <3>2, <3>3
  <2>. QED BY <1>4, <2>1 DEF WritesCounted
<1>8. SpaceIsReserved'
  <2>1. Len(lh) \in Nat /\ outstanding \in Int /\ Len(lh') = (IF Logs(b) THEN Len(lh) ELSE Len(lh) + 1)
    BY <1>2 DEF IInv, TypeOK
  <2>. DEFINE due == outstanding * MAXOPBLOCKS
  <2>2. due \in Int BY <2>1
  <2>3. Len(lh) + due <= LOGSIZE + Cardinality(Written) BY <1>1 DEF SpaceIsReserved
  <2>4. outstanding' * MAXOPBLOCKS = due BY <1>1
  <2>. HIDE DEF due
  <2>5. Len(lh') + due <= LOGSIZE + Cardinality(Written') BY <1>4, <1>5, <2>1, <2>2, <2>3
  <2>. QED BY <2>4, <2>5 DEF SpaceIsReserved
<1>. QED BY <1>7, <1>8

(* end_op() gives back what the call has not written.                      *)
LEMMA EndOpReserves ==
  ASSUME IInv, WritesCounted, SpaceIsReserved, NEW p \in Op, EndOp(p)
  PROVE  WritesCounted' /\ SpaceIsReserved'
<1>1. /\ phase = "idle" /\ ~committing /\ pc[p] = "in" /\ lh' = lh /\ outstanding' = outstanding - 1
      /\ wrote' = [wrote EXCEPT ![p] = {}] /\ wrote \in [Op -> SUBSET Block]
      /\ pc \in [Op -> {"out", "asleep", "in", "commit"}]
  <2>1. p \in Active BY DEF EndOp, Running, Active
  <2>. QED BY <2>1 DEF EndOp, Running, IInv, TypeOK, CallsCounted
<1>2. \A q \in Op : q # p => (pc'[q] = "in" <=> pc[q] = "in")
  BY <1>1 DEF EndOp, Woken
<1>. DEFINE mine == {p} \X wrote[p]
<1>3. Written' = Written \ mine /\ mine \subseteq Written
  BY <1>1 DEF Written
<1>4. /\ IsFiniteSet(Written) /\ Cardinality(Written) \in Nat /\ IsFiniteSet(Written')
      /\ Cardinality(Written') = Cardinality(Written) - Cardinality(mine)
  <2>1. IsFiniteSet(Written) BY <1>1 DEF WritesCounted
  <2>2. Written \cap mine = mine BY <1>3
  <2>3. /\ IsFiniteSet(Written \ mine)
        /\ Cardinality(Written \ mine) = Cardinality(Written) - Cardinality(Written \cap mine)
    BY <2>1, FS_Difference, Zenon
  <2>4. Cardinality(Written) \in Nat BY <2>1, FS_CardinalityType
  <2>. QED BY <1>3, <2>1, <2>2, <2>3, <2>4, Zenon
<1>5. Cardinality(mine) \in Nat /\ Cardinality(mine) <= MAXOPBLOCKS
  <2>1. IsFiniteSet(wrote[p]) /\ Cardinality(wrote[p]) <= MAXOPBLOCKS
    BY <1>1 DEF WritesCounted
  <2>2. Cardinality(wrote[p]) \in Nat BY <2>1, FS_CardinalityType
  <2>3. IsFiniteSet({p}) /\ Cardinality({p}) = 1 BY FS_Singleton, Zenon
  <2>4. Cardinality(mine) = Cardinality({p}) * Cardinality(wrote[p])
    BY <2>1, <2>3, FS_Product, Zenon
  <2>. QED BY <2>1, <2>2, <2>3, <2>4
<1>6. WritesCounted'
  <2>1. ASSUME NEW q \in Op
        PROVE  /\ IsFiniteSet(wrote'[q]) /\ Cardinality(wrote'[q]) <= MAXOPBLOCKS
               /\ pc'[q] # "in" => wrote'[q] = {}
               /\ \A c \in wrote'[q] : Logs(c)'
    <3>1. CASE q = p BY <1>1, <3>1, FS_EmptySet
    <3>2. CASE q # p
      <4>1. wrote'[q] = wrote[q] BY <1>1, <3>2
      <4>. QED BY <1>1, <1>2, <3>2, <4>1 DEF WritesCounted, Logs
    <3>. QED BY <3>1, <3>2
  <2>. QED BY <1>4, <2>1 DEF WritesCounted
<1>7. SpaceIsReserved'
  <2>1. Len(lh) \in Nat /\ outstanding \in Int BY DEF IInv, TypeOK
  <2>2. (outstanding - 1) * MAXOPBLOCKS = outstanding * MAXOPBLOCKS - MAXOPBLOCKS
        /\ outstanding * MAXOPBLOCKS \in Int
    BY <2>1
  <2>. QED BY <1>1, <1>4, <1>5, <2>1, <2>2 DEF SpaceIsReserved
<1>. QED BY <1>6, <1>7

(* begin_op() adds a call only if there is room for all it may write.      *)
LEMMA BeginOpReserves ==
  ASSUME IInv, WritesCounted, SpaceIsReserved, NEW p \in Op, BeginOp(p)
  PROVE  WritesCounted' /\ SpaceIsReserved'
<1>1. /\ phase' = phase /\ phase # "panic" /\ lh' = lh /\ wrote' = wrote /\ Written' = Written
      /\ \A q \in Op : pc[q] = "in" => pc'[q] = "in"
  BY SameWritten DEF BeginOp, Running, control, IInv, TypeOK
<1>2. WritesCounted' BY <1>1 DEF WritesCounted, Logs
<1>3. SpaceIsReserved'
  <2>1. CASE outstanding' = outstanding BY <1>1, <2>1 DEF SpaceIsReserved
  <2>2. CASE ~NoSpace /\ outstanding' = outstanding + 1
    <3>1. Cardinality(Written) \in Nat BY <1>1, FS_CardinalityType DEF WritesCounted
    <3>2. Len(lh) + outstanding' * MAXOPBLOCKS <= LOGSIZE BY <2>2 DEF NoSpace, IInv, TypeOK
    <3>3. Len(lh) + outstanding' * MAXOPBLOCKS \in Int BY <2>2 DEF IInv, TypeOK
    <3>. QED BY <1>1, <3>1, <3>2, <3>3 DEF SpaceIsReserved
  <2>. QED BY <2>1, <2>2 DEF BeginOp
<1>. QED BY <1>2, <1>3

(* An empty log nobody uses takes no space.                                *)
LEMMA NothingReserved == Len(<<>>) = 0 /\ 0 * MAXOPBLOCKS = 0
OBVIOUS

(* The steps of commit() and recover(), and of the cache, reserve nothing; *)
(* when they are over nothing is reserved.                                 *)
LEMMA OthersReserve ==
  ASSUME IInv, WritesCounted, SpaceIsReserved, phase' # "panic", phase # "panic",
         Commit \/ Boot \/ \E b \in Block : Evict(b)
  PROVE  WritesCounted' /\ SpaceIsReserved'
<1>. USE DEF Commit, Boot, WriteLog, WriteHead, Install, CopyHome, ClearHead, Finish, ReadHead,
         Recover, Recovered, Evict, Bwrite, log, calls, control
<1>1. wrote' = wrote /\ Written' = Written BY SameWritten
<1>2. \A q \in Op : pc[q] = "in" => pc'[q] = "in" BY DEF Woken, IInv, TypeOK
<1>3. CASE \E b \in Block : Evict(b)
  BY <1>1, <1>2, <1>3 DEF WritesCounted, SpaceIsReserved, Logs
<1>4. CASE Commit \/ Boot
  <2>1. phase # "idle" BY <1>4
  <2>2. \A q \in Op : wrote[q] = {} BY <2>1 DEF WritesCounted, IInv, CallsCounted, Active
  <2>3. WritesCounted' BY <1>1, <1>2, <2>2 DEF WritesCounted
  <2>4. Written' = {} /\ Cardinality(Written') = 0 BY <1>1, <2>2, NoneWritten, FS_EmptySet
  <2>5. phase' = "idle" => lh' = <<>> /\ outstanding' = 0
    <3>1. outstanding = 0
      BY <2>1, FS_EmptySet DEF IInv, CallsCounted
    <3>2. phase' = "idle" => (lh' = <<>> \/ (lh' = lh /\ phase = "finish")) /\ outstanding' = outstanding
      <4>. HIDE DEF Commit, Boot, WriteLog, WriteHead, Install, CopyHome, ClearHead, ReadHead, Recover, Evict
      <4>1. ASSUME Recovered PROVE lh' = <<>> /\ outstanding' = outstanding BY <4>1
      <4>2. ASSUME NEW p \in Op, Finish(p) PROVE lh' = lh /\ phase = "finish" /\ outstanding' = outstanding
        BY <4>2
      <4>3. CASE WriteLog \/ WriteHead \/ Install \/ ClearHead \/ ReadHead \/ Recover
        BY <4>3 DEF WriteLog, WriteHead, Install, ClearHead, ReadHead, Recover
      <4>. QED BY <1>4, <4>1, <4>2, <4>3 DEF Commit, Boot
    <3>. QED BY <3>1, <3>2 DEF IInv, HeadersAgree
  <2>6. SpaceIsReserved'
    <3>1. Len(<<>>) = 0 /\ 0 * MAXOPBLOCKS = 0 BY NothingReserved, Zenon
    <3>. QED BY <2>4, <2>5, <3>1 DEF SpaceIsReserved
  <2>. QED BY <2>3, <2>6
<1>. QED BY <1>3, <1>4

(***************************************************************************)
(* The space begin_op() reserves is there: the blocks in the header, and   *)
(* those the calls in progress may still write, never exceed LOGSIZE, so   *)
(* write() stays inside of LogHeader.block.                                *)
(***************************************************************************)
THEOREM SpaceStaysReserved == Spec => []SpaceIsReserved
<1>1. Init => WritesCounted /\ SpaceIsReserved
  <2>. SUFFICES ASSUME Init PROVE WritesCounted /\ SpaceIsReserved
    OBVIOUS
  <2>1. Written = {} BY NoneWritten DEF Init
  <2>. QED BY <2>1, FS_EmptySet DEF Init, WritesCounted, SpaceIsReserved
<1>2. IInv /\ WritesCounted /\ SpaceIsReserved /\ [Next]_vars => WritesCounted' /\ SpaceIsReserved'
  <2>. SUFFICES ASSUME IInv, WritesCounted, SpaceIsReserved, [Next]_vars
                PROVE  WritesCounted' /\ SpaceIsReserved'
    OBVIOUS
  <2>1. CASE phase' = "panic" BY <2>1 DEF WritesCounted, SpaceIsReserved
  <2>2. CASE UNCHANGED vars
    BY <2>2, SameWritten DEF vars, log, calls, control, WritesCounted, SpaceIsReserved, Logs
  <2>3. CASE Crash
    <3>1. Written' = {} BY <2>3 DEF Crash, Written
    <3>. QED BY <2>3, <3>1, FS_EmptySet DEF Crash, WritesCounted, SpaceIsReserved
  <2>4. CASE phase' # "panic" /\ Next /\ ~Crash
    <3>1. phase # "panic"
      BY <2>4 DEF Next, Call, BeginOp, Write, EndOp, Running, Commit, Boot, WriteLog, WriteHead, Install,
         ClearHead, Finish, ReadHead, Recover, Recovered, Evict
    <3>. QED BY <2>4, <3>1, BeginOpReserves, WriteReserves, EndOpReserves, OthersReserve DEF Next, Call
  <2>. QED BY <2>1, <2>2, <2>3, <2>4
<1>. QED BY <1>1, <1>2, Invariance, PTL DEF Spec

-----------------------------------------------------------------------------
(* Recovery takes a block that has an entry from the log.                  *)
LEMMA ReplayAt ==
  ASSUME NEW h, NEW l, NEW d, \A i, j \in DOMAIN h : h[i] = h[j] => i = j
  PROVE  \A i \in DOMAIN h : h[i] \in Block => Replay(h, l, d)[h[i]] = l[i]
<1>1. ASSUME NEW i \in DOMAIN h, h[i] \in Block PROVE Replay(h, l, d)[h[i]] = l[i]
  <2>1. (CHOOSE j \in DOMAIN h : h[j] = h[i]) = i
    OBVIOUS
  <2>. QED BY <1>1, <2>1 DEF Replay
<1>. QED BY <1>1

(* The same of the header in memory and the disk.                          *)
LEMMA LoggedIsReplayed ==
  ASSUME NEW i \in DOMAIN lh, lh[i] \in Block, \A j, k \in DOMAIN lh : lh[j] = lh[k] => j = k
  PROVE  Replay(lh, logged, home)[lh[i]] = logged[i]
BY ReplayAt

(* A map that agrees with a recovered disk on all blocks is that disk.     *)
LEMMA SameReplay ==
  ASSUME NEW h, NEW l, NEW d, NEW f, f = [b \in Block |-> f[b]],
         \A b \in Block : f[b] = Replay(h, l, d)[b]
  PROVE  f = Replay(h, l, d)
BY DEF Replay

(* With no entries there is nothing to replay.                             *)
LEMMA EmptyReplay ==
  ASSUME NEW l, NEW d \in [Block -> Content] PROVE Replay(<<>>, l, d) = d
BY DEF Replay

(* install_trans() of one block, from commit() or recover(), changes       *)
(* nothing that recovery would not change too.                             *)
LEMMA InstallKeepsReplay ==
  ASSUME NEW h, NEW l, NEW d \in [Block -> Content], NEW i \in DOMAIN h, h[i] \in Block,
         \A j, k \in DOMAIN h : h[j] = h[k] => j = k
  PROVE  Replay(h, l, [d EXCEPT ![h[i]] = l[i]]) = Replay(h, l, d)
BY DEF Replay

(* Once all blocks are home the header can be cleared.                     *)
LEMMA AllHome ==
  ASSUME NEW h, NEW l, NEW d \in [Block -> Content], \A i \in DOMAIN h : d[h[i]] = l[i]
  PROVE  Replay(<<>>, l, d) = Replay(h, l, d)
<1>1. ASSUME NEW b \in Block PROVE d[b] = Replay(h, l, d)[b]
  <2>1. CASE \E i \in DOMAIN h : h[i] = b
    <3>. DEFINE j == CHOOSE i \in DOMAIN h : h[i] = b
    <3>1. j \in DOMAIN h /\ h[j] = b BY <2>1
    <3>. QED BY <2>1, <3>1 DEF Replay
  <2>2. CASE ~ \E i \in DOMAIN h : h[i] = b
    BY <2>2 DEF Replay
  <2>. QED BY <2>1, <2>2
<1>. QED BY <1>1, SameReplay, EmptyReplay

(* With no call in progress the file system sees what a crash would leave. *)
LEMMA QuietView == ASSUME IInv, phase = "idle", Active = {} PROVE View = AfterRecovery
<1>1. hdr = <<>> /\ lh = <<>> /\ pinned = {} /\ home \in [Block -> Content]
  BY DEF IInv, TypeOK, HeadersAgree, CallsCounted, BuffersCoherent
<1>2. \A b \in Block : Read(b) = home[b]
  BY <1>1 DEF IInv, BuffersCoherent, Read
<1>. QED BY <1>1, <1>2, EmptyReplay DEF View, AfterRecovery

(***************************************************************************)
(* A system call that has entered is in an open transaction until its      *)
(* end_op(): it is counted in outstanding and no commit() runs.            *)
(***************************************************************************)
THEOREM CallsStayInTransaction == Spec => []CallsAreInTransaction
<1>1. IInv => CallsAreInTransaction
  <2>. SUFFICES ASSUME IInv, NEW p \in Op, pc[p] = "in", phase # "panic"
                PROVE  outstanding >= 1 /\ ~committing
    BY DEF CallsAreInTransaction
  <2>1. p \in Active BY DEF Active
  <2>. QED BY <2>1, ActiveCount DEF IInv, CallsCounted
<1>. QED BY <1>1, Invariance, PTL

(***************************************************************************)
(* Between transactions nothing is at risk: after the last end_op() a crash *)
(* leaves exactly what the file system reads, no buffer is pinned and the  *)
(* header on disk is empty.                                                *)
(***************************************************************************)
THEOREM QuietLogIsDurable ==
  Spec => []QuietIsDurable
<1>1. IInv => QuietIsDurable
  <2>. SUFFICES ASSUME IInv, phase = "idle", outstanding = 0
                PROVE  AfterRecovery = View /\ pinned = {} /\ lh = <<>> /\ hdr = <<>>
    BY DEF QuietIsDurable
  <2>1. Active = {} BY ActiveCount DEF IInv, CallsCounted
  <2>. QED BY <2>1, QuietView DEF IInv, TypeOK, HeadersAgree, CallsCounted, BuffersCoherent
<1>. QED BY <1>1, Invariance, PTL

-----------------------------------------------------------------------------
(* A panic loses what a crash loses.                                       *)
LEMMA PanicIsCrash ==
  ASSUME AfterRecovery' = AfterRecovery, phase' = "panic" PROVE Atomic!Crash
<1>1. View' = AfterRecovery' /\ Active' = {}
  BY DEF View, Active
<1>. QED BY <1>1 DEF Atomic!Crash

(* begin_op(), write() and end_op() are Begin, Write and End of the disk.  *)
LEMMA CallsRefine ==
  ASSUME IInv, NEW p \in Op, Call(p)
  PROVE  [Atomic!Next]_(Atomic!vars)
<1>. USE DEF Atomic!Next, Atomic!vars, disk, buffers, control
<1>1. CASE BeginOp(p)
  <2>1. AfterRecovery' = AfterRecovery /\ View' = View
    BY <1>1 DEF BeginOp, AfterRecovery, View, Read
  <2>2. Active' = Active \/ (p \notin Active /\ Active' = Active \cup {p})
    <3>1. /\ pc[p] = "out" /\ pc \in [Op -> {"out", "asleep", "in", "commit"}]
          /\ phase # "panic" /\ phase' = phase
      BY <1>1 DEF BeginOp, Running, IInv, TypeOK
    <3>2. CASE pc' = [pc EXCEPT ![p] = "asleep"]
      <4>1. \A q \in Op : pc'[q] = "in" <=> pc[q] = "in"
        BY <3>1, <3>2
      <4>2. Active' = Active
        BY <3>1, <4>1 DEF Active
      <4>. QED BY <4>2
    <3>3. CASE pc' = [pc EXCEPT ![p] = "in"]
      BY <3>1, <3>3 DEF Active
    <3>. QED BY <1>1, <3>2, <3>3 DEF BeginOp
  <2>. QED BY <2>1, <2>2 DEF Atomic!Begin
<1>2. ASSUME NEW b \in Block, Write(p, b) PROVE Atomic!Write(p, b) \/ Atomic!Crash
  <2>1. phase = "idle" /\ p \in Active /\ AfterRecovery' = AfterRecovery
    <3>1. p \in Active /\ AfterRecovery' = AfterRecovery
      BY <1>2 DEF Write, Running, Active, AfterRecovery
    <3>. QED BY <1>2, <3>1 DEF Write, Running, IInv, CallsCounted
  <2>2. CASE phase' = "panic"
    BY <2>1, <2>2, PanicIsCrash
  <2>3. CASE phase' # "panic"
    <3>1. phase' = "idle" /\ home' = home /\ cache' = [cache EXCEPT ![b] = p] /\ pc' = pc
      BY <1>2, <2>1, <2>3 DEF Write, Panic
    <3>2. Active' = Active
      BY <2>1, <3>1 DEF Active
    <3>3. View' = [View EXCEPT ![b] = p]
      BY <2>1, <3>1 DEF View, Read, IInv, TypeOK
    <3>. QED BY <2>1, <3>2, <3>3 DEF Atomic!Write
  <2>. QED BY <2>2, <2>3
<1>3. CASE EndOp(p)
  <2>1. p \in Active /\ AfterRecovery' = AfterRecovery /\ home' = home /\ cache' = cache
    BY <1>3 DEF EndOp, Running, Active, AfterRecovery
  <2>2. phase = "idle" /\ ~committing
    BY <1>3, <2>1 DEF EndOp, Running, IInv, CallsCounted
  <2>3. phase' \in {"idle", "finish", "write_log"} /\ Active' = Active \ {p}
    BY <1>3, <2>2 DEF EndOp, Woken, Active, IInv, TypeOK
  <2>4. View' = View
    BY <2>1, <2>2, <2>3 DEF View, Read
  <2>. QED BY <2>1, <2>3, <2>4 DEF Atomic!End
<1>. QED BY <1>1, <1>2, <1>3 DEF Call

(* The end of end_op() and the start of recover() do not show.             *)
LEMMA FinishRefines == ASSUME IInv, NEW p \in Op, Finish(p) PROVE UNCHANGED Atomic!vars
<1>. USE DEF Atomic!vars, IInv, TypeOK
<1>1. AfterRecovery' = AfterRecovery /\ View' = View
  BY DEF Finish, disk, buffers, AfterRecovery, View, Read
<1>2. Active' = Active
  BY DEF Finish, Woken, Active, CallsCounted
<1>. QED BY <1>1, <1>2

LEMMA ReadHeadRefines == ASSUME IInv, ReadHead PROVE UNCHANGED Atomic!vars
BY DEF ReadHead, Atomic!vars, disk, calls, AfterRecovery, View, Active

(* write_head() is the commit; the rest of commit() does not show.         *)
LEMMA CommitRefines ==
  ASSUME IInv, ~Refused, Commit
  PROVE  [Atomic!Next]_(Atomic!vars)
<1>. USE DEF Atomic!Next, Atomic!vars, IInv, TypeOK, log, buffers, calls
<1>1. CASE WriteLog
  <2>1. hdr' = <<>> /\ hdr = <<>> /\ home' = home /\ home \in [Block -> Content] /\ Active' = Active
    BY <1>1 DEF WriteLog, Bwrite, HeadersAgree, Active
  <2>2. AfterRecovery' = AfterRecovery
    BY <2>1, EmptyReplay DEF AfterRecovery
  <2>3. View' = View
    BY <1>1, <2>1 DEF WriteLog, Bwrite, View, Read
  <2>. QED BY <2>1, <2>2, <2>3
<1>2. CASE WriteHead
  <2>1. /\ phase = "write_head" /\ phase' = "install" /\ hdr' = lh /\ Active' = Active /\ Active = {}
        /\ home' = home /\ logged' = logged /\ cache' = cache
        /\ \A i, j \in DOMAIN lh : lh[i] = lh[j] => i = j
    BY <1>2 DEF WriteHead, Bwrite, OnDisk, Refused, CallsCounted, Active, LogFits
  <2>2. View' = View
    BY <2>1 DEF View, Read
  <2>3. ASSUME NEW b \in Block PROVE View[b] = Replay(lh, logged, home)[b]
    <3>1. CASE b \in pinned
      <4>1. PICK i \in DOMAIN lh : lh[i] = b
        BY <2>1, <3>1 DEF BuffersCoherent
      <4>2. View[b] = cache[b] /\ cache[b] = logged[i]
        BY <2>1, <3>1, <4>1 DEF View, Read, BuffersCoherent, CopiesAgree
      <4>3. lh[i] \in Block /\ \A j, k \in DOMAIN lh : lh[j] = lh[k] => j = k
        BY <2>1, <4>1, Zenon
      <4>4. Replay(lh, logged, home)[lh[i]] = logged[i]
        BY <4>3, LoggedIsReplayed, Zenon
      <4>. QED BY <4>1, <4>2, <4>4, Zenon
    <3>2. CASE b \notin pinned
      <4>1. View[b] = home[b] /\ \A i \in DOMAIN lh : lh[i] # b
        BY <2>1, <3>2 DEF View, Read, BuffersCoherent
      <4>. QED BY <4>1 DEF Replay
    <3>. QED BY <3>1, <3>2
  <2>4. AfterRecovery' = View
    <3>1. View = [b \in Block |-> View[b]]
      BY <2>1 DEF View
    <3>2. View = Replay(lh, logged, home)
      <4>1. \A b \in Block : View[b] = Replay(lh, logged, home)[b]
        BY <2>3, Zenon
      <4>2. Replay(lh, logged, home) = [b \in Block |-> Replay(lh, logged, home)[b]]
        BY DEF Replay
      <4>3. [b \in Block |-> View[b]] = [b \in Block |-> Replay(lh, logged, home)[b]]
        BY <4>1, Zenon
      <4>. QED BY <3>1, <4>2, <4>3, Zenon
    <3>. QED BY <2>1, <3>2 DEF AfterRecovery
  <2>. QED BY <2>1, <2>2, <2>4 DEF Atomic!Commit
<1>3. CASE Install
  <2>1. /\ tail \in DOMAIN lh /\ lh[tail] \in Block /\ hdr = lh /\ phase = "install"
        /\ hdr' = hdr /\ logged' = logged /\ Active' = Active
        /\ home' = [home EXCEPT ![lh[tail]] = logged[tail]]
        /\ cache' = [cache EXCEPT ![lh[tail]] = logged[tail]]
        /\ phase' \in {"install", "clear"}
        /\ \A i, j \in DOMAIN lh : lh[i] = lh[j] => i = j
    BY <1>3 DEF Install, CopyHome, OnDisk, Bwrite, HeadersAgree, Active, LogFits
  <2>2. cache[lh[tail]] = logged[tail] /\ logged[tail] # NoBuf
    <3>1. cache[lh[tail]] = logged[tail]
      BY <2>1 DEF CopiesAgree
    <3>2. tail \in LogBlocks
      BY <2>1 DEF LogFits, LogBlocks
    <3>3. logged[tail] \in Content
      BY <3>2
    <3>. QED BY <3>1, <3>3 DEF Content
  <2>3. View' = View
    BY <2>1, <2>2 DEF View, Read
  <2>4. Replay(lh, logged, [home EXCEPT ![lh[tail]] = logged[tail]]) = Replay(lh, logged, home)
    BY <2>1, InstallKeepsReplay
  <2>. QED BY <2>1, <2>3, <2>4 DEF AfterRecovery
<1>4. CASE ClearHead
  <2>1. /\ hdr = lh /\ hdr' = <<>> /\ logged' = logged /\ home' = home /\ cache' = cache
        /\ phase = "clear" /\ phase' = "finish" /\ Active' = Active
        /\ \A i \in DOMAIN hdr : home[hdr[i]] = logged[i]
    BY <1>4 DEF ClearHead, Bwrite, OnDisk, Refused, HeadersAgree, Active, CopiesAgree
  <2>2. AfterRecovery' = AfterRecovery
    BY <2>1, AllHome DEF AfterRecovery
  <2>3. View' = View
    BY <2>1 DEF View, Read
  <2>. QED BY <2>1, <2>2, <2>3
<1>. QED BY <1>1, <1>2, <1>3, <1>4, FinishRefines DEF Commit

(* Recovery does not show.                                                 *)
LEMMA BootRefines ==
  ASSUME IInv, ~Refused, Boot
  PROVE  UNCHANGED Atomic!vars
<1>. USE DEF Atomic!vars, IInv, TypeOK, log, buffers, calls
<1>2. CASE Recover
  <2>1. /\ tail \in DOMAIN lh /\ lh[tail] \in Block /\ hdr = lh
        /\ hdr' = hdr /\ logged' = logged /\ Active' = Active
        /\ home' = [home EXCEPT ![lh[tail]] = logged[tail]]
        /\ phase = "recover" /\ phase' \in {"recover", "recovered"}
        /\ \A i, j \in DOMAIN lh : lh[i] = lh[j] => i = j
    BY <1>2 DEF Recover, CopyHome, OnDisk, Bwrite, HeadersAgree, Active, LogFits
  <2>2. AfterRecovery' = AfterRecovery
    <3>1. Replay(lh, logged, [home EXCEPT ![lh[tail]] = logged[tail]]) = Replay(lh, logged, home)
      BY <2>1, InstallKeepsReplay
    <3>. QED BY <2>1, <3>1 DEF AfterRecovery
  <2>. QED BY <2>1, <2>2 DEF View
<1>3. CASE Recovered
  <2>1. /\ hdr = lh /\ hdr' = <<>> /\ logged' = logged /\ home' = home /\ cache' = cache
        /\ phase = "recovered" /\ phase' \in {"idle", "panic"} /\ Active' = Active
        /\ \A i \in DOMAIN hdr : home[hdr[i]] = logged[i]
    BY <1>3 DEF Recovered, Bwrite, OnDisk, HeadersAgree, Active, CallsCounted, CopiesAgree
  <2>2. AfterRecovery' = AfterRecovery /\ AfterRecovery = home
    BY <2>1, AllHome, EmptyReplay DEF AfterRecovery
  <2>3. View' = home
    <3>1. \A b \in Block : cache[b] \in {NoBuf, home[b]}
      BY <2>1 DEF BuffersCoherent
    <3>2. CASE phase' = "idle" BY <2>1, <3>1, <3>2 DEF View, Read
    <3>3. CASE phase' = "panic" BY <2>2, <3>3 DEF View
    <3>. QED BY <2>1, <3>2, <3>3
  <2>. QED BY <2>1, <2>2, <2>3 DEF View
<1>. QED BY <1>2, <1>3, ReadHeadRefines DEF Boot

(***************************************************************************)
(* The log implements an atomic disk: begin_op(), write(), end_op(),       *)
(* commit() and recover() make the updates of system calls durable in      *)
(* groups, each at once, whenever buffers are recycled and the machine     *)
(* crashes, during recovery too.                                           *)
(***************************************************************************)
THEOREM LogIsAtomicDisk ==
  Spec => ImplementsAtomicDisk
<1>1. Init => Atomic!Init
  <2>. SUFFICES ASSUME Init PROVE Atomic!Init
    OBVIOUS
  <2>1. AfterRecovery = [b \in Block |-> Initial]
    BY DEF Init, AfterRecovery, Replay
  <2>. QED BY <2>1 DEF Init, Atomic!Init, View, Active
<1>2. IInv /\ [Next]_vars => [Atomic!Next]_(Atomic!vars)
  <2>. SUFFICES ASSUME IInv, [Next]_vars PROVE [Atomic!Next]_(Atomic!vars)
    OBVIOUS
  <2>1. ASSUME NEW b \in Block, Evict(b) PROVE UNCHANGED Atomic!vars
    <3>1. AfterRecovery' = AfterRecovery /\ Active' = Active /\ phase' = phase
      BY <2>1 DEF Evict, disk, calls, control, AfterRecovery, Active
    <3>2. View' = View
      BY <2>1, <3>1 DEF Evict, disk, View, Read, IInv, TypeOK, BuffersCoherent
    <3>. QED BY <3>1, <3>2 DEF Atomic!vars
  <2>2. CASE Crash
    <3>1. AfterRecovery' = AfterRecovery /\ View' = AfterRecovery /\ Active' = {}
      BY <2>2 DEF Crash, disk, AfterRecovery, View, Active
    <3>. QED BY <3>1 DEF Atomic!Next, Atomic!Crash
  <2>3. CASE UNCHANGED vars
    BY <2>3 DEF vars, disk, buffers, calls, control, Atomic!vars, AfterRecovery, View, Read, Active
  <2>4. CASE Refused /\ (WriteLog \/ WriteHead \/ Install \/ ClearHead \/ Recover \/ Recovered)
    <3>1. phase' = "panic" /\ AfterRecovery' = AfterRecovery
      BY <2>4, RefusedKeeps DEF disk, AfterRecovery
    <3>. QED BY <3>1, PanicIsCrash DEF Atomic!Next
  <2>5. CASE Commit \/ Boot
    BY <2>4, <2>5, FinishRefines, ReadHeadRefines, CommitRefines, BootRefines DEF Commit, Boot
  <2>. QED BY <2>1, <2>2, <2>3, <2>5, CallsRefine DEF Next
<1>. QED BY <1>1, <1>2, Invariance, PTL DEF Spec, ImplementsAtomicDisk, Atomic!Spec
=============================================================================
