-------------------------------- MODULE IoProofs --------------------------------
(***************************************************************************)
(* The properties that the run of MCIo checks of the layers but the        *)
(* driver, for every value of the constants.  What is proved of the driver *)
(* is in JtagUartProofs.                                                   *)
(***************************************************************************)
EXTENDS MCIo, FiniteSetTheorems, WellFoundedInduction, TLAPS

\* The proofs of the layers below, with the shared variables as those of each of them:
\* of the start with the memory of the board, and of the blocks with a memory of their
\* own and a cache of instructions they do not use.
L == INSTANCE LayerProofs WITH
    Size <- RamSize, Devices <- IrqDevices,
    pc <- v1, PIE <- v2, faulty <- v3, ipending <- v4, EXCEPTIONS <- v5, BADADDR <- v6,
    ea <- v7, estatus <- v8, at <- v9, frame <- v10, registered <- v11, told <- v12,
    done <- v13, passed <- v14, meant <- v15, has_info <- v16,
    freq <- v1, counter <- v2, period <- v3, run <- v4, cont <- v5, snap <- v6,
    stamp_pc <- v7, lower <- v8, elapsed <- v9, stamp_asked <- v10, result <- v11,
    sleep_pc <- v1, us <- v2, turns <- v3, reg <- v4, loops <- v5, sleep_asked <- v6,
    store <- v1, blocks <- v2, watched <- v3, last <- v4,
    boot_pc <- v2, boot_at <- v3, todo <- v4, boot_PIE <- v5, ienable <- v6, changed <- v7,
    call <- v1, head <- v2, entry <- v3, arc <- v4, slab_ptr <- v5, slab_size <- v6,
    brk <- v7, others <- v8, tick_rate <- v9, pcsample_need_init <- v10, starts <- v11,
    hits <- v12, calls <- v13, raced <- v14, torn <- v15,
    printf_pc <- v1, fmt <- v2, state <- v3, spec <- v4, buf <- v5, printed <- v6,
    pieces <- v7

K == INSTANCE LayerProofs WITH
    Size <- HeapSize, ICacheLines <- 1, Devices <- IrqDevices,
    pc <- v1, PIE <- v2, faulty <- v3, ipending <- v4, EXCEPTIONS <- v5, BADADDR <- v6,
    ea <- v7, estatus <- v8, at <- v9, frame <- v10, registered <- v11, told <- v12,
    done <- v13, passed <- v14, meant <- v15, has_info <- v16,
    freq <- v1, counter <- v2, period <- v3, run <- v4, cont <- v5, snap <- v6,
    stamp_pc <- v7, lower <- v8, elapsed <- v9, stamp_asked <- v10, result <- v11,
    sleep_pc <- v1, us <- v2, turns <- v3, reg <- v4, loops <- v5, sleep_asked <- v6,
    store <- v1, blocks <- v2, watched <- v3, last <- v4,
    boot_pc <- v2, boot_at <- v3, todo <- v4, boot_PIE <- v5, ienable <- v6, changed <- v7,
    call <- v1, head <- v2, entry <- v3, arc <- v4, slab_ptr <- v5, slab_size <- v6,
    brk <- v7, others <- v8, tick_rate <- v9, pcsample_need_init <- v10, starts <- v11,
    hits <- v12, calls <- v13, raced <- v14, torn <- v15,
    printf_pc <- v1, fmt <- v2, state <- v3, spec <- v4, buf <- v5, printed <- v6,
    pieces <- v7

LEMMA FA == File!FileAssumption
BY LayersAssumption

-----------------------------------------------------------------------------
(* The descriptors                                                         *)

\* A descriptor: taken when the program has it, as it asked for it, and below the mark;
\* one that is locked is marked as a device and lies below the mark too; nothing is locked
\* or held before main.
FdSound(f) ==
    /\ f \notin File!Stdio => IF f \in File!Held THEN alt_fd_list[f].dev # NoDev /\ f <= alt_max_fd
                                       ELSE alt_fd_list[f] = File!Released
    /\ f \in File!Stdio => alt_fd_list[f].dev # NoDev /\ f \notin File!Held
    /\ "EXCL" \in alt_fd_list[f].flags => "DEV" \in alt_fd_list[f].flags
    /\ "DEV" \in alt_fd_list[f].flags =>
          f <= alt_max_fd /\ alt_fd_list[f].dev \in Devs \ Filesystems
    /\ f \in File!Held => alt_fd_list[f].acc = asked[f]
    /\ phase \notin {"main", "exited"} => f \notin File!Held /\ "EXCL" \notin alt_fd_list[f].flags

\* The lists hold devices and filesystems apart.
TableInv ==
    /\ File!TypeOK
    /\ File!Range(alt_dev_list) \subseteq Devs \ Filesystems
    /\ File!Range(alt_fs_list) \subseteq Devs \cap Filesystems
    /\ \A f \in File!Fd : FdSound(f)

LEMMA StdioFds == File!Stdio \subseteq File!Fd /\ File!Fd \subseteq Nat /\ \A f \in File!Fd : f \notin File!Stdio <=> f > 2
BY FA DEF File!FileAssumption, File!Stdio, File!Fd

LEMMA InvSound == TableInv => File!TableSound
BY StdioFds, Zenon DEF TableInv, File!TableSound, FdSound

LEMMA FirstIs ==
    ASSUME NEW S, NEW list \in Seq(S), NEW wanted
    PROVE  File!First(list, wanted) \in File!Range(list) \cup {NoDev}
<1> DEFINE hits == {i \in DOMAIN list : list[i] \in wanted}
<1>1. CASE hits = {}
    BY <1>1 DEF File!First
<1>2. CASE hits # {}
  <2>1. hits \in SUBSET Nat
      OBVIOUS
  <2>2. PICK x \in hits : \A y \in hits : x <= y
      BY <1>2, <2>1, L!SmallestOf
  <2>3. File!Min(hits) \in hits
      BY <2>2 DEF File!Min
  <2>4. list[File!Min(hits)] \in File!Range(list)
      BY <2>3 DEF File!Range
  <2> QED BY <1>2, <2>4 DEF File!First
<1> QED BY <1>1, <1>2

\* What is opened is registered: a device, or a filesystem.
LEMMA DeviceIs ==
    ASSUME TableInv, NEW file, File!Device(file) # NoDev
    PROVE  File!Device(file) \in IF File!IsAFs(file) THEN Devs \cap Filesystems ELSE Devs \ Filesystems
<1>1. alt_dev_list \in Seq(Devs) /\ alt_fs_list \in Seq(Devs)
    BY DEF TableInv, File!TypeOK
<1>2. File!FindDev(file) \in File!Range(alt_dev_list) \cup {NoDev}
    BY <1>1, FirstIs DEF File!FindDev
<1>3. File!FindFile(file) \in File!Range(alt_fs_list) \cup {NoDev}
    BY <1>1, FirstIs DEF File!FindFile
<1> QED BY <1>2, <1>3 DEF TableInv, File!Device, File!IsAFs

LEMMA NextFdIs ==
    ASSUME TableInv, File!Free # {}
    PROVE  /\ File!NextFd \in File!Fd /\ File!NextFd > 2 /\ File!NextFd \notin File!Stdio /\ File!NextFd \notin File!Held
           /\ alt_fd_list[File!NextFd] = File!Released
<1>1. File!Free \in SUBSET Nat
    BY StdioFds DEF File!Free
<1>2. PICK x \in File!Free : \A y \in File!Free : x <= y
    BY <1>1, L!SmallestOf
<1>3. File!NextFd \in File!Free
    BY <1>2 DEF File!NextFd
<1>4. File!NextFd \in File!Fd /\ alt_fd_list[File!NextFd].dev = NoDev
    BY <1>3 DEF File!Free
<1>5. File!NextFd \notin File!Stdio /\ FdSound(File!NextFd)
    BY <1>4 DEF TableInv, FdSound
<1>6. File!NextFd > 2
    BY <1>4, <1>5, StdioFds
<1> QED BY <1>4, <1>5, <1>6 DEF FdSound

LEMMA TableInit == File!Init => TableInv
<1> SUFFICES ASSUME File!Init PROVE TableInv
    OBVIOUS
<1>1. alt_dev_null \in Devs \ Filesystems /\ NoDev \notin Devs /\ ALT_MAX_FD \in Nat /\ ALT_MAX_FD > 3
    BY FA DEF File!FileAssumption
<1>2. File!Held = {}
    BY DEF File!Init, File!Held
<1>3. File!TypeOK
  <2> DEFINE Rows == [dev : Devs \cup {NoDev}, acc : {"RDONLY", "WRONLY", "RDWR"},
                      flags : SUBSET File!FdFlags]
  <2>1. <<alt_dev_null>> \in Seq(Devs) /\ <<>> \in Seq(Devs)
      BY <1>1
  <2>2. File!Released \in Rows /\ [File!Released EXCEPT !.dev = alt_dev_null] \in Rows
      BY <1>1 DEF File!Released
  <2>3. alt_fd_list \in [File!Fd -> Rows]
      BY <2>2 DEF File!Init
  <2> HIDE DEF Rows
  <2>4. done.call \in File!Called /\ done.fd \in File!Fd \cup {-1} /\ done.answer \in File!Answers
      BY DEF File!Init, File!Answers, File!Called
  <2> QED BY <2>1, <2>3, <2>4 DEF File!Init, File!TypeOK, Rows
<1>4. ASSUME NEW f \in File!Fd PROVE FdSound(f)
  <2>1. alt_fd_list[f].flags = {}
      BY DEF File!Init, File!Released
  <2>2. f \notin File!Stdio => alt_fd_list[f] = File!Released
      BY DEF File!Init
  <2>3. f \in File!Stdio => alt_fd_list[f].dev # NoDev
      BY <1>1 DEF File!Init, File!Released
  <2> QED BY <1>2, <2>1, <2>2, <2>3 DEF FdSound
<1>5. File!Range(alt_dev_list) \subseteq Devs \ Filesystems /\ File!Range(alt_fs_list) \subseteq Devs \cap Filesystems
    BY <1>1 DEF File!Init, File!Range
<1> QED BY <1>3, <1>4, <1>5 DEF TableInv

\* Registration leaves the table alone and keeps the lists apart.
LEMMA Pushed ==
    ASSUME NEW S, NEW list \in Seq(S), NEW d \in S
    PROVE  /\ <<d>> \o list \in Seq(S)
           /\ File!Range(<<d>> \o list) \subseteq {d} \cup File!Range(list)
<1>1. <<d>> \o list \in Seq(S) /\ Len(<<d>> \o list) = 1 + Len(list)
    OBVIOUS
<1>2. \A i \in 1 .. Len(list) + 1 : (<<d>> \o list)[i] = IF i = 1 THEN d ELSE list[i - 1]
    OBVIOUS
<1> QED BY <1>1, <1>2 DEF File!Range

\* A descriptor that a step leaves alone stays sound.
Later(p, q) == p = q \/ q \in {"main", "exited"} \/ p \notin {"main", "exited"}

LEMMA FdStays ==
    ASSUME TableInv, File!TypeOK', NEW f \in File!Fd, alt_fd_list'[f] = alt_fd_list[f], asked'[f] = asked[f],
           alt_max_fd <= alt_max_fd', Later(phase, phase')
    PROVE  FdSound(f)'
<1>1. FdSound(f) /\ f \in Int /\ alt_max_fd \in Int /\ alt_max_fd' \in Int
    BY StdioFds DEF TableInv, File!TypeOK
<1>2. f \in File!Held' <=> f \in File!Held
    BY DEF File!Held
<1>3. phase' \notin {"main", "exited"} => phase \notin {"main", "exited"}
    BY DEF Later
<1>4. f <= alt_max_fd => f <= alt_max_fd'
    BY <1>1
<1> QED BY <1>1, <1>2, <1>3, <1>4, Zenon DEF FdSound

\* A step that leaves the table alone.
LEMMA TableStays ==
    ASSUME TableInv, UNCHANGED <<File!lists, File!table>>, Later(phase, phase'),
           phase' \in {"sys_init", "stdout", "stdin", "stderr", "main", "exited"},
           done'.call \in File!Called, done'.fd \in File!Fd \cup {-1}, done'.answer \in File!Answers
    PROVE  TableInv'
<1>1. File!TypeOK'
    BY DEF TableInv, File!TypeOK, File!table, File!lists
<1>2. alt_max_fd <= alt_max_fd'
    BY StdioFds DEF File!table, TableInv, File!TypeOK
<1>3. \A f \in File!Fd : FdSound(f)'
    BY <1>1, <1>2, FdStays DEF File!table
<1> QED BY <1>1, <1>3 DEF TableInv, File!lists

\* Registration keeps the lists apart.
LEMMA DevRegKept == ASSUME TableInv, NEW d \in Devs \ Filesystems, File!DevReg(d) PROVE TableInv'
<1>1. /\ alt_dev_list \in Seq(Devs) /\ alt_fs_list \in Seq(Devs)
      /\ File!Range(alt_dev_list) \subseteq Devs \ Filesystems
    BY DEF TableInv, File!TypeOK
<1>2. <<d>> \o alt_dev_list \in Seq(Devs) /\ File!Range(<<d>> \o alt_dev_list) \subseteq Devs \ Filesystems
    BY <1>1, Pushed
<1>3. alt_dev_list' \in Seq(Devs) /\ File!Range(alt_dev_list') \subseteq Devs \ Filesystems
    BY <1>1, <1>2 DEF File!DevReg
<1>4. UNCHANGED <<phase, alt_fs_list, File!table>>
    BY DEF File!DevReg
<1>5. done'.call \in File!Called /\ done'.fd \in File!Fd \cup {-1} /\ done'.answer \in File!Answers
    BY DEF File!DevReg, File!Answer, File!Answers, File!Called
<1>6. File!TypeOK'
    BY <1>3, <1>4, <1>5 DEF TableInv, File!TypeOK, File!table
<1>7. alt_max_fd <= alt_max_fd' /\ Later(phase, phase')
    BY <1>4, StdioFds DEF File!table, TableInv, File!TypeOK, Later
<1>8. \A f \in File!Fd : FdSound(f)'
    BY <1>4, <1>6, <1>7, FdStays DEF File!table
<1> QED BY <1>3, <1>4, <1>6, <1>8 DEF TableInv

LEMMA FsRegKept ==
    ASSUME TableInv, NEW d \in Devs, d \in Filesystems, File!FsReg(d) PROVE TableInv'
<1>1. /\ alt_dev_list \in Seq(Devs) /\ alt_fs_list \in Seq(Devs)
      /\ File!Range(alt_fs_list) \subseteq Devs \cap Filesystems
    BY DEF TableInv, File!TypeOK
<1>2. <<d>> \o alt_fs_list \in Seq(Devs) /\ File!Range(<<d>> \o alt_fs_list) \subseteq Devs \cap Filesystems
    BY <1>1, Pushed
<1>3. alt_fs_list' \in Seq(Devs) /\ File!Range(alt_fs_list') \subseteq Devs \cap Filesystems
    BY <1>1, <1>2 DEF File!FsReg
<1>4. UNCHANGED <<phase, alt_dev_list, File!table>>
    BY DEF File!FsReg
<1>5. done'.call \in File!Called /\ done'.fd \in File!Fd \cup {-1} /\ done'.answer \in File!Answers
    BY DEF File!FsReg, File!Answer, File!Answers, File!Called
<1>6. File!TypeOK'
    BY <1>3, <1>4, <1>5 DEF TableInv, File!TypeOK, File!table
<1>7. alt_max_fd <= alt_max_fd' /\ Later(phase, phase')
    BY <1>4, StdioFds DEF File!table, TableInv, File!TypeOK, Later
<1>8. \A f \in File!Fd : FdSound(f)'
    BY <1>4, <1>6, <1>7, FdStays DEF File!table
<1> QED BY <1>3, <1>4, <1>6, <1>8 DEF TableInv

\* One descriptor changes: it is enough that it is sound and of its type.
Rows == [dev : Devs \cup {NoDev}, acc : {"RDONLY", "WRONLY", "RDWR"}, flags : SUBSET File!FdFlags]
Wishes == {"none", "RDONLY", "WRONLY", "RDWR"}

LEMMA RowChanges ==
    ASSUME TableInv, NEW f \in File!Fd, NEW row \in Rows, NEW wish \in Wishes, UNCHANGED File!lists,
           alt_fd_list' = [alt_fd_list EXCEPT ![f] = row],
           asked' = [asked EXCEPT ![f] = wish],
           alt_max_fd <= alt_max_fd', alt_max_fd' \in File!Fd \cup {-1}, Later(phase, phase'),
           phase' \in {"sys_init", "stdout", "stdin", "stderr", "main", "exited"},
           done'.call \in File!Called, done'.fd \in File!Fd \cup {-1}, done'.answer \in File!Answers,
           File!TypeOK' /\ alt_fd_list'[f] = row /\ asked'[f] = wish => FdSound(f)'
    PROVE  TableInv'
<1>1. alt_fd_list \in [File!Fd -> Rows] /\ asked \in [File!Fd -> Wishes]
    BY DEF TableInv, File!TypeOK, Rows, Wishes
<1>2. /\ alt_fd_list' \in [File!Fd -> Rows] /\ asked' \in [File!Fd -> Wishes]
      /\ alt_fd_list'[f] = row /\ asked'[f] = wish
      /\ \A g \in File!Fd : g # f => alt_fd_list'[g] = alt_fd_list[g] /\ asked'[g] = asked[g]
    BY <1>1
<1>3. File!TypeOK'
    BY <1>2 DEF TableInv, File!TypeOK, File!lists, Rows, Wishes
<1>4. \A g \in File!Fd : FdSound(g)'
    BY <1>2, <1>3, FdStays
<1> QED BY <1>3, <1>4 DEF TableInv, File!lists

LEMMA AnswerIs ==
    ASSUME NEW call \in File!Called, NEW fd \in File!Fd \cup {-1}, NEW answer \in File!Answers,
           File!Answer(call, fd, answer)
    PROVE  /\ done'.call = call /\ done'.fd = fd /\ done'.answer = answer
           /\ done'.call \in File!Called /\ done'.fd \in File!Fd \cup {-1} /\ done'.answer \in File!Answers
BY DEF File!Answer

LEMMA AnswersAre ==
    /\ {"none", "done", "failed", "ENODEV", "EMFILE", "EACCES", "EBADFD", "ENOTTY", "ENOTSUP",
        "EINVAL", "ESRCH"} \subseteq File!Answers
    /\ \A dev : File!DriverAnswers(dev) \subseteq {"done", "failed"}
    /\ \A dev, callback : File!Calls(dev, callback) \subseteq {"done", "failed"}
BY DEF File!Answers, File!DriverAnswers, File!Calls

LEMMA CalledAre ==
    /\ {"none", "alt_dev_reg", "alt_fs_reg", "open", "kill"} \subseteq File!Called
    /\ File!AltCalls \subseteq File!Called /\ File!Requests \subseteq File!Called
BY DEF File!Called

LEMMA OpenAnswersAre ==
    ASSUME NEW file, NEW answer \in File!OpenAnswers(file)
    PROVE  /\ answer \in File!Answers
           /\ answer \notin {"ENODEV", "EMFILE"} => File!Device(file) # NoDev /\ File!Free # {}
           /\ answer = "done" => File!IsAFs(file) \/ ~File!AltFileLocked(File!Device(file))
<1>1. CASE File!Device(file) = NoDev
    BY <1>1 DEF File!OpenAnswers, File!Answers
<1>2. CASE File!Device(file) # NoDev /\ File!Free = {}
    BY <1>2 DEF File!OpenAnswers, File!Answers
<1>3. CASE File!Device(file) # NoDev /\ File!Free # {} /\ ~File!IsAFs(file) /\ File!AltFileLocked(File!Device(file))
    BY <1>3 DEF File!OpenAnswers, File!Answers
<1>4. CASE File!Device(file) # NoDev /\ File!Free # {} /\ ~(~File!IsAFs(file) /\ File!AltFileLocked(File!Device(file)))
    BY <1>4, AnswersAre DEF File!OpenAnswers
<1> QED BY <1>1, <1>2, <1>3, <1>4

\* What open writes is never locked, and is marked as a device just when it is one.
LEMMA OpenedIs ==
    ASSUME TableInv, NEW file, File!Device(file) # NoDev, NEW acc \in {"RDONLY", "WRONLY", "RDWR"},
           NEW flags \in SUBSET {"NONBLOCK", "EXCL"}
    PROVE  /\ File!Opened(file, acc, flags) \in Rows
           /\ File!Opened(file, acc, flags).dev = File!Device(file)
           /\ File!Opened(file, acc, flags).acc = acc
           /\ "EXCL" \notin File!Opened(file, acc, flags).flags
           /\ "DEV" \in File!Opened(file, acc, flags).flags <=> ~File!IsAFs(file)
           /\ File!Device(file) \in Devs
           /\ ~File!IsAFs(file) => File!Device(file) \in Devs \ Filesystems
<1>1. File!Device(file) \in Devs /\ (~File!IsAFs(file) => File!Device(file) \in Devs \ Filesystems)
    BY DeviceIs
<1> DEFINE marks == (flags \ File!FLAGS_MASK) \cup (IF File!IsAFs(file) THEN {} ELSE {"DEV"})
<1>2. marks \subseteq File!FdFlags /\ "EXCL" \notin marks /\ ("DEV" \in marks <=> ~File!IsAFs(file))
    BY DEF File!FLAGS_MASK, File!FdFlags
<1>3. File!Opened(file, acc, flags) = [dev |-> File!Device(file), acc |-> acc, flags |-> marks]
    BY DEF File!Opened
<1> HIDE DEF marks
<1> QED BY <1>1, <1>2, <1>3 DEF Rows

LEMMA ReleasedIs == File!Released \in Rows /\ File!Released.flags = {} /\ File!Released.dev = NoDev
BY DEF File!Released, Rows

LEMMA TypesOf ==
    ASSUME TableInv
    PROVE  /\ alt_fd_list \in [File!Fd -> Rows] /\ asked \in [File!Fd -> Wishes]
           /\ alt_max_fd \in File!Fd \cup {-1} /\ alt_max_fd \in Int
           /\ phase \in {"sys_init", "stdout", "stdin", "stderr", "main", "exited"}
           /\ File!Held \subseteq File!Fd /\ File!Held \cap File!Stdio = {} /\ File!Usable \subseteq File!Fd
<1>1. /\ alt_fd_list \in [File!Fd -> Rows] /\ asked \in [File!Fd -> Wishes]
      /\ alt_max_fd \in File!Fd \cup {-1}
      /\ phase \in {"sys_init", "stdout", "stdin", "stderr", "main", "exited"}
    BY DEF TableInv, File!TypeOK, Rows, Wishes
<1>2. alt_max_fd \in Int
    BY <1>1, StdioFds
<1>3. File!Held \subseteq File!Fd /\ File!Held \cap File!Stdio = {}
    BY DEF TableInv, FdSound, File!Held
<1> QED BY <1>1, <1>2, <1>3, StdioFds DEF File!Usable

LEMMA MarkIs ==
    ASSUME TableInv, File!Free # {}
    PROVE  /\ File!MarkWith(File!NextFd) \in File!Fd \cup {-1} /\ File!MarkWith(File!NextFd) \in Int
           /\ alt_max_fd <= File!MarkWith(File!NextFd) /\ File!NextFd <= File!MarkWith(File!NextFd)
<1>0. File!NextFd \in File!Fd
    BY NextFdIs
<1>1. File!NextFd \in File!Fd /\ File!NextFd \in Int
    BY <1>0, StdioFds
<1>2. alt_max_fd \in File!Fd \cup {-1} /\ alt_max_fd \in Int
    BY TypesOf
<1> QED BY <1>1, <1>2 DEF File!MarkWith

LEMMA OpenKept ==
    ASSUME TableInv, NEW file \in Files, NEW acc \in Accesses,
           NEW flags \in SUBSET {"NONBLOCK", "EXCL"}, File!Open(file, acc, flags)
    PROVE  TableInv'
<1>1. acc \in {"RDONLY", "WRONLY", "RDWR"} /\ NoDev \notin Devs
    BY FA DEF File!FileAssumption
<1>2. PICK answer \in File!OpenAnswers(file) :
         /\ File!AltOpen(file, acc, flags, answer)
         /\ IF answer = "done"
            THEN File!Answer("open", File!NextFd, "done") /\ asked' = [asked EXCEPT ![File!NextFd] = acc]
            ELSE File!Answer("open", -1, answer) /\ UNCHANGED asked
    BY DEF File!Open
<1>3. phase = "main" /\ UNCHANGED <<phase, File!lists>>
    BY DEF File!Open
<1>4. CASE answer \in {"ENODEV", "EMFILE"}
  <2>1. UNCHANGED <<File!lists, File!table>> /\ File!Answer("open", -1, answer)
      BY <1>2, <1>3, <1>4 DEF File!AltOpen, File!table
  <2>2. done'.call \in File!Called /\ done'.fd \in File!Fd \cup {-1} /\ done'.answer \in File!Answers
      BY <1>4, <2>1, AnswerIs, CalledAre, AnswersAre
  <2> QED BY <1>3, <2>1, <2>2, TableStays DEF Later
<1>5. CASE answer \notin {"ENODEV", "EMFILE"}
  <2>1. File!Device(file) # NoDev /\ File!Free # {} /\ answer \in File!Answers
      BY <1>5, OpenAnswersAre
  <2>2. PICK next \in File!Fd : /\ next = File!NextFd /\ next > 2 /\ next \notin File!Stdio /\ next \notin File!Held
                             /\ alt_fd_list[next] = File!Released
      BY <2>1, NextFdIs
  <2>3. PICK row \in Rows : /\ row = File!Opened(file, acc, flags) /\ row.dev # NoDev /\ row.acc = acc
                            /\ "EXCL" \notin row.flags
                            /\ "DEV" \in row.flags => row.dev \in Devs \ Filesystems
      BY <1>1, <2>1, OpenedIs
  <2>4. /\ alt_max_fd' = File!MarkWith(File!NextFd)
        /\ alt_fd_list' = IF answer = "done"
                          THEN [alt_fd_list EXCEPT ![next] = row]
                          ELSE [[alt_fd_list EXCEPT ![next] = row] EXCEPT ![next] = File!Released]
      BY <1>2, <1>5, <2>2, <2>3 DEF File!AltOpen, File!Release
  <2>5. alt_max_fd <= alt_max_fd' /\ alt_max_fd' \in File!Fd \cup {-1} /\ next <= alt_max_fd'
      BY <2>1, <2>2, <2>4, MarkIs
  <2>6. alt_fd_list \in [File!Fd -> Rows] /\ asked \in [File!Fd -> Wishes] /\ Later(phase, phase')
      BY <1>3, TypesOf DEF Later
  <2>7. CASE answer = "done"
    <3>1. done'.call \in File!Called /\ done'.fd \in File!Fd \cup {-1} /\ done'.answer \in File!Answers
        BY <1>2, <2>2, <2>7, AnswerIs, CalledAre, AnswersAre
    <3>2. acc \in Wishes /\ acc # "none"
        BY <1>1 DEF Wishes
    <3>3. ASSUME alt_fd_list'[next] = row, asked'[next] = acc PROVE FdSound(next)'
      <4>1. next \in File!Held'
          BY <3>2, <3>3 DEF File!Held
      <4> QED BY <1>3, <2>2, <2>3, <2>5, <3>3, <4>1 DEF FdSound
    <3>4. alt_fd_list' = [alt_fd_list EXCEPT ![next] = row] /\ asked' = [asked EXCEPT ![next] = acc]
        BY <1>2, <2>2, <2>4, <2>7
    <3> QED BY <1>3, <2>5, <2>6, <3>1, <3>2, <3>3, <3>4, RowChanges
  <2>8. CASE answer # "done"
    <3>1. done'.call \in File!Called /\ done'.fd \in File!Fd \cup {-1} /\ done'.answer \in File!Answers
        BY <1>2, <2>1, <2>8, AnswerIs, CalledAre, AnswersAre
    <3>2. asked[next] \in Wishes /\ asked[next] = "none"
        BY <2>2, <2>6 DEF File!Held
    <3>3. ASSUME alt_fd_list'[next] = File!Released, asked'[next] = asked[next] PROVE FdSound(next)'
      <4>1. next \notin File!Held'
          BY <3>2, <3>3 DEF File!Held
      <4> QED BY <1>3, <2>2, <3>3, <4>1, ReleasedIs DEF FdSound
    <3>4. alt_fd_list' = [alt_fd_list EXCEPT ![next] = File!Released]
        BY <2>4, <2>6, <2>8
    <3>5. asked' = [asked EXCEPT ![next] = asked[next]]
        BY <1>2, <2>6, <2>8
    <3> QED BY <1>3, <2>5, <2>6, <3>1, <3>2, <3>3, <3>4, <3>5, RowChanges, ReleasedIs
  <2> QED BY <2>7, <2>8
<1> QED BY <1>4, <1>5

LEMMA CloseKept == ASSUME TableInv, NEW f \in File!Usable, File!Close(f) PROVE TableInv'
<1>1. PICK answer \in File!Calls(alt_fd_list[f].dev, "close") : File!AltClose(f, answer) /\ File!Answer("close", f, answer)
    BY DEF File!Close
<1>2. /\ phase = "main" /\ UNCHANGED <<phase, File!lists, alt_max_fd>>
      /\ asked' = [asked EXCEPT ![f] = "none"]
    BY DEF File!Close
<1>0. f \in File!Fd
    BY TypesOf
<1>3. f \in File!Fd /\ FdSound(f) /\ f \in Int
    BY <1>0, StdioFds DEF TableInv
<1>4. done'.call \in File!Called /\ done'.fd \in File!Fd \cup {-1} /\ done'.answer \in File!Answers
    BY <1>1, <1>3, AnswerIs, CalledAre, AnswersAre DEF File!AltCalls
<1>5. alt_fd_list \in [File!Fd -> Rows] /\ asked \in [File!Fd -> Wishes] /\ alt_max_fd \in File!Fd \cup {-1} /\ alt_max_fd \in Int
    BY TypesOf
<1>6. "none" \in Wishes /\ Later(phase, phase') /\ alt_max_fd <= alt_max_fd'
    BY <1>2, <1>5 DEF Wishes, Later
<1>7. CASE f > 2
  <2>1. alt_fd_list' = [alt_fd_list EXCEPT ![f] = File!Released] /\ f \notin File!Stdio
      BY <1>1, <1>3, <1>7, StdioFds DEF File!AltClose, File!Release
  <2>2. ASSUME alt_fd_list'[f] = File!Released, asked'[f] = "none" PROVE FdSound(f)'
    <3>1. f \notin File!Held'
        BY <2>2 DEF File!Held
    <3> QED BY <1>2, <2>1, <2>2, <3>1, ReleasedIs DEF FdSound
  <2> QED BY <1>2, <1>3, <1>4, <1>5, <1>6, <2>1, <2>2, RowChanges, ReleasedIs
<1>8. CASE ~(f > 2)
  <2>1. alt_fd_list' = [alt_fd_list EXCEPT ![f] = alt_fd_list[f]] /\ f \in File!Stdio
      BY <1>1, <1>3, <1>5, <1>8, StdioFds DEF File!AltClose, File!Release
  <2>2. ASSUME alt_fd_list'[f] = alt_fd_list[f], asked'[f] = "none" PROVE FdSound(f)'
    <3>1. f \notin File!Held'
        BY <2>2 DEF File!Held
    <3> QED BY <1>2, <1>3, <2>1, <2>2, <3>1 DEF FdSound
  <2>3. alt_fd_list[f] \in Rows
      BY <1>3, <1>5
  <2> QED BY <1>2, <1>3, <1>4, <1>5, <1>6, <2>1, <2>2, <2>3, RowChanges
<1> QED BY <1>7, <1>8

\* A step that changes the flags of a descriptor and nothing else.
LEMMA FlagsChange ==
    ASSUME TableInv, NEW f \in File!Usable, NEW row \in Rows,
           phase = "main", UNCHANGED <<phase, File!lists, alt_max_fd, asked>>,
           alt_fd_list' = [alt_fd_list EXCEPT ![f] = row],
           row.dev = alt_fd_list[f].dev, row.acc = alt_fd_list[f].acc,
           "DEV" \in row.flags <=> "DEV" \in alt_fd_list[f].flags,
           "EXCL" \in row.flags => "DEV" \in row.flags,
           done'.call \in File!Called, done'.fd \in File!Fd \cup {-1}, done'.answer \in File!Answers
    PROVE  TableInv'
<1>1. f \in File!Fd /\ FdSound(f) /\ (f \notin File!Stdio => f \in File!Held)
    BY TypesOf DEF TableInv, File!Usable
<1>2. /\ alt_fd_list \in [File!Fd -> Rows] /\ asked \in [File!Fd -> Wishes]
      /\ alt_max_fd \in File!Fd \cup {-1} /\ alt_max_fd \in Int
    BY TypesOf
<1>3. ASSUME alt_fd_list'[f] = row, asked'[f] = asked[f] PROVE FdSound(f)'
  <2>1. f \in File!Held' <=> f \in File!Held
      BY <1>3 DEF File!Held
  <2> QED BY <1>1, <1>3, <2>1 DEF FdSound
<1>4. asked' = [asked EXCEPT ![f] = asked[f]] /\ asked[f] \in Wishes
    BY <1>1, <1>2
<1>5. Later(phase, phase') /\ alt_max_fd <= alt_max_fd'
    BY <1>2 DEF Later
<1> QED BY <1>1, <1>2, <1>3, <1>4, <1>5, RowChanges

\* The row of a descriptor whose flags change.
LEMMA RowIs ==
    ASSUME TableInv, NEW f \in File!Fd, NEW flags \in SUBSET File!FdFlags
    PROVE  /\ [alt_fd_list[f] EXCEPT !.flags = flags] \in Rows
           /\ [alt_fd_list[f] EXCEPT !.flags = flags].dev = alt_fd_list[f].dev
           /\ [alt_fd_list[f] EXCEPT !.flags = flags].acc = alt_fd_list[f].acc
           /\ [alt_fd_list[f] EXCEPT !.flags = flags].flags = flags
           /\ [alt_fd_list EXCEPT ![f].flags = flags] =
                  [alt_fd_list EXCEPT ![f] = [alt_fd_list[f] EXCEPT !.flags = flags]]
           /\ alt_fd_list[f].flags \in SUBSET File!FdFlags
<1>1. alt_fd_list[f] \in Rows
    BY TypesOf
<1> QED BY <1>1 DEF Rows

LEMMA IoctlKept ==
    ASSUME TableInv, NEW f \in File!Usable, NEW req \in File!Requests, File!Ioctl(f, req) PROVE TableInv'
<1>1. phase = "main" /\ UNCHANGED <<phase, File!lists, alt_max_fd, asked>>
    BY DEF File!Ioctl
<1>2. f \in File!Fd /\ FdSound(f)
    BY TypesOf DEF TableInv
<1> DEFINE old == alt_fd_list[f].flags
<1>3. old \in SUBSET File!FdFlags /\ "EXCL" \in File!FdFlags
    BY <1>2, RowIs DEF File!FdFlags
<1>4. CASE "DEV" \in old /\ File!Lock(f) /\ ~File!LockRefused(f)
  <2>1. PICK row \in Rows : /\ row.dev = alt_fd_list[f].dev /\ row.acc = alt_fd_list[f].acc
                            /\ row.flags = old \cup {"EXCL"}
                            /\ alt_fd_list' = [alt_fd_list EXCEPT ![f] = row]
    <3>1. old \cup {"EXCL"} \in SUBSET File!FdFlags
        BY <1>3
    <3>2. alt_fd_list' = [alt_fd_list EXCEPT ![f].flags = old \cup {"EXCL"}]
        BY <1>4 DEF File!Lock
    <3> HIDE DEF old
    <3> QED BY <1>2, <3>1, <3>2, RowIs
  <2>2. done'.call \in File!Called /\ done'.fd \in File!Fd \cup {-1} /\ done'.answer \in File!Answers
      BY <1>2, <1>4, AnswerIs, CalledAre, AnswersAre DEF File!Lock, File!Requests
  <2>3. "DEV" \in row.flags <=> "DEV" \in alt_fd_list[f].flags
      BY <2>1
  <2>4. "EXCL" \in row.flags => "DEV" \in row.flags
      BY <1>4, <2>1
  <2> QED BY <1>1, <2>1, <2>2, <2>3, <2>4, FlagsChange
<1>5. CASE File!Unlock(f)
  <2>1. PICK row \in Rows : /\ row.dev = alt_fd_list[f].dev /\ row.acc = alt_fd_list[f].acc
                            /\ row.flags = old \ {"EXCL"}
                            /\ alt_fd_list' = [alt_fd_list EXCEPT ![f] = row]
    <3>1. old \ {"EXCL"} \in SUBSET File!FdFlags
        BY <1>3
    <3>2. alt_fd_list' = [alt_fd_list EXCEPT ![f].flags = old \ {"EXCL"}]
        BY <1>5 DEF File!Unlock
    <3> HIDE DEF old
    <3> QED BY <1>2, <3>1, <3>2, RowIs
  <2>2. done'.call \in File!Called /\ done'.fd \in File!Fd \cup {-1} /\ done'.answer \in File!Answers
      BY <1>2, <1>5, AnswerIs, CalledAre, AnswersAre DEF File!Unlock, File!Requests
  <2>3. "DEV" \in row.flags <=> "DEV" \in alt_fd_list[f].flags
      BY <2>1
  <2>4. "EXCL" \in row.flags => "DEV" \in row.flags
      BY <2>1
  <2> QED BY <1>1, <2>1, <2>2, <2>3, <2>4, FlagsChange
<1>6. CASE File!Lock(f) /\ File!LockRefused(f)
  <2>1. UNCHANGED <<File!lists, File!table>>
      BY <1>1, <1>6 DEF File!Lock, File!table
  <2>2. done'.call \in File!Called /\ done'.fd \in File!Fd \cup {-1} /\ done'.answer \in File!Answers
      BY <1>2, <1>6, AnswerIs, CalledAre, AnswersAre DEF File!Lock, File!Requests
  <2> QED BY <1>1, <2>1, <2>2, TableStays DEF Later
<1>7. CASE File!DriverIoctl(f, req)
  <2>1. UNCHANGED <<File!lists, File!table>>
      BY <1>1, <1>7 DEF File!DriverIoctl, File!table
  <2>2. PICK answer \in File!Answers : File!Answer(req, f, answer)
      BY <1>7, AnswersAre DEF File!DriverIoctl
  <2>3. done'.call \in File!Called /\ done'.fd \in File!Fd \cup {-1} /\ done'.answer \in File!Answers
      BY <1>2, <2>2, AnswerIs, CalledAre
  <2> QED BY <1>1, <2>1, <2>3, TableStays DEF Later
<1> QED BY <1>4, <1>5, <1>6, <1>7 DEF File!Ioctl

LEMMA SetFlKept ==
    ASSUME TableInv, NEW f \in File!Usable, NEW flags \in SUBSET {"NONBLOCK", "EXCL"}, File!SetFl(f, flags)
    PROVE  TableInv'
<1>1. phase = "main" /\ UNCHANGED <<phase, File!lists, alt_max_fd, asked>>
    BY DEF File!SetFl
<1>2. f \in File!Fd /\ FdSound(f)
    BY TypesOf DEF TableInv
<1> DEFINE old == alt_fd_list[f].flags
           new == (old \ File!FCNTL_MASK) \cup (flags \cap File!FCNTL_MASK)
<1>3. old \in SUBSET File!FdFlags
    BY <1>2, RowIs
<1>4. /\ new \in SUBSET File!FdFlags /\ ("DEV" \in new <=> "DEV" \in old)
      /\ ("EXCL" \in new <=> "EXCL" \in old)
    BY <1>3 DEF File!FCNTL_MASK, File!FdFlags
<1>5. alt_fd_list' = [alt_fd_list EXCEPT ![f].flags = new]
    BY DEF File!SetFl
<1> HIDE DEF new
<1>6. PICK row \in Rows : /\ row.dev = alt_fd_list[f].dev /\ row.acc = alt_fd_list[f].acc
                          /\ row.flags = new
                          /\ alt_fd_list' = [alt_fd_list EXCEPT ![f] = row]
    BY <1>2, <1>4, <1>5, RowIs
<1>7. done'.call \in File!Called /\ done'.fd \in File!Fd \cup {-1} /\ done'.answer \in File!Answers
    BY <1>2, AnswerIs, CalledAre, AnswersAre DEF File!SetFl, File!AltCalls
<1>8. "DEV" \in row.flags <=> "DEV" \in alt_fd_list[f].flags
    BY <1>4, <1>6
<1>9. "EXCL" \in row.flags => "DEV" \in row.flags
    BY <1>2, <1>4, <1>6 DEF FdSound
<1> QED BY <1>1, <1>6, <1>7, <1>8, <1>9, FlagsChange

\* The calls that only answer.
LEMMA JustAnswers ==
    ASSUME TableInv, NEW f \in File!Fd \cup {-1}, NEW call \in File!Called, NEW answer \in File!Answers,
           File!Answer(call, f, answer), Later(phase, phase'),
           phase' \in {"sys_init", "stdout", "stdin", "stderr", "main", "exited"},
           UNCHANGED <<File!lists, File!table>>
    PROVE  TableInv'
BY AnswerIs, TableStays

LEMMA OthersKept ==
    ASSUME TableInv, NEW f \in File!Usable,
           File!Read(f) \/ File!Write(f) \/ File!Lseek(f) \/ File!Fstat(f) \/ File!Isatty(f)
    PROVE  TableInv'
<1>1. f \in File!Fd /\ phase = "main"
    BY TypesOf DEF File!Read, File!Write, File!Transfer, File!Lseek, File!Fstat, File!Isatty
<1>2. UNCHANGED <<phase, File!lists, File!table>>
    BY DEF File!Read, File!Write, File!Transfer, File!Lseek, File!Fstat, File!Isatty
<1>3. PICK call \in File!AltCalls, answer \in File!Answers : File!Answer(call, f, answer)
    BY AnswersAre DEF File!AltCalls, File!Read, File!Write, File!Transfer, File!Lseek, File!Fstat, File!Isatty
<1>4. call \in File!Called /\ Later(phase, phase')
    BY <1>1, <1>2, CalledAre DEF Later
<1> QED BY <1>1, <1>2, <1>3, <1>4, JustAnswers

LEMMA NoFdKept ==
    ASSUME TableInv, (\E call \in File!AltCalls : File!BadFd(call))
                     \/ (\E pid \in {"self", "other"}, signal \in File!Signals : File!Kill(pid, signal))
    PROVE  TableInv'
<1>1. phase = "main" /\ UNCHANGED <<File!lists, File!table>> /\ phase' \in {"main", "exited"}
    BY DEF File!BadFd, File!Kill
<1>2. PICK call \in File!Called, answer \in File!Answers : File!Answer(call, -1, answer)
    BY AnswersAre, CalledAre DEF File!BadFd, File!Kill
<1>3. Later(phase, phase')
    BY <1>1 DEF Later
<1> QED BY <1>1, <1>2, <1>3, JustAnswers

LEMMA RedirectKept ==
    ASSUME TableInv, NEW from \in {"stdout", "stdin", "stderr"}, NEW f \in File!Stdio, NEW file,
           NEW acc \in {"RDONLY", "WRONLY"},
           NEW to \in {"stdin", "stderr", "main"}, File!Redirect(from, f, file, acc, to)
    PROVE  TableInv'
<1>1. PICK answer \in File!OpenAnswers(file) :
         /\ alt_max_fd' = IF answer \in {"ENODEV", "EMFILE"} THEN alt_max_fd ELSE File!MarkWith(File!NextFd)
         /\ alt_fd_list' = IF answer = "done"
                           THEN [alt_fd_list EXCEPT ![f] = File!Opened(file, acc, {})]
                           ELSE alt_fd_list
    BY DEF File!Redirect, File!AltOpenFd
<1>2. phase = from /\ phase' = to /\ UNCHANGED <<File!lists, done, asked>>
    BY DEF File!Redirect
<1>3. f \in File!Fd /\ f \in Int /\ f <= 2 /\ FdSound(f)
    BY StdioFds DEF TableInv, File!Stdio
<1>4. /\ alt_fd_list \in [File!Fd -> Rows] /\ asked \in [File!Fd -> Wishes]
      /\ alt_max_fd \in File!Fd \cup {-1} /\ alt_max_fd \in Int
    BY TypesOf
<1>5. done'.call \in File!Called /\ done'.fd \in File!Fd \cup {-1} /\ done'.answer \in File!Answers
    BY <1>2 DEF TableInv, File!TypeOK
<1>6. alt_max_fd <= alt_max_fd' /\ alt_max_fd' \in File!Fd \cup {-1} /\ Later(phase, phase')
      /\ phase' \in {"sys_init", "stdout", "stdin", "stderr", "main", "exited"}
    BY <1>1, <1>2, <1>4, OpenAnswersAre, MarkIs DEF Later
<1>7. asked' = [asked EXCEPT ![f] = asked[f]] /\ asked[f] \in Wishes /\ f \notin File!Held
      /\ alt_fd_list[f] \in Rows
    BY <1>2, <1>3, <1>4 DEF FdSound
<1>8. CASE answer = "done"
  <2>1. File!Device(file) # NoDev /\ File!Free # {} /\ NoDev \notin Devs
      BY <1>8, OpenAnswersAre, FA DEF File!FileAssumption
  <2>2. PICK row \in Rows : /\ row = File!Opened(file, acc, {}) /\ row.dev # NoDev
                            /\ "EXCL" \notin row.flags
                            /\ "DEV" \in row.flags => row.dev \in Devs \ Filesystems
    <3>1. acc \in {"RDONLY", "WRONLY", "RDWR"} /\ {} \in SUBSET {"NONBLOCK", "EXCL"}
        OBVIOUS
    <3> QED BY <2>1, <3>1, OpenedIs
  <2>3. f <= alt_max_fd'
    <3>0. File!NextFd \in File!Fd /\ File!NextFd > 2
        BY <2>1, NextFdIs
    <3>1. PICK next \in Int : next = File!NextFd /\ next > 2
        BY <3>0, StdioFds
    <3>2. PICK k \in Int : k = File!MarkWith(File!NextFd) /\ next <= k
        BY <2>1, <3>1, MarkIs
    <3>3. alt_max_fd' = k
        BY <1>1, <1>8, <3>2
    <3> QED BY <1>3, <3>1, <3>2, <3>3
  <2>4. alt_fd_list' = [alt_fd_list EXCEPT ![f] = row]
      BY <1>1, <1>8, <2>2
  <2>5. ASSUME alt_fd_list'[f] = row, asked'[f] = asked[f] PROVE FdSound(f)'
    <3>1. f \notin File!Held'
        BY <1>7, <2>5 DEF File!Held
    <3> QED BY <2>2, <2>3, <2>5, <3>1 DEF FdSound
  <2> QED BY <1>2, <1>3, <1>5, <1>6, <1>7, <2>4, <2>5, RowChanges
<1>9. CASE answer # "done"
  <2>1. alt_fd_list' = [alt_fd_list EXCEPT ![f] = alt_fd_list[f]]
      BY <1>1, <1>4, <1>9
  <2>2. File!TypeOK' /\ alt_fd_list'[f] = alt_fd_list[f] /\ asked'[f] = asked[f] => FdSound(f)'
      BY <1>3, <1>6, FdStays
  <2> QED BY <1>2, <1>3, <1>5, <1>6, <1>7, <2>1, <2>2, RowChanges
<1> QED BY <1>8, <1>9

LEMMA MainKept == ASSUME TableInv, File!MainReturns PROVE TableInv'
<1>1. PICK answer \in File!Calls(alt_fd_list[File!STDOUT_FILENO].dev, "close") :
         File!AltClose(File!STDOUT_FILENO, answer) /\ File!Answer("close", File!STDOUT_FILENO, answer)
    BY DEF File!MainReturns
<1>2. 1 \in File!Fd /\ "close" \in File!Called /\ answer \in File!Answers
    BY StdioFds, AnswersAre, CalledAre DEF File!AltCalls, File!Stdio
<1>3. alt_fd_list' = alt_fd_list /\ File!Answer("close", 1, answer)
    BY <1>1 DEF File!AltClose, File!Release, File!STDOUT_FILENO
<1>4. UNCHANGED <<File!lists, File!table>> /\ phase = "main" /\ phase' = "exited"
    BY <1>3 DEF File!MainReturns, File!table
<1>5. Later(phase, phase')
    BY <1>4 DEF Later
<1> QED BY <1>2, <1>3, <1>4, <1>5, JustAnswers

LEMMA TableNext == TableInv /\ [File!Next]_File!vars => TableInv'
<1> SUFFICES ASSUME TableInv, [File!Next]_File!vars PROVE TableInv'
    OBVIOUS
<1>1. CASE UNCHANGED File!vars
  <2>1. UNCHANGED <<File!lists, File!table>> /\ UNCHANGED <<phase, done>>
      BY <1>1 DEF File!vars, File!lists, File!table
  <2>2. done'.call \in File!Called /\ done'.fd \in File!Fd \cup {-1} /\ done'.answer \in File!Answers
      BY <2>1 DEF TableInv, File!TypeOK
  <2>3. Later(phase, phase') /\ phase' \in {"sys_init", "stdout", "stdin", "stderr", "main", "exited"}
      BY <2>1, TypesOf DEF Later
  <2> QED BY <2>1, <2>2, <2>3, TableStays
<1>2. ASSUME NEW d \in Devs \ Filesystems, File!DevReg(d) PROVE TableInv'
    BY <1>2, DevRegKept
<1>3. ASSUME NEW d \in Filesystems, d \in Devs, File!FsReg(d) PROVE TableInv'
    BY <1>3, FsRegKept
<1>4. CASE File!SysInitDone
  <2>1. UNCHANGED <<File!lists, File!table>> /\ phase = "sys_init" /\ phase' = "stdout" /\ done' = done
      BY <1>4 DEF File!SysInitDone
  <2>2. done'.call \in File!Called /\ done'.fd \in File!Fd \cup {-1} /\ done'.answer \in File!Answers
      BY <2>1 DEF TableInv, File!TypeOK
  <2>3. Later(phase, phase')
      BY <2>1 DEF Later
  <2> QED BY <2>1, <2>2, <2>3, TableStays
<1>5. CASE File!AltIoRedirect
  <2>1. 0 \in File!Stdio /\ 1 \in File!Stdio /\ 2 \in File!Stdio
      BY DEF File!Stdio
  <2> QED BY <1>5, <2>1, RedirectKept DEF File!AltIoRedirect, File!STDIN_FILENO, File!STDOUT_FILENO, File!STDERR_FILENO
<1>6. CASE File!Call
  <2>1. ASSUME NEW file \in Files, NEW acc \in Accesses, NEW flags \in SUBSET {"NONBLOCK", "EXCL"},
               File!Open(file, acc, flags)
        PROVE  TableInv'
      BY <2>1, OpenKept
  <2>2. ASSUME NEW f \in File!Usable, NEW req \in File!Requests, File!Ioctl(f, req) PROVE TableInv'
      BY <2>2, IoctlKept
  <2>3. ASSUME NEW f \in File!Usable, NEW flags \in SUBSET {"NONBLOCK", "EXCL"}, File!SetFl(f, flags)
        PROVE  TableInv'
      BY <2>3, SetFlKept
  <2>4. ASSUME NEW f \in File!Usable, File!Close(f) PROVE TableInv'
      BY <2>4, CloseKept
  <2>5. ASSUME NEW f \in File!Usable, File!Read(f) \/ File!Write(f) \/ File!Lseek(f) \/ File!Fstat(f) \/ File!Isatty(f)
        PROVE  TableInv'
      BY <2>5, OthersKept
  <2> QED BY <1>6, <2>1, <2>2, <2>3, <2>4, <2>5, NoFdKept DEF File!Call
<1>7. CASE File!MainReturns
    BY <1>7, MainKept
<1>8. CASE File!Exited
    BY <1>1, <1>8 DEF File!Exited
<1>9. Filesystems \subseteq Devs
    BY FA DEF File!FileAssumption
<1> QED BY <1>1, <1>2, <1>3, <1>4, <1>5, <1>6, <1>7, <1>8, <1>9 DEF File!Next

-----------------------------------------------------------------------------
(* Locks and access modes                                                  *)

\* What a step may do to a lock, and what it may read or write.
LockStep ==
    \A f, g \in File!Fd :
       /\ f # g
       /\ "EXCL" \in alt_fd_list[f].flags
       /\ "EXCL" \in alt_fd_list'[f].flags
       /\ alt_fd_list'[g].dev = alt_fd_list[f].dev
       => alt_fd_list[g].dev = alt_fd_list[f].dev

ReadAsked ==
    done'.call = "read" /\ done'.answer \in {"done", "failed"} /\ done'.fd \in File!Held
       => asked[done'.fd] \in {"RDONLY", "RDWR"}
WrittenAsked ==
    done'.call = "write" /\ done'.answer \in {"done", "failed"} /\ done'.fd \in File!Held
       => asked[done'.fd] \in {"WRONLY", "RDWR"}
LockAsked ==
    \A f \in File!Held \cup File!Held' :
       ("EXCL" \in alt_fd_list'[f].flags) # ("EXCL" \in alt_fd_list[f].flags)
          => done'.fd = f /\ done'.call \in {"TIOCEXCL", "TIOCNXCL", "close"}

AllAsked == LockStep /\ ReadAsked /\ WrittenAsked /\ LockAsked

\* A step that leaves the descriptors alone, and reads and writes nothing.
LEMMA TableIdle ==
    ASSUME alt_fd_list' = alt_fd_list, done'.call \notin {"read", "write"} \/ File!Held = {}
    PROVE  AllAsked
BY DEF AllAsked, LockStep, ReadAsked, WrittenAsked, LockAsked

\* A locked descriptor is on a device, below the mark.
LEMMA LockedIs ==
    ASSUME TableInv, NEW f \in File!Fd, "EXCL" \in alt_fd_list[f].flags
    PROVE  /\ f <= alt_max_fd /\ alt_fd_list[f].dev \in Devs \ Filesystems
           /\ alt_fd_list[f].dev # NoDev /\ phase \in {"main", "exited"}
BY FA DEF File!FileAssumption, TableInv, FdSound

\* A descriptor that is opened is not on a device that is locked.
LEMMA OpenAsked ==
    ASSUME TableInv, NEW file \in Files, NEW acc \in Accesses,
           NEW flags \in SUBSET {"NONBLOCK", "EXCL"}, File!Open(file, acc, flags)
    PROVE  AllAsked
<1>1. acc \in {"RDONLY", "WRONLY", "RDWR"} /\ NoDev \notin Devs
    BY FA DEF File!FileAssumption
<1>2. PICK answer \in File!OpenAnswers(file) :
         /\ File!AltOpen(file, acc, flags, answer)
         /\ IF answer = "done"
            THEN File!Answer("open", File!NextFd, "done") /\ asked' = [asked EXCEPT ![File!NextFd] = acc]
            ELSE File!Answer("open", -1, answer) /\ UNCHANGED asked
    BY DEF File!Open
<1>3. done'.call = "open"
    BY <1>2 DEF File!Answer
<1>4. CASE answer \in {"ENODEV", "EMFILE"}
    BY <1>2, <1>3, <1>4, TableIdle DEF File!AltOpen
<1>5. CASE answer \notin {"ENODEV", "EMFILE"}
  <2>1. File!Device(file) # NoDev /\ File!Free # {}
      BY <1>5, OpenAnswersAre
  <2>2. PICK next \in File!Fd : next = File!NextFd /\ next > 2 /\ next \notin File!Held /\ alt_fd_list[next] = File!Released
      BY <2>1, NextFdIs
  <2>3. PICK row \in Rows : /\ row = File!Opened(file, acc, flags) /\ row.dev = File!Device(file)
                            /\ "EXCL" \notin row.flags
      BY <1>1, <2>1, OpenedIs
  <2>4. PICK new \in Rows : /\ alt_fd_list' = [alt_fd_list EXCEPT ![next] = new]
                            /\ "EXCL" \notin new.flags
                            /\ new = File!Released \/ (answer = "done" /\ new.dev = File!Device(file))
    <3>1. CASE answer = "done"
        BY <1>2, <1>5, <2>2, <2>3, <3>1 DEF File!AltOpen
    <3>2. CASE answer # "done"
      <4>1. alt_fd_list' = [[alt_fd_list EXCEPT ![next] = row] EXCEPT ![next] = File!Released]
          BY <1>2, <1>5, <2>2, <2>3, <3>2 DEF File!AltOpen, File!Release
      <4>2. alt_fd_list \in [File!Fd -> Rows]
          BY TypesOf
      <4>3. alt_fd_list' = [alt_fd_list EXCEPT ![next] = File!Released]
          BY <4>1, <4>2
      <4>4. File!Released \in Rows /\ "EXCL" \notin File!Released.flags
          BY ReleasedIs
      <4> QED BY <4>3, <4>4
    <3> QED BY <3>1, <3>2
  <2>5. /\ alt_fd_list'[next] = new
        /\ \A g \in File!Fd \ {next} : alt_fd_list'[g] = alt_fd_list[g]
      BY <2>4, TypesOf
  <2>6. LockAsked
    <3>1. \A g \in File!Fd : ("EXCL" \in alt_fd_list'[g].flags) <=> ("EXCL" \in alt_fd_list[g].flags)
        BY <2>2, <2>4, <2>5, ReleasedIs
    <3>2. File!Held \cup File!Held' \subseteq File!Fd
        BY StdioFds DEF File!Held
    <3> QED BY <3>1, <3>2 DEF LockAsked
  <2>7. LockStep
    <3> SUFFICES ASSUME NEW f \in File!Fd, NEW g \in File!Fd, f # g, "EXCL" \in alt_fd_list[f].flags,
                        alt_fd_list'[g].dev = alt_fd_list[f].dev,
                        alt_fd_list[g].dev # alt_fd_list[f].dev
                 PROVE  FALSE
        BY DEF LockStep
    <3>1. g = next /\ new.dev = alt_fd_list[f].dev
        BY <2>5
    <3>2. /\ f <= alt_max_fd /\ alt_fd_list[f].dev \in Devs \ Filesystems
          /\ alt_fd_list[f].dev # NoDev
        BY LockedIs
    <3>3. answer = "done" /\ File!Device(file) = alt_fd_list[f].dev
        BY <2>4, <3>1, <3>2, ReleasedIs
    <3>4. ~File!IsAFs(file)
        BY <2>1, <3>2, <3>3, DeviceIs
    <3>5. File!AltFileLocked(File!Device(file))
        BY <3>2, <3>3 DEF File!AltFileLocked
    <3> QED BY <3>3, <3>4, <3>5, OpenAnswersAre
  <2> QED BY <1>3, <2>6, <2>7 DEF AllAsked, ReadAsked, WrittenAsked
<1> QED BY <1>4, <1>5

LEMMA CloseAsked == ASSUME TableInv, NEW f \in File!Usable, File!Close(f) PROVE AllAsked
<1>1. alt_fd_list' = File!Release(alt_fd_list, f) /\ done'.call = "close" /\ done'.fd = f
      /\ asked' = [asked EXCEPT ![f] = "none"]
    BY DEF File!Close, File!AltClose, File!Answer
<1>2. f \in File!Fd /\ alt_fd_list \in [File!Fd -> Rows] /\ asked \in [File!Fd -> Wishes]
    BY TypesOf
<1>3. /\ \A g \in File!Fd \ {f} : alt_fd_list'[g] = alt_fd_list[g]
      /\ alt_fd_list'[f] = alt_fd_list[f] \/ alt_fd_list'[f] = File!Released
    BY <1>1, <1>2 DEF File!Release
<1>4. File!Held \cup File!Held' \subseteq File!Fd
    BY DEF File!Held
<1>5. LockAsked
    BY <1>1, <1>3, <1>4 DEF LockAsked
<1>6. LockStep
    BY <1>3, LockedIs, ReleasedIs DEF LockStep
<1> QED BY <1>1, <1>5, <1>6 DEF AllAsked, ReadAsked, WrittenAsked

\* A step that changes the flags of a descriptor.
LEMMA FlagsAsked ==
    ASSUME TableInv, NEW f \in File!Fd, NEW flags, UNCHANGED asked,
           alt_fd_list' = [alt_fd_list EXCEPT ![f].flags = flags],
           done'.call \notin {"read", "write"},
           \/ "EXCL" \in flags <=> "EXCL" \in alt_fd_list[f].flags
           \/ done'.fd = f /\ done'.call \in {"TIOCEXCL", "TIOCNXCL", "close"}
    PROVE  AllAsked
<1>1. alt_fd_list \in [File!Fd -> Rows] /\ alt_fd_list[f] \in Rows
    BY TypesOf
<1>2. /\ \A g \in File!Fd \ {f} : alt_fd_list'[g] = alt_fd_list[g]
      /\ alt_fd_list'[f].dev = alt_fd_list[f].dev /\ alt_fd_list'[f].flags = flags
    BY <1>1 DEF Rows
<1>3. File!Held \cup File!Held' \subseteq File!Fd
    BY DEF File!Held
<1>4. LockStep
    BY <1>2 DEF LockStep
<1>5. LockAsked
    BY <1>2, <1>3 DEF LockAsked
<1> QED BY <1>4, <1>5 DEF AllAsked, ReadAsked, WrittenAsked

LEMMA IoctlAsked ==
    ASSUME TableInv, NEW f \in File!Usable, NEW req \in File!Requests, File!Ioctl(f, req) PROVE AllAsked
<1>1. f \in File!Fd /\ UNCHANGED asked
    BY TypesOf DEF File!Ioctl
<1>2. CASE File!Lock(f) /\ ~File!LockRefused(f)
    BY <1>1, <1>2, FlagsAsked DEF File!Lock, File!Answer
<1>3. CASE File!Unlock(f)
    BY <1>1, <1>3, FlagsAsked DEF File!Unlock, File!Answer
<1>4. CASE File!Lock(f) /\ File!LockRefused(f)
    BY <1>4, TableIdle DEF File!Lock, File!Answer
<1>5. CASE File!DriverIoctl(f, req)
    BY <1>5, TableIdle DEF File!DriverIoctl, File!Answer, File!Requests
<1> QED BY <1>2, <1>3, <1>4, <1>5 DEF File!Ioctl

LEMMA SetFlAsked ==
    ASSUME TableInv, NEW f \in File!Usable, NEW flags \in SUBSET {"NONBLOCK", "EXCL"}, File!SetFl(f, flags)
    PROVE  AllAsked
<1> DEFINE new == (alt_fd_list[f].flags \ File!FCNTL_MASK) \cup (flags \cap File!FCNTL_MASK)
<1>1. f \in File!Fd /\ UNCHANGED asked /\ done'.call \notin {"read", "write"}
    BY TypesOf DEF File!SetFl, File!Answer
<1>2. alt_fd_list' = [alt_fd_list EXCEPT ![f].flags = new]
    BY DEF File!SetFl
<1>3. "EXCL" \in new <=> "EXCL" \in alt_fd_list[f].flags
    BY DEF File!FCNTL_MASK
<1> HIDE DEF new
<1> QED BY <1>1, <1>2, <1>3, FlagsAsked

LEMMA OthersAsked ==
    ASSUME TableInv, NEW f \in File!Usable,
           File!Read(f) \/ File!Write(f) \/ File!Lseek(f) \/ File!Fstat(f) \/ File!Isatty(f)
    PROVE  AllAsked
<1>1. f \in File!Fd /\ FdSound(f) /\ alt_fd_list[f] \in Rows
    BY TypesOf DEF TableInv
<1>2. alt_fd_list' = alt_fd_list /\ asked' = asked /\ done'.fd = f
    BY DEF File!Read, File!Write, File!Transfer, File!Lseek, File!Fstat, File!Isatty, File!table, File!Answer
<1>3. CASE File!Read(f)
  <2>1. done'.answer \in {"done", "failed"} => File!MayRead(f)
      BY <1>3 DEF File!Read, File!Transfer, File!Answer
  <2>2. done'.call = "read"
      BY <1>3 DEF File!Read, File!Transfer, File!Answer
  <2>3. ReadAsked
      BY <1>1, <1>2, <2>1 DEF ReadAsked, File!MayRead, FdSound, Rows
  <2> QED BY <1>2, <2>2, <2>3 DEF AllAsked, LockStep, WrittenAsked, LockAsked
<1>4. CASE File!Write(f)
  <2>1. done'.answer \in {"done", "failed"} => File!MayWrite(f)
      BY <1>4 DEF File!Write, File!Transfer, File!Answer
  <2>2. done'.call = "write"
      BY <1>4 DEF File!Write, File!Transfer, File!Answer
  <2>3. WrittenAsked
      BY <1>1, <1>2, <2>1 DEF WrittenAsked, File!MayWrite, FdSound, Rows
  <2> QED BY <1>2, <2>2, <2>3 DEF AllAsked, LockStep, ReadAsked, LockAsked
<1>5. CASE File!Lseek(f) \/ File!Fstat(f) \/ File!Isatty(f)
    BY <1>2, <1>5, TableIdle DEF File!Lseek, File!Fstat, File!Isatty, File!Answer
<1> QED BY <1>3, <1>4, <1>5

LEMMA TableAsked == TableInv /\ [File!Next]_File!vars => [AllAsked]_File!vars
<1> SUFFICES ASSUME TableInv, File!Next PROVE AllAsked \/ UNCHANGED File!vars
    OBVIOUS
<1>1. ASSUME NEW d \in Devs \ Filesystems, File!DevReg(d) PROVE AllAsked
  <2>1. alt_fd_list' = alt_fd_list /\ done'.call \notin {"read", "write"}
      BY <1>1 DEF File!DevReg, File!Answer, File!table
  <2> QED BY <2>1, TableIdle
<1>2. ASSUME NEW d \in Filesystems, File!FsReg(d) PROVE AllAsked
  <2>1. alt_fd_list' = alt_fd_list /\ done'.call \notin {"read", "write"}
      BY <1>2 DEF File!FsReg, File!Answer, File!table
  <2> QED BY <2>1, TableIdle
<1>3. phase \notin {"main", "exited"} => File!Held = {} /\ \A f \in File!Fd : "EXCL" \notin alt_fd_list[f].flags
  <2>1. File!Held \subseteq File!Fd
      BY TypesOf
  <2> QED BY <2>1 DEF TableInv, FdSound
<1>4. CASE File!SysInitDone
    BY <1>3, <1>4, TableIdle DEF File!SysInitDone, File!table
<1>5. CASE File!AltIoRedirect
  <2>1. phase \notin {"main", "exited"} /\ asked' = asked
      BY <1>5 DEF File!AltIoRedirect, File!Redirect
  <2>2. File!Held = {} /\ File!Held' = {} /\ \A f \in File!Fd : "EXCL" \notin alt_fd_list[f].flags
      BY <1>3, <2>1 DEF File!Held
  <2> QED BY <2>2 DEF AllAsked, LockStep, ReadAsked, WrittenAsked, LockAsked
<1>6. CASE File!Call
  <2>1. ASSUME NEW file \in Files, NEW acc \in Accesses, NEW flags \in SUBSET {"NONBLOCK", "EXCL"},
               File!Open(file, acc, flags)
        PROVE  AllAsked
      BY <2>1, OpenAsked
  <2>2. ASSUME NEW f \in File!Usable, NEW req \in File!Requests, File!Ioctl(f, req) PROVE AllAsked
      BY <2>2, IoctlAsked
  <2>3. ASSUME NEW f \in File!Usable, NEW flags \in SUBSET {"NONBLOCK", "EXCL"}, File!SetFl(f, flags)
        PROVE  AllAsked
      BY <2>3, SetFlAsked
  <2>4. ASSUME NEW f \in File!Usable, File!Close(f) PROVE AllAsked
      BY <2>4, CloseAsked
  <2>5. ASSUME NEW f \in File!Usable, File!Read(f) \/ File!Write(f) \/ File!Lseek(f) \/ File!Fstat(f) \/ File!Isatty(f)
        PROVE  AllAsked
      BY <2>5, OthersAsked
  <2>6. ASSUME NEW call \in File!AltCalls, File!BadFd(call) PROVE AllAsked
    <3>1. alt_fd_list' = alt_fd_list /\ done'.fd = -1
        BY <2>6 DEF File!BadFd, File!Answer, File!table
    <3>2. -1 \notin File!Held
        BY TypesOf, StdioFds
    <3> QED BY <3>1, <3>2 DEF AllAsked, LockStep, ReadAsked, WrittenAsked, LockAsked
  <2>7. ASSUME NEW pid \in {"self", "other"}, NEW signal \in File!Signals, File!Kill(pid, signal)
        PROVE  AllAsked
    <3>1. alt_fd_list' = alt_fd_list /\ done'.call = "kill"
        BY <2>7 DEF File!Kill, File!Answer, File!table
    <3> QED BY <3>1, TableIdle
  <2> QED BY <1>6, <2>1, <2>2, <2>3, <2>4, <2>5, <2>6, <2>7 DEF File!Call
<1>7. CASE File!MainReturns
  <2>1. alt_fd_list' = alt_fd_list /\ done'.call = "close"
      BY <1>7 DEF File!MainReturns, File!AltClose, File!Release, File!STDOUT_FILENO, File!Answer
  <2> QED BY <2>1, TableIdle
<1> QED BY <1>1, <1>2, <1>4, <1>5, <1>6, <1>7 DEF File!Next, File!Exited

LEMMA TableActs ==
    /\ MCInit => File!Init
    /\ [MCNext]_<<layer, vars, tableVars, shared>> => [File!Next]_File!vars
<1>1. MCInit => File!Init
    BY DEF MCInit
<1>2. UNCHANGED tableVars => UNCHANGED File!vars
    BY DEF tableVars, File!vars
<1>3. MCNext => File!Next \/ UNCHANGED tableVars
    BY DEF MCNext, DriverStep, TableStep, SharedStep
<1> QED BY <1>1, <1>2, <1>3

\* No descriptor leaks or is handed out twice, a locked device is opened by nobody else,
\* and a descriptor is used as it was opened (alt_open.c:79-163, alt_release_fd.c:48,
\* alt_fcntl.c:89), whatever the devices, their names and callbacks and the size of the
\* table.
THEOREM TableKept == MCSpec => DescriptorsKept
<1>1. MCSpec => File!Init /\ [][File!Next]_File!vars
    BY TableActs, PTL DEF MCSpec
<1>2. File!Init /\ [][File!Next]_File!vars => []TableInv
    BY TableInit, TableNext, PTL
<1>3. TableInv => File!TableSound
    BY InvSound
<1>4. TableInv /\ [File!Next]_File!vars =>
         [LockStep]_File!vars /\ [ReadAsked /\ WrittenAsked /\ LockAsked]_File!vars
    BY TableAsked DEF AllAsked
<1> QED BY <1>1, <1>2, <1>3, <1>4, PTL
        DEF DescriptorsKept, File!LockHolds, File!AccessAsOpened,
            LockStep, ReadAsked, WrittenAsked, LockAsked

-----------------------------------------------------------------------------
(* The layers of LayerProofs                                               *)

\* A layer the behaviour is not about does not step.
LEMMA LayerSteps ==
    ASSUME [MCNext]_<<layer, vars, tableVars, shared>>
    PROVE  /\ layer' = layer
           /\ layer = "exception" => Exc!Next \/ UNCHANGED shared
           /\ layer = "stamp" => Stamp!Next \/ UNCHANGED shared
           /\ layer = "sleep" => Sleep!Next \/ UNCHANGED shared
           /\ layer = "memory" => Memory!Next \/ UNCHANGED shared
           /\ layer = "start" => Boot!Next \/ UNCHANGED shared
           /\ layer = "profiler" => Prof!Next \/ UNCHANGED shared
           /\ layer = "printf" => Output!Next \/ UNCHANGED shared
BY DEF MCNext, DriverStep, TableStep, SharedStep

LEMMA ExcAssumed == L!Exc!ExceptionAssumption
BY LayersAssumption
    DEF Exc!ExceptionAssumption, L!Exc!ExceptionAssumption, Exc!INTERRUPT, L!Exc!INTERRUPT

LEMMA ExcInitSame == Exc!Init => L!Exc!Init
BY DEF
    Exc!program, L!Exc!program, Exc!NOT_PRESENT, L!Exc!NOT_PRESENT, Exc!INTERRUPT,
    L!Exc!INTERRUPT, Exc!Instructions, L!Exc!Instructions, Exc!Nobody, L!Exc!Nobody,
    Exc!Init, L!Exc!Init

LEMMA ExcNextSame == Exc!Next => L!Exc!Next
BY DEF
    Exc!program, L!Exc!program, Exc!processor, L!Exc!processor, Exc!NOT_PRESENT,
    L!Exc!NOT_PRESENT, Exc!INTERRUPT, L!Exc!INTERRUPT, Exc!MISALIGNED_DATA_ADDR,
    L!Exc!MISALIGNED_DATA_ADDR, Exc!MISALIGNED_TARGET_PC, L!Exc!MISALIGNED_TARGET_PC,
    Exc!SUPERVISOR_ONLY_DATA_ADDR, L!Exc!SUPERVISOR_ONLY_DATA_ADDR,
    Exc!TLB_READ_PERM_VIOLATION, L!Exc!TLB_READ_PERM_VIOLATION,
    Exc!TLB_WRITE_PERM_VIOLATION, L!Exc!TLB_WRITE_PERM_VIOLATION,
    Exc!MPU_DATA_REGION_VIOLATION, L!Exc!MPU_DATA_REGION_VIOLATION, Exc!ECC_DATA_ERR,
    L!Exc!ECC_DATA_ERR, Exc!GeneratedBadAddr, L!Exc!GeneratedBadAddr, Exc!HasAddress,
    L!Exc!HasAddress, Exc!Nobody, L!Exc!Nobody, Exc!Execute, L!Exc!Execute, Exc!Take,
    L!Exc!Take, Exc!Fault, L!Exc!Fault, Exc!Interrupt, L!Exc!Interrupt, Exc!Request,
    L!Exc!Request, Exc!Disable, L!Exc!Disable, Exc!alt_instruction_exception_register,
    L!Exc!alt_instruction_exception_register, Exc!Goes, L!Exc!Goes, Exc!Entry, L!Exc!Entry,
    Exc!Test, L!Exc!Test, Exc!IrqHandler, L!Exc!IrqHandler, Exc!NotIrq, L!Exc!NotIrq,
    Exc!Skip, L!Exc!Skip, Exc!Reissue, L!Exc!Reissue, Exc!Exit, L!Exc!Exit, Exc!Next,
    L!Exc!Next

LEMMA ExcSame == L!Exc!ExceptionsSound => Exc!ExceptionsSound
BY DEF
    Exc!program, L!Exc!program, Exc!NOT_PRESENT, L!Exc!NOT_PRESENT, Exc!INTERRUPT,
    L!Exc!INTERRUPT, Exc!Instructions, L!Exc!Instructions, Exc!Nobody, L!Exc!Nobody,
    Exc!TypeOK, L!Exc!TypeOK, Exc!InstructionsKept, L!Exc!InstructionsKept, Exc!HandlerTold,
    L!Exc!HandlerTold, Exc!ExceptionsSound, L!Exc!ExceptionsSound

ExcLayer == layer = "exception" => L!ExcInv

LEMMA ExcKeeps == ExcLayer /\ [MCNext]_<<layer, vars, tableVars, shared>> => ExcLayer'
<1> SUFFICES ASSUME [MCNext]_<<layer, vars, tableVars, shared>>, layer = "exception", L!ExcInv
             PROVE  L!ExcInv'
    BY LayerSteps DEF ExcLayer
<1>1. CASE Exc!Next
  <2>1. L!Exc!Next
      BY <1>1, ExcNextSame
  <2> QED BY <2>1, ExcAssumed, L!ExcNext
<1>2. CASE UNCHANGED shared
  <2>1. UNCHANGED L!Exc!vars
      BY <1>2 DEF shared, After4, L!Exc!program, L!Exc!processor, L!Exc!vars
  <2> QED BY <2>1, ExcAssumed, L!ExcNext
<1> QED BY <1>1, <1>2, LayerSteps

LEMMA StampAssumed == L!Stamp!TimestampAssumption
BY LayersAssumption
    DEF Stamp!TimestampAssumption, L!Stamp!TimestampAssumption

LEMMA StampInitSame == Stamp!Init => L!Stamp!Init
BY DEF Stamp!NoResult, L!Stamp!NoResult, Stamp!Init, L!Stamp!Init

LEMMA StampNextSame == Stamp!Next => L!Stamp!Next
BY DEF
    Stamp!Full, L!Stamp!Full, Stamp!timer, L!Stamp!timer, Stamp!NoResult, L!Stamp!NoResult,
    Stamp!Tick, L!Stamp!Tick, Stamp!SetPeriod, L!Stamp!SetPeriod, Stamp!Control,
    L!Stamp!Control, Stamp!At, L!Stamp!At, Stamp!Refuse, L!Stamp!Refuse, Stamp!Stop,
    L!Stamp!Stop, Stamp!PeriodLow, L!Stamp!PeriodLow, Stamp!PeriodHigh, L!Stamp!PeriodHigh,
    Stamp!Start, L!Stamp!Start, Stamp!Started, L!Stamp!Started, Stamp!Snapshot,
    L!Stamp!Snapshot, Stamp!ReadLow, L!Stamp!ReadLow, Stamp!ReadHigh, L!Stamp!ReadHigh,
    Stamp!Next, L!Stamp!Next

LEMMA StampSame == L!Stamp!TypeOK /\ L!Stamp!TimestampSound => Stamp!TypeOK /\ Stamp!TimestampSound
BY DEF
    Stamp!Full, L!Stamp!Full, Stamp!TypeOK, L!Stamp!TypeOK, Stamp!TimestampSound,
    L!Stamp!TimestampSound

StampLayer == layer = "stamp" => L!StampInv

LEMMA StampKeeps == StampLayer /\ [MCNext]_<<layer, vars, tableVars, shared>> => StampLayer'
<1> SUFFICES ASSUME [MCNext]_<<layer, vars, tableVars, shared>>, layer = "stamp", L!StampInv
             PROVE  L!StampInv'
    BY LayerSteps DEF StampLayer
<1>1. CASE Stamp!Next
  <2>1. L!Stamp!Next
      BY <1>1, StampNextSame
  <2> QED BY <2>1, StampAssumed, L!StampNext
<1>2. CASE UNCHANGED shared
  <2>1. UNCHANGED L!Stamp!vars
      BY <1>2 DEF shared, After4, L!Stamp!timer, L!Stamp!vars
  <2> QED BY <2>1, StampAssumed, L!StampNext
<1> QED BY <1>1, <1>2, LayerSteps

LEMMA SleepAssumed == L!Sleep!BusyAssumption
BY LayersAssumption
    DEF Sleep!BusyAssumption, L!Sleep!BusyAssumption

LEMMA SleepInitSame == Sleep!Init => L!Sleep!Init
BY DEF Sleep!Init, L!Sleep!Init

LEMMA SleepNextSame == Sleep!Next => L!Sleep!Next
BY DEF
    Sleep!MaxInt, L!Sleep!MaxInt, Sleep!UsPerBigLoop, L!Sleep!UsPerBigLoop, Sleep!Turns,
    L!Sleep!Turns, Sleep!ShortTurns, L!Sleep!ShortTurns, Sleep!Sleep, L!Sleep!Sleep,
    Sleep!BigLoop, L!Sleep!BigLoop, Sleep!Rest, L!Sleep!Rest, Sleep!Next, L!Sleep!Next

LEMMA SleepSame == L!Sleep!TypeOK /\ L!Sleep!DelaySound => Sleep!TypeOK /\ Sleep!DelaySound
BY DEF
    Sleep!MaxInt, L!Sleep!MaxInt, Sleep!UsPerBigLoop, L!Sleep!UsPerBigLoop, Sleep!TypeOK,
    L!Sleep!TypeOK, Sleep!DelaySound, L!Sleep!DelaySound

SleepLayer == layer = "sleep" => L!SleepInv

LEMMA SleepKeeps == SleepLayer /\ [MCNext]_<<layer, vars, tableVars, shared>> => SleepLayer'
<1> SUFFICES ASSUME [MCNext]_<<layer, vars, tableVars, shared>>, layer = "sleep", L!SleepInv
             PROVE  L!SleepInv'
    BY LayerSteps DEF SleepLayer
<1>1. CASE Sleep!Next
  <2>1. L!Sleep!Next
      BY <1>1, SleepNextSame
  <2> QED BY <2>1, SleepAssumed, L!SleepNext
<1>2. CASE UNCHANGED shared
  <2>1. UNCHANGED L!Sleep!vars
      BY <1>2 DEF shared, After4, L!Sleep!vars
  <2> QED BY <2>1, SleepAssumed, L!SleepNext
<1> QED BY <1>1, <1>2, LayerSteps

\* The two layers are those the layers' proofs are about, under the assumptions they make.
LEMMA MemoryAssumed == K!MemoryFits
BY LayersAssumption
    DEF K!MemoryFits, Memory!MemoryAssumption, K!Mem!MemoryAssumption,
        Memory!Cache!CacheAssumption, K!Mem!Cache!CacheAssumption

LEMMA MemoryInitSame == Memory!Init => K!Mem!Init
BY DEF
    Memory!NotStored, K!Mem!NotStored, Memory!Cache!Cold, K!Mem!Cache!Cold, Memory!Init,
    K!Mem!Init

\* The caches of the blocks' memory are those the proofs are about, operation by operation.
LEMMA MemoryCacheSame ==
    ASSUME NEW m, NEW a, NEW v, NEW len
    PROVE  /\ Memory!Cache!Load(m, a) = K!Mem!Cache!Load(m, a)
           /\ Memory!Cache!Store(m, a, v) = K!Mem!Cache!Store(m, a, v)
           /\ Memory!Cache!StoreIO(m, a, v) = K!Mem!Cache!StoreIO(m, a, v)
           /\ Memory!Cache!alt_dcache_flush(m, a, len) = K!Mem!Cache!alt_dcache_flush(m, a, len)
           /\ Memory!Cache!alt_dcache_flush_no_writeback(m, a, len) =
                  K!Mem!Cache!alt_dcache_flush_no_writeback(m, a, len)
<1>1. Memory!Cache!Load(m, a) = K!Mem!Cache!Load(m, a)
    BY DEF
        Memory!Cache!LineOf, K!Mem!Cache!LineOf, Memory!Cache!WordsOf, K!Mem!Cache!WordsOf,
        Memory!Cache!Held, K!Mem!Cache!Held, Memory!Cache!WriteBack, K!Mem!Cache!WriteBack,
        Memory!Cache!Enter, K!Mem!Cache!Enter, Memory!Cache!Load, K!Mem!Cache!Load
<1>2. Memory!Cache!Store(m, a, v) = K!Mem!Cache!Store(m, a, v)
    BY DEF
        Memory!Cache!LineOf, K!Mem!Cache!LineOf, Memory!Cache!WordsOf, K!Mem!Cache!WordsOf,
        Memory!Cache!Held, K!Mem!Cache!Held, Memory!Cache!WriteBack, K!Mem!Cache!WriteBack,
        Memory!Cache!Enter, K!Mem!Cache!Enter, Memory!Cache!Store, K!Mem!Cache!Store
<1>3. Memory!Cache!StoreIO(m, a, v) = K!Mem!Cache!StoreIO(m, a, v)
    BY DEF Memory!Cache!StoreIO, K!Mem!Cache!StoreIO
<1>4. Memory!Cache!alt_dcache_flush(m, a, len) = K!Mem!Cache!alt_dcache_flush(m, a, len)
    BY DEF
        Memory!Cache!LineOf, K!Mem!Cache!LineOf, Memory!Cache!WriteBack, K!Mem!Cache!WriteBack,
        Memory!Cache!Restrict, K!Mem!Cache!Restrict, Memory!Cache!Drop, K!Mem!Cache!Drop,
        Memory!Cache!Flush, K!Mem!Cache!Flush, Memory!Cache!Steps, K!Mem!Cache!Steps,
        Memory!Cache!LinesFlushed, K!Mem!Cache!LinesFlushed, Memory!Cache!alt_dcache_flush,
        K!Mem!Cache!alt_dcache_flush
<1>5. Memory!Cache!alt_dcache_flush_no_writeback(m, a, len) =
        K!Mem!Cache!alt_dcache_flush_no_writeback(m, a, len)
    BY DEF
        Memory!Cache!LineOf, K!Mem!Cache!LineOf, Memory!Cache!Restrict, K!Mem!Cache!Restrict,
        Memory!Cache!Drop, K!Mem!Cache!Drop, Memory!Cache!Steps, K!Mem!Cache!Steps,
        Memory!Cache!LinesFlushed, K!Mem!Cache!LinesFlushed,
        Memory!Cache!alt_dcache_flush_no_writeback, K!Mem!Cache!alt_dcache_flush_no_writeback
<1> QED BY <1>1, <1>2, <1>3, <1>4, <1>5

LEMMA MemoryNextSame == Memory!Next => K!Mem!Next
<1>1. ASSUME NEW start, NEW size, Memory!Allocate(start, size)
      PROVE  K!Mem!Allocate(start, size)
  <2>1. Memory!Malloc(start, size) => K!Mem!Malloc(start, size)
      BY DEF
          Memory!NotStored, K!Mem!NotStored, Memory!Words, K!Mem!Words, Memory!Room, K!Mem!Room,
          Memory!Forget, K!Mem!Forget, Memory!Free, K!Mem!Free, Memory!Malloc, K!Mem!Malloc
  <2>2. Memory!alt_uncached_malloc(start, size) => K!Mem!alt_uncached_malloc(start, size)
      BY MemoryCacheSame DEF
          Memory!NotStored, K!Mem!NotStored, Memory!Words, K!Mem!Words, Memory!Room, K!Mem!Room,
          Memory!Forget, K!Mem!Forget, Memory!Free, K!Mem!Free, Memory!aligned_size,
          K!Mem!aligned_size, Memory!alt_uncached_malloc, K!Mem!alt_uncached_malloc
  <2> QED BY <1>1, <2>1, <2>2
      DEF Memory!Allocate, K!Mem!Allocate, Memory!Cardinality, K!Mem!Cardinality
<1>2. ASSUME NEW b, NEW a, NEW v
      PROVE  /\ Memory!Release(b) => K!Mem!Release(b)
             /\ Memory!alt_remap_cached(b) => K!Mem!alt_remap_cached(b)
             /\ Memory!WriteOut(b) => K!Mem!WriteOut(b)
             /\ Memory!Discard(b) => K!Mem!Discard(b)
             /\ Memory!Read(b, a) => K!Mem!Read(b, a)
             /\ Memory!Write(b, a, v) => K!Mem!Write(b, a, v)
  <2>1. Memory!Release(b) => K!Mem!Release(b)
      BY MemoryCacheSame DEF
          Memory!NotStored, K!Mem!NotStored, Memory!Words, K!Mem!Words, Memory!Room, K!Mem!Room,
          Memory!Forget, K!Mem!Forget, Memory!Release, K!Mem!Release
  <2>2. Memory!alt_remap_cached(b) => K!Mem!alt_remap_cached(b)
      BY MemoryCacheSame DEF Memory!alt_remap_cached, K!Mem!alt_remap_cached
  <2>3. Memory!WriteOut(b) => K!Mem!WriteOut(b)
      BY MemoryCacheSame DEF Memory!WriteOut, K!Mem!WriteOut
  <2>4. Memory!Discard(b) => K!Mem!Discard(b)
      BY MemoryCacheSame DEF
          Memory!NotStored, K!Mem!NotStored, Memory!Words, K!Mem!Words, Memory!Used, K!Mem!Used,
          Memory!Forget, K!Mem!Forget, Memory!WholeLines, K!Mem!WholeLines, Memory!Discard,
          K!Mem!Discard
  <2>5. Memory!Read(b, a) => K!Mem!Read(b, a)
      BY MemoryCacheSame DEF Memory!Read, K!Mem!Read
  <2>6. Memory!Write(b, a, v) => K!Mem!Write(b, a, v)
      BY MemoryCacheSame DEF Memory!Write, K!Mem!Write
  <2> QED BY <2>1, <2>2, <2>3, <2>4, <2>5, <2>6
<1>3. \A b : Memory!Used(b) = K!Mem!Used(b)
    BY DEF Memory!Words, K!Mem!Words, Memory!Used, K!Mem!Used
<1> QED BY <1>1, <1>2, <1>3 DEF Memory!Next, K!Mem!Next

LEMMA MemorySame ==
    K!Mem!TypeOK /\ K!Mem!LastStored /\ K!Mem!FlushReaches =>
        Memory!TypeOK /\ Memory!LastStored /\ Memory!FlushReaches
BY DEF
    Memory!Cache!LineOf, K!Mem!Cache!LineOf, Memory!Cache!WordsOf, K!Mem!Cache!WordsOf,
    Memory!Cache!Lines, K!Mem!Cache!Lines, Memory!Cache!IsMachine, K!Mem!Cache!IsMachine,
    Memory!Cache!Held, K!Mem!Cache!Held, Memory!Cache!View, K!Mem!Cache!View,
    Memory!Cache!WriteBack, K!Mem!Cache!WriteBack, Memory!Cache!Restrict,
    K!Mem!Cache!Restrict, Memory!Cache!Drop, K!Mem!Cache!Drop, Memory!Cache!Flush,
    K!Mem!Cache!Flush, Memory!Cache!Steps, K!Mem!Cache!Steps, Memory!Cache!LinesFlushed,
    K!Mem!Cache!LinesFlushed, Memory!Cache!alt_dcache_flush, K!Mem!Cache!alt_dcache_flush,
    Memory!NotStored, K!Mem!NotStored, Memory!Words, K!Mem!Words, Memory!Used, K!Mem!Used,
    Memory!Block, K!Mem!Block, Memory!TypeOK, K!Mem!TypeOK, Memory!LastStored,
    K!Mem!LastStored, Memory!FlushReaches, K!Mem!FlushReaches

MemoryLayer == layer = "memory" => K!MemInv

LEMMA MemoryKeeps == MemoryLayer /\ [MCNext]_<<layer, vars, tableVars, shared>> => MemoryLayer'
<1> SUFFICES ASSUME [MCNext]_<<layer, vars, tableVars, shared>>, layer = "memory", K!MemInv
             PROVE  K!MemInv'
    BY LayerSteps DEF MemoryLayer
<1>1. CASE Memory!Next
  <2>1. K!Mem!Next
      BY <1>1, MemoryNextSame
  <2> QED BY <2>1, MemoryAssumed, K!MemNext
<1>2. CASE UNCHANGED shared
  <2>1. v1' = v1 /\ v2' = v2 /\ v3' = v3 /\ v4' = v4
      BY <1>2 DEF shared
  <2> QED BY <2>1, K!MemUnchanged
<1> QED BY <1>1, <1>2, LayerSteps

LEMMA BootAssumed == L!Boot!StartupAssumption
BY LayersAssumption
    DEF Boot!StartupAssumption, L!Boot!StartupAssumption, Boot!Cache!CacheAssumption,
        L!Boot!Cache!CacheAssumption, Boot!Addresses, L!Boot!Addresses, Boot!Zero,
        L!Boot!Zero, Boot!Image, L!Boot!Image, Boot!Junk, L!Boot!Junk, Boot!Source,
        L!Boot!Source, Boot!Target, L!Boot!Target, Boot!Bss, L!Boot!Bss, Boot!Loaded,
        L!Boot!Loaded, Boot!InPlace, L!Boot!InPlace, Boot!Variables, L!Boot!Variables,
        Boot!Cache!LineOf, L!Boot!Cache!LineOf

LEMMA BootInitSame == Boot!Init => L!Boot!Init
BY DEF
    Boot!Addresses, L!Boot!Addresses, Boot!Image, L!Boot!Image, Boot!Junk, L!Boot!Junk,
    Boot!Source, L!Boot!Source, Boot!PowerUp, L!Boot!PowerUp, Boot!ByChance, L!Boot!ByChance,
    Boot!JunkWords, L!Boot!JunkWords, Boot!Cache!LineOf, L!Boot!Cache!LineOf,
    Boot!Cache!Lines, L!Boot!Cache!Lines, Boot!Cache!WordsOf, L!Boot!Cache!WordsOf, Boot!Init,
    L!Boot!Init

LEMMA BootNextSame == Boot!Next => L!Boot!Next
BY DEF
    Boot!Addresses, L!Boot!Addresses, Boot!Zero, L!Boot!Zero, Boot!Image, L!Boot!Image,
    Boot!Junk, L!Boot!Junk, Boot!Source, L!Boot!Source, Boot!Target, L!Boot!Target, Boot!Bss,
    L!Boot!Bss, Boot!Loaded, L!Boot!Loaded, Boot!InPlace, L!Boot!InPlace, Boot!Variables,
    L!Boot!Variables, Boot!Cache!LineOf, L!Boot!Cache!LineOf, Boot!Cache!WordsOf,
    L!Boot!Cache!WordsOf, Boot!Cache!Held, L!Boot!Cache!Held, Boot!Cache!View,
    L!Boot!Cache!View, Boot!Cache!WriteBack, L!Boot!Cache!WriteBack, Boot!Cache!Enter,
    L!Boot!Cache!Enter, Boot!Cache!Load, L!Boot!Cache!Load, Boot!Cache!Store,
    L!Boot!Cache!Store, Boot!Cache!Fetched, L!Boot!Cache!Fetched, Boot!Cache!Fetch,
    L!Boot!Cache!Fetch, Boot!Cache!Restrict, L!Boot!Cache!Restrict, Boot!Cache!Drop,
    L!Boot!Cache!Drop, Boot!Cache!Flush, L!Boot!Cache!Flush, Boot!Cache!InPlaces,
    L!Boot!Cache!InPlaces, Boot!Cache!Steps, L!Boot!Cache!Steps, Boot!Cache!LinesFlushed,
    L!Boot!Cache!LinesFlushed, Boot!Cache!alt_dcache_flush_all,
    L!Boot!Cache!alt_dcache_flush_all, Boot!Cache!alt_icache_flush,
    L!Boot!Cache!alt_icache_flush, Boot!Cache!alt_icache_flush_all,
    L!Boot!Cache!alt_icache_flush_all, Boot!Reset, L!Boot!Reset, Boot!PlacesInitialised,
    L!Boot!PlacesInitialised, Boot!InitICache, L!Boot!InitICache, Boot!InitDCache,
    L!Boot!InitDCache, Boot!ClearBss, L!Boot!ClearBss, Boot!BssCleared, L!Boot!BssCleared,
    Boot!alt_load_section, L!Boot!alt_load_section, Boot!AllLoaded, L!Boot!AllLoaded,
    Boot!FlushData, L!Boot!FlushData, Boot!FlushCode, L!Boot!FlushCode, Boot!Change,
    L!Boot!Change, Boot!alt_irq_init, L!Boot!alt_irq_init, Boot!InitDevice, L!Boot!InitDevice,
    Boot!DevicesDone, L!Boot!DevicesDone, Boot!alt_io_redirect, L!Boot!alt_io_redirect,
    Boot!Program, L!Boot!Program, Boot!Return, L!Boot!Return, Boot!Interrupt,
    L!Boot!Interrupt, Boot!FoldSet, L!Boot!FoldSet, Boot!MapThenFoldSet,
    L!Boot!MapThenFoldSet, Boot!Next, L!Boot!Next

LEMMA BootSame == L!Boot!TypeOK /\ L!Boot!Started => Boot!TypeOK /\ Boot!Started
BY DEF
    Boot!Addresses, L!Boot!Addresses, Boot!Zero, L!Boot!Zero, Boot!Image, L!Boot!Image,
    Boot!Junk, L!Boot!Junk, Boot!Source, L!Boot!Source, Boot!Target, L!Boot!Target, Boot!Bss,
    L!Boot!Bss, Boot!Loaded, L!Boot!Loaded, Boot!InPlace, L!Boot!InPlace, Boot!Variables,
    L!Boot!Variables, Boot!Cache!LineOf, L!Boot!Cache!LineOf, Boot!Cache!WordsOf,
    L!Boot!Cache!WordsOf, Boot!Cache!Lines, L!Boot!Cache!Lines, Boot!Cache!IsMachine,
    L!Boot!Cache!IsMachine, Boot!Cache!Held, L!Boot!Cache!Held, Boot!Cache!View,
    L!Boot!Cache!View, Boot!Cache!Fetched, L!Boot!Cache!Fetched, Boot!Initial, L!Boot!Initial,
    Boot!Steps, L!Boot!Steps, Boot!TypeOK, L!Boot!TypeOK, Boot!Started, L!Boot!Started

BootLayer == layer = "start" => L!BootInv

LEMMA BootKeeps == BootLayer /\ [MCNext]_<<layer, vars, tableVars, shared>> => BootLayer'
<1> SUFFICES ASSUME [MCNext]_<<layer, vars, tableVars, shared>>, layer = "start", L!BootInv
             PROVE  L!BootInv'
    BY LayerSteps DEF BootLayer
<1>1. CASE Boot!Next
  <2>1. L!Boot!Next
      BY <1>1, BootNextSame
  <2> QED BY <2>1, BootAssumed, L!BootNext
<1>2. CASE UNCHANGED shared
  <2>1. v1' = v1 /\ v2' = v2 /\ v3' = v3 /\ v4' = v4 /\ v5' = v5 /\ v6' = v6 /\ v7' = v7
      BY <1>2 DEF shared, After4
  <2> QED BY <2>1, L!BootUnchanged
<1> QED BY <1>1, <1>2, LayerSteps

\* What the program stored in a block is what it finds there, what it flushes is in
\* memory, and what it finds at main is what its image gives it, whatever the caches held
\* (alt_uncached_malloc.c:51-64, alt_dcache_flush.c:53-67, alt_load.c:97-98), for every
\* size of the caches and of memory, every set of block sizes and every layout of the
\* sections that keeps them apart.
THEOREM CachesKept == MCSpec => []CachesSound
<1>1. MCInit => MemoryLayer
    BY MemoryInitSame, MemoryAssumed, K!MemInit DEF MCInit, MemoryLayer
<1>2. MCInit => BootLayer
    BY BootInitSame, BootAssumed, L!BootInit DEF MCInit, BootLayer
<1>3. K!MemInv => Memory!TypeOK /\ Memory!LastStored /\ Memory!FlushReaches
    BY MemorySame, MemoryAssumed, K!MemSound
<1>4. L!BootInv => Boot!TypeOK /\ Boot!Started
    BY BootSame, BootAssumed, L!BootSound
<1>5. MemoryLayer /\ BootLayer => CachesSound
    BY <1>3, <1>4 DEF MemoryLayer, BootLayer, CachesSound
<1> QED BY <1>1, <1>2, <1>5, MemoryKeeps, BootKeeps, PTL DEF MCSpec

\* What the profiler's records and its sampler keep.
LEMMA ProfAssumed == L!Prof!ProfilerAssumption
BY LayersAssumption DEF Prof!ProfilerAssumption, L!Prof!ProfilerAssumption

LEMMA ProfInitSame == Prof!Init => L!Prof!Init
BY DEF
    Prof!None, L!Prof!None, Prof!Contexts, L!Prof!Contexts, Prof!Arcs, L!Prof!Arcs, Prof!Idle,
    L!Prof!Idle, Prof!Init, L!Prof!Init

LEMMA ProfNextSame == Prof!Next => L!Prof!Next
<1>1. ASSUME NEW c, NEW x, Prof!Enter(c, x) PROVE L!Prof!Enter(c, x)
    BY <1>1 DEF
        Prof!Idle, L!Prof!Idle, Prof!None, L!Prof!None, Prof!Arcs, L!Prof!Arcs, Prof!SumOver,
        L!Prof!SumOver, Prof!MapThenSumSet, L!Prof!MapThenSumSet, Prof!MapThenFoldSet,
        L!Prof!MapThenFoldSet, Prof!Runs, L!Prof!Runs, Prof!At, L!Prof!At, Prof!Enter,
        L!Prof!Enter, Prof!memory, L!Prof!memory, Prof!lists, L!Prof!lists, Prof!sampler,
        L!Prof!sampler
<1>2. ASSUME NEW c
      PROVE  /\ Prof!FindFunction(c) => L!Prof!FindFunction(c)
             /\ Prof!FindArc(c) => L!Prof!FindArc(c)
             /\ Prof!Load(c) => L!Prof!Load(c)
             /\ Prof!Store(c) => L!Prof!Store(c)
             /\ Prof!Ask(c) => L!Prof!Ask(c)
             /\ Prof!Clear(c) => L!Prof!Clear(c)
             /\ Prof!nios2_pcsample_init(c) => L!Prof!nios2_pcsample_init(c)
             /\ Prof!Answer(c) => L!Prof!Answer(c)
             /\ Prof!Record(c) => L!Prof!Record(c)
  <2>1. Prof!FindFunction(c) => L!Prof!FindFunction(c)
      BY DEF
          Prof!None, L!Prof!None, Prof!Min, L!Prof!Min, Prof!FirstIn, L!Prof!FirstIn, Prof!Runs,
          L!Prof!Runs, Prof!At, L!Prof!At, Prof!FindFunction, L!Prof!FindFunction, Prof!memory,
          L!Prof!memory, Prof!lists, L!Prof!lists, Prof!sampler, L!Prof!sampler
  <2>2. Prof!FindArc(c) => L!Prof!FindArc(c)
      BY DEF
          Prof!None, L!Prof!None, Prof!Min, L!Prof!Min, Prof!FirstIn, L!Prof!FirstIn, Prof!Runs,
          L!Prof!Runs, Prof!At, L!Prof!At, Prof!FindArc, L!Prof!FindArc, Prof!memory,
          L!Prof!memory, Prof!lists, L!Prof!lists, Prof!sampler, L!Prof!sampler
  <2>3. Prof!Load(c) => L!Prof!Load(c)
      BY DEF
          Prof!Runs, L!Prof!Runs, Prof!At, L!Prof!At, Prof!Load, L!Prof!Load, Prof!memory,
          L!Prof!memory, Prof!lists, L!Prof!lists, Prof!sampler, L!Prof!sampler
  <2>4. Prof!Store(c) => L!Prof!Store(c)
      BY DEF
          Prof!Idle, L!Prof!Idle, Prof!None, L!Prof!None, Prof!Runs, L!Prof!Runs, Prof!At,
          L!Prof!At, Prof!Ends, L!Prof!Ends, Prof!Store, L!Prof!Store, Prof!memory, L!Prof!memory,
          Prof!lists, L!Prof!lists, Prof!sampler, L!Prof!sampler
  <2>5. Prof!Ask(c) => L!Prof!Ask(c)
      BY DEF
          Prof!Runs, L!Prof!Runs, Prof!At, L!Prof!At, Prof!Goes, L!Prof!Goes, Prof!Ask,
          L!Prof!Ask, Prof!memory, L!Prof!memory, Prof!lists, L!Prof!lists, Prof!sampler,
          L!Prof!sampler
  <2>6. Prof!Clear(c) => L!Prof!Clear(c)
      BY DEF
          Prof!Runs, L!Prof!Runs, Prof!At, L!Prof!At, Prof!Goes, L!Prof!Goes, Prof!Clear,
          L!Prof!Clear, Prof!memory, L!Prof!memory, Prof!lists, L!Prof!lists, Prof!sampler,
          L!Prof!sampler
  <2>7. Prof!nios2_pcsample_init(c) => L!Prof!nios2_pcsample_init(c)
      BY DEF
          Prof!Runs, L!Prof!Runs, Prof!At, L!Prof!At, Prof!nios2_pcsample_init,
          L!Prof!nios2_pcsample_init, Prof!memory, L!Prof!memory, Prof!lists, L!Prof!lists,
          Prof!sampler, L!Prof!sampler
  <2>8. Prof!Answer(c) => L!Prof!Answer(c)
      BY DEF
          Prof!Runs, L!Prof!Runs, Prof!At, L!Prof!At, Prof!Goes, L!Prof!Goes, Prof!Answer,
          L!Prof!Answer, Prof!memory, L!Prof!memory, Prof!lists, L!Prof!lists, Prof!sampler,
          L!Prof!sampler
  <2>9. Prof!Record(c) => L!Prof!Record(c)
      BY DEF
          Prof!Idle, L!Prof!Idle, Prof!None, L!Prof!None, Prof!Runs, L!Prof!Runs, Prof!At,
          L!Prof!At, Prof!Ends, L!Prof!Ends, Prof!Allocated, L!Prof!Allocated, Prof!Add,
          L!Prof!Add, Prof!Record, L!Prof!Record, Prof!memory, L!Prof!memory, Prof!lists,
          L!Prof!lists, Prof!sampler, L!Prof!sampler
  <2> QED BY <2>1, <2>2, <2>3, <2>4, <2>5, <2>6, <2>7, <2>8, <2>9
<1>3. ASSUME NEW b, Prof!nios2_pcsample(b) PROVE L!Prof!nios2_pcsample(b)
    BY <1>3 DEF
        Prof!memory, L!Prof!memory, Prof!lists, L!Prof!lists, Prof!nios2_pcsample,
        L!Prof!nios2_pcsample
<1>4. (Prof!ClockStarts => L!Prof!ClockStarts) /\ (Prof!Others => L!Prof!Others)
    BY DEF
        Prof!memory, L!Prof!memory, Prof!lists, L!Prof!lists, Prof!sampler, L!Prof!sampler,
        Prof!ClockStarts, L!Prof!ClockStarts, Prof!Others, L!Prof!Others
<1>5. Prof!Contexts = L!Prof!Contexts /\ Prof!Arcs = L!Prof!Arcs
    BY DEF Prof!Contexts, L!Prof!Contexts, Prof!Arcs, L!Prof!Arcs
<1> QED BY <1>1, <1>2, <1>3, <1>4, <1>5 DEF Prof!Next, L!Prof!Next

LEMMA ProfSame == L!Prof!ProfilerSound => Prof!ProfilerSound
<1>1. L!Prof!TypeOK => Prof!TypeOK
    BY DEF
        Prof!Contexts, L!Prof!Contexts, Prof!Arcs, L!Prof!Arcs, Prof!Range, L!Prof!Range,
        Prof!TypeOK, L!Prof!TypeOK
<1>2. L!Prof!RecordsApart => Prof!RecordsApart
    BY DEF
        Prof!Range, L!Prof!Range, Prof!IsInjective, L!Prof!IsInjective, Prof!FlattenSeq,
        L!Prof!FlattenSeq, Prof!RecordsApart, L!Prof!RecordsApart
<1>3. L!Prof!CallsCounted => Prof!CallsCounted
    BY DEF
        Prof!Arcs, L!Prof!Arcs, Prof!Range, L!Prof!Range, Prof!MapThenSumSet,
        L!Prof!MapThenSumSet, Prof!MapThenFoldSet, L!Prof!MapThenFoldSet, Prof!CallsCounted,
        L!Prof!CallsCounted
<1>4. L!Prof!SamplerSound => Prof!SamplerSound
    BY DEF Prof!SamplerSound, L!Prof!SamplerSound
<1> QED BY <1>1, <1>2, <1>3, <1>4 DEF Prof!ProfilerSound, L!Prof!ProfilerSound

ProfLayer == layer = "profiler" => L!ProfInv

LEMMA ProfKeeps == ProfLayer /\ [MCNext]_<<layer, vars, tableVars, shared>> => ProfLayer'
<1> SUFFICES ASSUME [MCNext]_<<layer, vars, tableVars, shared>>, layer = "profiler", L!ProfInv
             PROVE  L!ProfInv'
    BY LayerSteps DEF ProfLayer
<1>1. CASE Prof!Next
  <2>1. L!Prof!Next
      BY <1>1, ProfNextSame
  <2> QED BY <2>1, ProfAssumed, L!ProfNext
<1>2. CASE UNCHANGED shared
  <2>1. /\ v1' = v1 /\ v2' = v2 /\ v3' = v3 /\ v4' = v4 /\ v5' = v5 /\ v6' = v6 /\ v7' = v7 /\ v8' = v8
        /\ v9' = v9 /\ v10' = v10 /\ v11' = v11 /\ v12' = v12 /\ v13' = v13 /\ v14' = v14 /\ v15' = v15
      BY <1>2 DEF shared, After4
  <2> QED BY <2>1, L!ProfUnchanged
<1> QED BY <1>1, <1>2, LayerSteps

\* Records lie apart from one another and from the memory of others, every call is counted
\* once and the sampler is started once, but for the two races an interrupt can win
\* (alt_gmon.c:133-147, 167-182, alt_mcount.S:120-122), for all functions and callers,
\* every increment of the slab, every length of the text and size of a bucket, and however
\* many calls.
THEOREM ProfilerKept == MCSpec => []ProfilerSound
<1>1. MCInit => ProfLayer
    BY ProfInitSame, ProfAssumed, L!ProfInitial DEF MCInit, ProfLayer
<1>2. ProfLayer => ProfilerSound
    BY ProfSame, ProfAssumed, L!ProfSound DEF ProfLayer, ProfilerSound
<1> QED BY <1>1, <1>2, ProfKeeps, PTL DEF MCSpec

\* What the two printfs have read and printed.
LEMMA PrintAssumed == L!Printer!PrintfAssumption
BY LayersAssumption DEF
    Output!Power, L!Printer!Power, Output!Range, L!Printer!Range, Output!PrintfAssumption,
    L!Printer!PrintfAssumption

LEMMA PrintInitSame == Output!Init => L!Printer!Init
BY DEF Output!NoSpec, L!Printer!NoSpec, Output!Init, L!Printer!Init

LEMMA PrintNextSame == Output!Next => L!Printer!Next
<1>1. ASSUME NEW routine, NEW formats, Output!Call(routine, formats)
      PROVE  L!Printer!Call(routine, formats)
    BY <1>1 DEF Output!NoSpec, L!Printer!NoSpec, Output!Call, L!Printer!Call
<1>2. ASSUME NEW c
      PROVE  /\ Output!LogChars(c) => L!Printer!LogChars(c)
             /\ Output!LogFirst(c) => L!Printer!LogFirst(c)
             /\ Output!LogWidth(c) => L!Printer!LogWidth(c)
             /\ Output!LogLetter(c) => L!Printer!LogLetter(c)
             /\ Output!PrintfChar(c) => L!Printer!PrintfChar(c)
             /\ Output!PrintfDirective(c) => L!Printer!PrintfDirective(c)
  <2>1. Output!LogChars(c) => L!Printer!LogChars(c)
      BY DEF
          Output!Takes, L!Printer!Takes, Output!NoSpec, L!Printer!NoSpec, Output!Piece, L!Printer!Piece,
          Output!Prints, L!Printer!Prints, Output!LogChars, L!Printer!LogChars
  <2>2. Output!LogFirst(c) => L!Printer!LogFirst(c)
      BY DEF
          Output!Takes, L!Printer!Takes, Output!Piece, L!Printer!Piece, Output!Prints, L!Printer!Prints,
          Output!LogFirst, L!Printer!LogFirst
  <2>3. Output!LogWidth(c) => L!Printer!LogWidth(c)
      BY DEF
          Output!Takes, L!Printer!Takes, Output!Rest, L!Printer!Rest, Output!Decimals,
          L!Printer!Decimals, Output!Range, L!Printer!Range, Output!IsDigit, L!Printer!IsDigit,
          Output!DigitOf, L!Printer!DigitOf, Output!LogWidth, L!Printer!LogWidth
  <2>4. Output!LogLetter(c) => L!Printer!LogLetter(c)
      BY DEF
          Output!Takes, L!Printer!Takes, Output!Rest, L!Printer!Rest, Output!Range, L!Printer!Range,
          Output!IsDigit, L!Printer!IsDigit, Output!Typed, L!Printer!Typed, Output!Numeric,
          L!Printer!Numeric, Output!Piece, L!Printer!Piece, Output!Prints, L!Printer!Prints,
          Output!LogLetter, L!Printer!LogLetter, Output!Power, L!Printer!Power, Output!Digits,
          L!Printer!Digits, Output!Decimals, L!Printer!Decimals, Output!Lower, L!Printer!Lower,
          Output!Upper, L!Printer!Upper, Output!RepChar, L!Printer!RepChar, Output!Negative,
          L!Printer!Negative, Output!Magnitude, L!Printer!Magnitude, Output!Number, L!Printer!Number
  <2>5. Output!PrintfChar(c) => L!Printer!PrintfChar(c)
      BY DEF
          Output!Takes, L!Printer!Takes, Output!Piece, L!Printer!Piece, Output!Buffered,
          L!Printer!Buffered, Output!Puts, L!Printer!Puts, Output!PrintfChar, L!Printer!PrintfChar
  <2>6. Output!PrintfDirective(c) => L!Printer!PrintfDirective(c)
      BY DEF
          Output!NoSpec, L!Printer!NoSpec, Output!Typed, L!Printer!Typed, Output!Piece, L!Printer!Piece,
          Output!Buffered, L!Printer!Buffered, Output!Puts, L!Printer!Puts, Output!Hex, L!Printer!Hex,
          Output!Max, L!Printer!Max, Output!Power, L!Printer!Power, Output!Lower, L!Printer!Lower,
          Output!Decimals, L!Printer!Decimals, Output!PrintfDirective, L!Printer!PrintfDirective
  <2> QED BY <2>1, <2>2, <2>3, <2>4, <2>5, <2>6
<1>3. (Output!LogReturns => L!Printer!LogReturns) /\ (Output!PrintfReturns => L!Printer!PrintfReturns)
    BY DEF Output!LogReturns, L!Printer!LogReturns, Output!PrintfReturns, L!Printer!PrintfReturns
<1>4. Output!Range(v2) = L!Printer!Range(v2)
    BY DEF Output!Range, L!Printer!Range
<1> QED BY <1>1, <1>2, <1>3, <1>4 DEF Output!Next, L!Printer!Next

LEMMA PrintSame ==
    L!Printer!TypeOK /\ L!Printer!PrintfSound => Output!TypeOK /\ Output!PrintfSound
<1>1. L!Printer!TypeOK => Output!TypeOK
    BY DEF
        Output!Decimals, L!Printer!Decimals, Output!Range, L!Printer!Range, Output!TypeOK,
        L!Printer!TypeOK
<1>2. ASSUME NEW p, L!Printer!ReadsBack(p) PROVE Output!ReadsBack(p)
    BY <1>2 DEF
        Output!Power, L!Printer!Power, Output!Decimals, L!Printer!Decimals, Output!Lower,
        L!Printer!Lower, Output!Upper, L!Printer!Upper, Output!Range, L!Printer!Range, Output!Worth,
        L!Printer!Worth, Output!Denotes, L!Printer!Denotes, Output!Cardinality, L!Printer!Cardinality,
        Output!IsPrefix, L!Printer!IsPrefix, Output!IsDigit, L!Printer!IsDigit, Output!Min,
        L!Printer!Min, Output!SelectInSeq, L!Printer!SelectInSeq, Output!Width, L!Printer!Width,
        Output!Fills, L!Printer!Fills, Output!ReadsBack, L!Printer!ReadsBack
<1>3. ASSUME NEW p, L!Printer!Fills(p) PROVE Output!Fills(p)
    BY <1>3 DEF
        Output!Decimals, L!Printer!Decimals, Output!Lower, L!Printer!Lower, Output!Upper,
        L!Printer!Upper, Output!Range, L!Printer!Range, Output!Worth, L!Printer!Worth, Output!IsDigit,
        L!Printer!IsDigit, Output!Min, L!Printer!Min, Output!SelectInSeq, L!Printer!SelectInSeq,
        Output!Width, L!Printer!Width, Output!Fills, L!Printer!Fills
<1>4. ASSUME NEW s, NEW t, L!Printer!IsSuffix(s, t) PROVE Output!IsSuffix(s, t)
    BY <1>4 DEF
        Output!Reverse, L!Printer!Reverse, Output!IsPrefix, L!Printer!IsPrefix, Output!IsSuffix,
        L!Printer!IsSuffix
<1>5. L!Printer!PiecesSound => Output!PiecesSound
    BY <1>2, <1>3, <1>4, Zenon DEF
        Output!Numeric, L!Printer!Numeric, Output!PiecesSound, L!Printer!PiecesSound
<1>6. L!Printer!AllPrinted => Output!AllPrinted
    BY DEF
        Output!FlattenSeq, L!Printer!FlattenSeq, Output!AllPrinted, L!Printer!AllPrinted
<1> QED BY <1>1, <1>5, <1>6 DEF Output!PrintfSound, L!Printer!PrintfSound

PrintLayer == layer = "printf" => L!PrintInv

LEMMA PrintKeeps == PrintLayer /\ [MCNext]_<<layer, vars, tableVars, shared>> => PrintLayer'
<1> SUFFICES ASSUME [MCNext]_<<layer, vars, tableVars, shared>>, layer = "printf", L!PrintInv
             PROVE  L!PrintInv'
    BY LayerSteps DEF PrintLayer
<1>1. CASE Output!Next
  <2>1. L!Printer!Next
      BY <1>1, PrintNextSame
  <2> QED BY <2>1, PrintAssumed, L!PrintNext
<1>2. CASE UNCHANGED shared
  <2>1. UNCHANGED L!Printer!vars
      BY <1>2 DEF shared, After4, L!Printer!vars
  <2> QED BY <2>1, PrintAssumed, L!PrintNext
<1> QED BY <1>1, <1>2, LayerSteps

\* Every directive of either printf becomes the digits of its argument, which read back as
\* that number with its sign, in the base and the width that it asks for, a string or a
\* character behind the spaces it asks for, and what has been printed when a call returns
\* is all of it, in the order of the format (alt_log_printf.c:114-341, alt_printf.c:51-132,
\* alt_putcharbuf.c:58-79), for every width of a word, every size of the buffer, and all
\* formats, words and strings.
THEOREM PrintfKept == MCSpec => []PrintfSound
<1>1. MCInit => PrintLayer
    BY PrintInitSame, PrintAssumed, L!PrintInit DEF MCInit, PrintLayer
<1>2. PrintLayer => PrintfSound
    BY PrintSame, L!PrintIsSound DEF PrintLayer, PrintfSound
<1> QED BY <1>1, <1>2, PrintKeeps, PTL DEF MCSpec

\* An exception costs the program no instruction but the one its handler had passed over,
\* and the handler is told of the right one (alt_exception_entry.S:165-167, 196, 279-286),
\* for every length of the program and set of causes.
THEOREM ExceptionsKept == MCSpec => []ExceptionsSound
<1>1. MCInit => ExcLayer
    BY ExcInitSame, ExcAssumed, L!ExcInit DEF MCInit, ExcLayer
<1>2. ExcLayer => ExceptionsSound
    BY ExcSame, L!ExcSound DEF ExcLayer, ExceptionsSound
<1> QED BY <1>1, <1>2, ExcKeeps, PTL DEF MCSpec

\* A timestamp is of a moment in its call, and a busy wait is never too short
\* (altera_avalon_timer_ts.c:124-128, alt_busy_sleep.c:74-129), for every width of a
\* register of the timer, and every word and speed of the processor.
THEOREM TimersKept == MCSpec => []TimersSound
<1>1. MCInit => StampLayer
    BY StampInitSame, StampAssumed, L!StampInit DEF MCInit, StampLayer
<1>2. L!StampInv => Stamp!TypeOK /\ Stamp!TimestampSound
    BY StampSame, StampAssumed, L!StampSound
<1>3. MCInit => SleepLayer
    BY SleepInitSame, SleepAssumed, L!SleepInit DEF MCInit, SleepLayer
<1>4. L!SleepInv => Sleep!TypeOK /\ Sleep!DelaySound
    BY SleepSame DEF L!SleepInv
<1>5. StampLayer /\ SleepLayer => TimersSound
    BY <1>2, <1>4 DEF StampLayer, SleepLayer, TimersSound
<1> QED BY <1>1, <1>3, <1>5, StampKeeps, SleepKeeps, PTL DEF MCSpec
================================================================================
